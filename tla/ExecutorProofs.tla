--------------------------- MODULE ExecutorProofs ---------------------------
(***************************************************************************)
(* Safety of PriorityExecutor: where the Runnable of a task is.            *)
(*                                                                         *)
(* The invariant relates the queues, the workers and the state of each     *)
(* task (OneRunnable), the wakes to come (NeverStranded, PendingWillWake)  *)
(* and the polls left.  Every step changes the queues in one of two ways,  *)
(* a task appended or a head taken, and the workers in one of two, a task  *)
(* taken or let go; a lemma for each does the work.                        *)
(***************************************************************************)
EXTENDS PriorityExecutor, TLAPS

\* What TypeOK says a task can be.
TaskState == {"new", "queued", "polled", "idle", "done", "failed", "cancelled"}

\* The strengthening of the three safety properties.
ExecutorInv ==
  /\ TypeOK
  /\ OneRunnable
  /\ OwnQueue
  /\ NotYetSpawned
  /\ PollsToGo
  /\ PendingWillWake
  /\ NeverStranded

-----------------------------------------------------------------------------
(* The queues.                                                             *)

LEMMA TailFacts ==
  ASSUME NEW S, NEW s \in Seq(S), s # << >>
  PROVE  /\ Tail(s) \in Seq(S) /\ Len(Tail(s)) = Len(s) - 1 /\ Len(s) \in Nat
         /\ Head(s) \in S /\ Head(s) = s[1] /\ 1 \in 1 .. Len(s)
         /\ \A i \in 1 .. Len(s) - 1 : Tail(s)[i] = s[i + 1]
  OBVIOUS

\* The first use of a queue starts threads of that queue, and no others.
LEMMA StartsItsQueue ==
  ASSUME started \subseteq Priority, NEW t \in Task, Schedule(t)
  PROVE  started' \subseteq Priority
<1>1. Order[t] \in Priority
  BY ExecutorAssumption
<1>2. started' = started \cup {Order[t]}
  BY DEF Schedule
<1> QED
  BY <1>1, <1>2

\* A task that is in no queue is scheduled: it is in its own queue, once.
LEMMA Enqueue ==
  ASSUME TypeOK, QueuesHold, OwnQueue, NEW t \in Task, state[t] # "queued",
         Schedule(t), state' = [state EXCEPT ![t] = "queued"]
  PROVE  /\ queue' \in [Priority -> Seq(Task)]
         /\ QueuesHold' /\ OwnQueue'
<1> DEFINE o == Order[t]
<1>1. /\ o \in Priority
      /\ queue \in [Priority -> Seq(Task)]
      /\ state \in [Task -> TaskState]
  BY ExecutorAssumption DEF TypeOK, TaskState
<1>2. queue' = [queue EXCEPT ![o] = Append(queue[o], t)]
  BY DEF Schedule
<1>3. queue' \in [Priority -> Seq(Task)]
  BY <1>1, <1>2
<1>4. \A p \in Priority \ {o} : queue'[p] = queue[p]
  BY <1>1, <1>2
<1>5. /\ Len(queue'[o]) = Len(queue[o]) + 1 /\ Len(queue[o]) \in Nat
      /\ queue'[o][Len(queue[o]) + 1] = t
      /\ \A i \in 1 .. Len(queue[o]) : queue'[o][i] = queue[o][i]
  BY <1>1, <1>2
<1> HIDE DEF o
<1>6. ASSUME NEW p \in Priority, NEW i \in 1 .. Len(queue[p])
      PROVE  i \in 1 .. Len(queue'[p]) /\ queue'[p][i] = queue[p][i]
  <2>1. CASE p = o
    BY <1>5, <2>1
  <2>2. CASE p # o
    BY <1>4, <2>2
  <2> QED
    BY <2>1, <2>2
<1>7. ASSUME NEW p \in Priority, NEW i \in 1 .. Len(queue'[p])
      PROVE  \/ p = o /\ i = Len(queue[o]) + 1 /\ queue'[p][i] = t
             \/ i \in 1 .. Len(queue[p]) /\ queue'[p][i] = queue[p][i]
  <2>1. CASE p = o
    BY <1>5, <2>1
  <2>2. CASE p # o
    BY <1>4, <2>2
  <2> QED
    BY <2>1, <2>2
<1>8. \A p \in Priority : \A i \in 1 .. Len(queue[p]) : queue[p][i] # t
  BY DEF QueuesHold, Queued
<1>9. QueuesHold'
  <2>1. ASSUME NEW p \in Priority, NEW q \in Priority, NEW i \in 1 .. Len(queue'[p]),
               NEW j \in 1 .. Len(queue'[q]), queue'[p][i] = queue'[q][j]
        PROVE  p = q /\ i = j
    <3>1. CASE queue'[p][i] = t
      <4>1. p = o /\ i = Len(queue[o]) + 1
        BY <1>7, <1>8, <3>1
      <4>2. queue'[q][j] = t
        BY <2>1, <3>1
      <4>3. q = o /\ j = Len(queue[o]) + 1
        BY <1>7, <1>8, <4>2
      <4> QED
        BY <4>1, <4>3
    <3>2. CASE queue'[p][i] # t
      BY <1>7, <2>1, <3>2 DEF QueuesHold
    <3> QED
      BY <3>1, <3>2
  <2>2. ASSUME NEW u \in Task
        PROVE  state'[u] = "queued" <=> Queued(u)'
    <3>1. CASE u = t
      <4>1. Queued(u)'
        <5>1. /\ o \in Priority /\ Len(queue[o]) + 1 \in 1 .. Len(queue'[o])
              /\ queue'[o][Len(queue[o]) + 1] = u
          BY <1>1, <1>5, <3>1
        <5> QED
          BY <5>1 DEF Queued
      <4> QED
        BY <1>1, <3>1, <4>1
    <3>2. CASE u # t
      <4>1. state'[u] = state[u]
        BY <1>1, <3>2
      <4>2. Queued(u)' <=> Queued(u)
        BY <1>6, <1>7, <3>2 DEF Queued
      <4> QED
        BY <4>1, <4>2 DEF QueuesHold
    <3> QED
      BY <3>1, <3>2
  <2> QED
    BY <2>1, <2>2 DEF QueuesHold
<1>10. OwnQueue'
  BY <1>7 DEF OwnQueue, o
<1> QED
  BY <1>3, <1>9, <1>10

\* The head of a queue is taken, to be polled or dropped: it was nowhere else.
LEMMA Dequeue ==
  ASSUME TypeOK, QueuesHold, OwnQueue, NEW p \in Priority, queue[p] # << >>,
         NEW s, s # "queued",
         queue' = [queue EXCEPT ![p] = Tail(@)],
         state' = [state EXCEPT ![Head(queue[p])] = s]
  PROVE  /\ Head(queue[p]) \in Task /\ state[Head(queue[p])] = "queued"
         /\ queue' \in [Priority -> Seq(Task)]
         /\ QueuesHold' /\ OwnQueue'
<1> DEFINE t == Head(queue[p])
<1>1. /\ queue \in [Priority -> Seq(Task)]
      /\ state \in [Task -> TaskState]
  BY DEF TypeOK, TaskState
<1>2. queue[p] \in Seq(Task)
  BY <1>1
<1>3. /\ t \in Task /\ t = queue[p][1] /\ 1 \in 1 .. Len(queue[p])
  BY <1>2, TailFacts
<1>4. state[t] = "queued"
  BY <1>3 DEF QueuesHold, Queued
<1>5. Tail(queue[p]) \in Seq(Task)
  BY <1>2
<1>6. queue' \in [Priority -> Seq(Task)]
  BY <1>1, <1>5
<1>7. \A q \in Priority \ {p} : queue'[q] = queue[q]
  BY <1>1
<1>8. /\ Len(queue'[p]) = Len(queue[p]) - 1 /\ Len(queue[p]) \in Nat
      /\ \A i \in 1 .. Len(queue[p]) - 1 : queue'[p][i] = queue[p][i + 1]
  <2>1. queue'[p] = Tail(queue[p])
    BY <1>1
  <2> QED
    BY <1>2, <2>1, TailFacts
<1> DEFINE at(q, i) == IF q = p THEN i + 1 ELSE i
<1>9. \A q \in Priority : \A i \in 1 .. Len(queue'[q]) :
        at(q, i) \in 1 .. Len(queue[q]) /\ queue'[q][i] = queue[q][at(q, i)]
  BY <1>7, <1>8
<1>10. \A q \in Priority : \A i \in 1 .. Len(queue[q]) :
         \/ q = p /\ i = 1
         \/ \E j \in 1 .. Len(queue'[q]) : queue'[q][j] = queue[q][i]
  <2>1. ASSUME NEW q \in Priority, NEW i \in 1 .. Len(queue[q]), ~(q = p /\ i = 1)
        PROVE  \E j \in 1 .. Len(queue'[q]) : queue'[q][j] = queue[q][i]
    <3>1. CASE q = p
      <4>1. i - 1 \in 1 .. Len(queue'[q]) /\ queue'[q][i - 1] = queue[q][i]
        BY <1>8, <2>1, <3>1
      <4> QED
        BY <4>1
    <3>2. CASE q # p
      BY <1>7, <3>2
    <3> QED
      BY <3>1, <3>2
  <2> QED
    BY <2>1
<1>11. \A q \in Priority : \A i \in 1 .. Len(queue'[q]) : queue'[q][i] # t
  <2>1. ASSUME NEW q \in Priority, NEW i \in 1 .. Len(queue'[q]), queue'[q][i] = t
        PROVE  FALSE
    <3>1. q = p /\ at(q, i) = 1
      BY <1>3, <1>9, <2>1 DEF QueuesHold
    <3> QED
      BY <1>6, <3>1
  <2> QED
    BY <2>1
<1>12. QueuesHold'
  <2>1. ASSUME NEW q \in Priority, NEW r \in Priority, NEW i \in 1 .. Len(queue'[q]),
               NEW j \in 1 .. Len(queue'[r]), queue'[q][i] = queue'[r][j]
        PROVE  q = r /\ i = j
    <3>1. q = r /\ at(q, i) = at(r, j)
      BY <1>9, <2>1 DEF QueuesHold
    <3> QED
      BY <1>6, <3>1
  <2>2. ASSUME NEW u \in Task
        PROVE  state'[u] = "queued" <=> Queued(u)'
    <3>1. CASE u = t
      BY <1>1, <1>11, <3>1 DEF Queued
    <3>2. CASE u # t
      <4>1. state'[u] = state[u]
        BY <1>1, <3>2
      <4>2. Queued(u) => Queued(u)'
        <5>1. ASSUME NEW q \in Priority, NEW i \in 1 .. Len(queue[q]), queue[q][i] = u
              PROVE  \E j \in 1 .. Len(queue'[q]) : queue'[q][j] = u
          <6>1. ~(q = p /\ i = 1)
            BY <1>3, <3>2, <5>1
          <6> QED
            BY <1>10, <5>1, <6>1
        <5> QED
          BY <5>1 DEF Queued
      <4>3. Queued(u)' => Queued(u)
        <5>1. ASSUME NEW q \in Priority, NEW i \in 1 .. Len(queue'[q]), queue'[q][i] = u
              PROVE  at(q, i) \in 1 .. Len(queue[q]) /\ queue[q][at(q, i)] = u
          BY <1>9, <5>1
        <5> HIDE DEF at
        <5> QED
          BY <5>1 DEF Queued
      <4> QED
        BY <4>1, <4>2, <4>3 DEF QueuesHold
    <3> QED
      BY <3>1, <3>2
  <2> QED
    BY <2>1, <2>2 DEF QueuesHold
<1>13. OwnQueue'
  BY <1>9 DEF OwnQueue
<1> QED
  BY <1>3, <1>4, <1>6, <1>12, <1>13

\* The state of a task changes, and the queues have nothing to do with it.
LEMMA QueuesKept ==
  ASSUME TypeOK, QueuesHold, OwnQueue, NEW t \in Task, NEW s, UNCHANGED queue,
         state[t] # "queued", s # "queued", state' = [state EXCEPT ![t] = s]
  PROVE  QueuesHold' /\ OwnQueue'
<1>1. \A u \in Task : state'[u] = IF u = t THEN s ELSE state[u]
  BY DEF TypeOK
<1>2. \A u \in Task : state'[u] = "queued" <=> state[u] = "queued"
  BY <1>1
<1>3. \A u \in Task : Queued(u)' <=> Queued(u)
  BY DEF Queued
<1> QED
  BY <1>2, <1>3 DEF QueuesHold, OwnQueue

-----------------------------------------------------------------------------
(* The workers.                                                            *)

\* A worker with nothing to do takes a task.
LEMMA Engage ==
  ASSUME TypeOK, WorkersHold, NEW w \in Worker, NEW t \in Task,
         state[t] # "polled", doing[w] = None,
         doing' = [doing EXCEPT ![w] = t], state' = [state EXCEPT ![t] = "polled"]
  PROVE  doing' \in [Worker -> Task \cup {None}] /\ WorkersHold'
<1>1. /\ doing \in [Worker -> Task \cup {None}]
      /\ \A u \in Task : state'[u] = IF u = t THEN "polled" ELSE state[u]
  BY DEF TypeOK
<1>2. \A x \in Worker : doing'[x] = IF x = w THEN t ELSE doing[x]
  BY <1>1
<1>3. \A x \in Worker : doing[x] # t
  BY DEF WorkersHold
<1>4. t # None
  BY ExecutorAssumption
<1>5. \A x, y \in Worker : doing'[x] = doing'[y] /\ doing'[x] # None => x = y
  BY <1>2, <1>3 DEF WorkersHold
<1>6. ASSUME NEW u \in Task
      PROVE  state'[u] = "polled" <=> \E x \in Worker : doing'[x] = u
  <2>1. CASE u = t
    BY <1>1, <1>2, <2>1
  <2>2. CASE u # t
    <3>1. u # None
      BY ExecutorAssumption
    <3>2. \A x \in Worker : doing'[x] = u <=> doing[x] = u
      BY <1>2, <2>2, <3>1
    <3> QED
      BY <1>1, <2>2, <3>2 DEF WorkersHold
  <2> QED
    BY <2>1, <2>2
<1> QED
  BY <1>1, <1>5, <1>6 DEF WorkersHold

\* A worker lets go of its task, which nobody polls then.
LEMMA Release ==
  ASSUME TypeOK, WorkersHold, NEW w \in Worker, NEW t \in Task, NEW s,
         doing[w] = t, s # "polled",
         doing' = [doing EXCEPT ![w] = None], state' = [state EXCEPT ![t] = s]
  PROVE  /\ state[t] = "polled"
         /\ doing' \in [Worker -> Task \cup {None}] /\ WorkersHold'
<1>1. /\ doing \in [Worker -> Task \cup {None}]
      /\ \A u \in Task : state'[u] = IF u = t THEN s ELSE state[u]
  BY DEF TypeOK
<1>2. \A x \in Worker : doing'[x] = IF x = w THEN None ELSE doing[x]
  BY <1>1
<1>3. \A u \in Task : u # None
  BY ExecutorAssumption
<1>4. state[t] = "polled"
  BY DEF WorkersHold
<1>5. \A x, y \in Worker : doing'[x] = doing'[y] /\ doing'[x] # None => x = y
  BY <1>2 DEF WorkersHold
<1>6. \A x \in Worker : doing'[x] # t
  BY <1>2, <1>3 DEF WorkersHold
<1>7. ASSUME NEW u \in Task
      PROVE  state'[u] = "polled" <=> \E x \in Worker : doing'[x] = u
  <2>1. CASE u = t
    BY <1>1, <1>6, <2>1
  <2>2. CASE u # t
    <3>1. \A x \in Worker : doing'[x] = u <=> doing[x] = u
      BY <1>2, <1>3, <2>2
    <3> QED
      BY <1>1, <2>2, <3>1 DEF WorkersHold
  <2> QED
    BY <2>1, <2>2
<1> QED
  BY <1>1, <1>4, <1>5, <1>7 DEF WorkersHold

\* The state of a task changes, and no worker has anything to do with it.
LEMMA WorkersKept ==
  ASSUME TypeOK, WorkersHold, NEW t \in Task, NEW s, UNCHANGED doing,
         state[t] # "polled", s # "polled", state' = [state EXCEPT ![t] = s]
  PROVE  WorkersHold'
<1>1. \A u \in Task : state'[u] = IF u = t THEN s ELSE state[u]
  BY DEF TypeOK
<1>2. \A u \in Task : state'[u] = "polled" <=> state[u] = "polled"
  BY <1>1
<1> QED
  BY <1>2 DEF WorkersHold

\* Nothing is known of a task before it is spawned.
LEMMA SpawnedKept ==
  ASSUME TypeOK, NotYetSpawned, NEW t \in Task, NEW s, UNCHANGED spawned,
         state[t] # "new", state' = [state EXCEPT ![t] = s]
  PROVE  NotYetSpawned'
<1>1. Program \in Seq(Task) /\ spawned \in Nat
  BY ExecutorAssumption DEF TypeOK
<1>2. \A i \in spawned + 1 .. Len(Program) : Program[i] \in Task
  BY <1>1
<1>3. \A u \in Task : state'[u] = IF u = t THEN s ELSE state[u]
  BY DEF TypeOK
<1> QED
  BY <1>2, <1>3 DEF NotYetSpawned

-----------------------------------------------------------------------------
(* The steps.                                                              *)

LEMMA InitInv == Init => ExecutorInv
<1> SUFFICES ASSUME Init PROVE ExecutorInv
  OBVIOUS
<1>1. /\ \A t \in Task : state[t] = "new" /\ polls[t] = 0 /\ ~armed[t] /\ ~woken[t]
      /\ \A w \in Worker : doing[w] = None
      /\ \A p \in Priority : queue[p] = << >>
  BY DEF Init
<1>2. \A t \in Task : t # None /\ Polls[t] \in Nat \ {0}
  BY ExecutorAssumption
<1>3. Program \in Seq(Task)
  BY ExecutorAssumption
<1>4. TypeOK
  BY <1>2, <1>3 DEF Init, TypeOK, Priority
<1>5. OneRunnable
  <2>1. \A p \in Priority : 1 .. Len(queue[p]) = {}
    BY <1>1
  <2>2. QueuesHold
    BY <1>1, <2>1 DEF QueuesHold, Queued
  <2>3. WorkersHold
    BY <1>1, <1>2 DEF WorkersHold
  <2> QED
    BY <2>2, <2>3 DEF OneRunnable
<1>6. OwnQueue
  BY <1>1 DEF OwnQueue
<1>7. NotYetSpawned
  <2>1. \A i \in 1 .. Len(Program) : Program[i] \in Task
    BY <1>3
  <2> QED
    BY <1>1, <1>3, <2>1 DEF NotYetSpawned, Init
<1>8. PollsToGo /\ PendingWillWake /\ NeverStranded
  BY <1>1, <1>2 DEF PollsToGo, PendingWillWake, NeverStranded
<1> QED
  BY <1>4, <1>5, <1>6, <1>7, <1>8 DEF ExecutorInv

LEMMA SpawnInv == ExecutorInv /\ Spawn => ExecutorInv'
<1> SUFFICES ASSUME ExecutorInv, Spawn PROVE ExecutorInv'
  OBVIOUS
<1> USE DEF ExecutorInv
<1> DEFINE t == Program[spawned + 1]
<1>1. /\ Program \in Seq(Task) /\ spawned \in Nat /\ spawned + 1 \in 1 .. Len(Program)
      /\ \A i, j \in 1 .. Len(Program) : Program[i] = Program[j] => i = j
  BY ExecutorAssumption DEF TypeOK, Spawn
<1>2. t \in Task /\ state[t] = "new"
  BY <1>1 DEF NotYetSpawned
<1>3. /\ spawned' = spawned + 1 /\ state' = [state EXCEPT ![t] = "queued"]
      /\ Schedule(t) /\ UNCHANGED <<polls, armed, woken, doing, look, joined, caller, dropped>>
  BY DEF Spawn
<1> HIDE DEF t
<1>4. \A u \in Task : state'[u] = IF u = t THEN "queued" ELSE state[u]
  BY <1>2, <1>3 DEF TypeOK
<1>5. /\ queue' \in [Priority -> Seq(Task)]
      /\ QueuesHold' /\ OwnQueue'
  BY <1>2, <1>3, Enqueue DEF OneRunnable
<1>6. WorkersHold'
  BY <1>2, <1>3, WorkersKept DEF OneRunnable
<1>7. TypeOK'
  <2>1. state' \in [Task -> TaskState]
    BY <1>3 DEF TypeOK, TaskState
  <2>2. started' \subseteq Priority
    BY <1>2, <1>3, StartsItsQueue DEF TypeOK
  <2>3. spawned' \in 0 .. Len(Program) /\ joined' \in 0 .. spawned'
    BY <1>1, <1>3 DEF TypeOK
  <2> QED
    BY <1>3, <1>5, <2>1, <2>2, <2>3 DEF TypeOK, TaskState
<1>8. NotYetSpawned'
  <2>1. ASSUME NEW i \in spawned' + 1 .. Len(Program)
        PROVE  state'[Program[i]] = "new"
    <3>1. i \in spawned + 1 .. Len(Program) /\ i \in 1 .. Len(Program) /\ i # spawned + 1
      BY <1>1, <1>3
    <3>2. Program[i] \in Task /\ Program[i] # t
      BY <1>1, <3>1 DEF t
    <3> QED
      BY <1>4, <3>1, <3>2 DEF NotYetSpawned
  <2> QED
    BY <2>1 DEF NotYetSpawned
<1>9. PollsToGo' /\ PendingWillWake' /\ NeverStranded'
  BY <1>2, <1>3, <1>4 DEF PollsToGo, PendingWillWake, NeverStranded
<1> QED
  BY <1>5, <1>6, <1>7, <1>8, <1>9 DEF OneRunnable

LEMMA JoinInv == ExecutorInv /\ Join => ExecutorInv'
<1> SUFFICES ASSUME ExecutorInv, Join PROVE ExecutorInv'
  OBVIOUS
<1> USE DEF ExecutorInv
<1>1. UNCHANGED <<taskVars, queue, started, doing, look, spawned, dropped>>
  BY DEF Join
<1>2. joined' \in 0 .. spawned' /\ caller' \in {"runs", "panicked"}
  BY DEF Join, TypeOK
<1>3. TypeOK'
  BY <1>1, <1>2 DEF TypeOK, taskVars
<1>4. OneRunnable' /\ OwnQueue' /\ NotYetSpawned'
  BY <1>1 DEF OneRunnable, QueuesHold, WorkersHold, Queued, OwnQueue, NotYetSpawned, taskVars
<1>5. PollsToGo' /\ PendingWillWake' /\ NeverStranded'
  BY <1>1 DEF PollsToGo, PendingWillWake, NeverStranded, taskVars
<1> QED
  BY <1>3, <1>4, <1>5

LEMMA WakeInv ==
  ASSUME ExecutorInv, NEW t \in Task, Wake(t)
  PROVE  ExecutorInv'
<1> USE DEF ExecutorInv
<1>1. armed' = [armed EXCEPT ![t] = FALSE] /\ UNCHANGED <<polls, doing, look, callerVars>>
  BY DEF Wake
<1>2. \A u \in Task : u # t => armed'[u] = armed[u]
  BY <1>1 DEF TypeOK
<1>3. armed' \in [Task -> BOOLEAN]
  BY <1>1 DEF TypeOK
<1>4. CASE state[t] = "idle" /\ t \notin dropped /\ state' = [state EXCEPT ![t] = "queued"]
           /\ Schedule(t) /\ UNCHANGED woken
  <2>1. \A u \in Task : state'[u] = IF u = t THEN "queued" ELSE state[u]
    BY <1>4 DEF TypeOK
  <2>2. /\ queue' \in [Priority -> Seq(Task)]
        /\ QueuesHold' /\ OwnQueue'
    BY <1>4, Enqueue DEF OneRunnable
  <2>3. WorkersHold'
    BY <1>1, <1>4, WorkersKept DEF OneRunnable
  <2>4. NotYetSpawned'
    BY <1>1, <1>4, SpawnedKept DEF callerVars
  <2>5. TypeOK'
    <3>1. state' \in [Task -> TaskState]
      BY <1>4 DEF TypeOK, TaskState
    <3>2. started' \subseteq Priority
      BY <1>4, StartsItsQueue DEF TypeOK
    <3> QED
      BY <1>1, <1>3, <1>4, <2>2, <3>1, <3>2 DEF TypeOK, TaskState, callerVars
  <2>6. PollsToGo' /\ PendingWillWake' /\ NeverStranded'
    BY <1>1, <1>2, <1>4, <2>1 DEF PollsToGo, PendingWillWake, NeverStranded, callerVars
  <2> QED
    BY <2>2, <2>3, <2>4, <2>5, <2>6 DEF OneRunnable
<1>5. CASE state[t] = "polled" /\ t \notin dropped /\ woken' = [woken EXCEPT ![t] = TRUE]
           /\ UNCHANGED <<state, queue, started>>
  <2>1. /\ woken' \in [Task -> BOOLEAN]
        /\ woken'[t] = TRUE /\ \A u \in Task : u # t => woken'[u] = woken[u]
    BY <1>5 DEF TypeOK
  <2>2. TypeOK'
    BY <1>1, <1>3, <1>5, <2>1 DEF TypeOK, callerVars
  <2>3. OneRunnable' /\ OwnQueue' /\ NotYetSpawned'
    BY <1>1, <1>5 DEF OneRunnable, QueuesHold, WorkersHold, Queued, OwnQueue,
                      NotYetSpawned, callerVars
  <2>4. PollsToGo' /\ NeverStranded'
    BY <1>1, <1>2, <1>5 DEF PollsToGo, NeverStranded, callerVars
  <2>5. PendingWillWake'
    BY <1>1, <1>2, <1>5, <2>1 DEF PendingWillWake, callerVars
  <2> QED
    BY <2>2, <2>3, <2>4, <2>5
<1>6. CASE t \in dropped /\ UNCHANGED <<state, woken, queue, started>>
  <2>1. TypeOK'
    BY <1>1, <1>3, <1>6 DEF TypeOK, callerVars
  <2>2. OneRunnable' /\ OwnQueue' /\ NotYetSpawned'
    BY <1>1, <1>6 DEF OneRunnable, QueuesHold, WorkersHold, Queued, OwnQueue,
                      NotYetSpawned, callerVars
  <2>3. PollsToGo' /\ PendingWillWake' /\ NeverStranded'
    BY <1>1, <1>2, <1>6 DEF PollsToGo, PendingWillWake, NeverStranded, callerVars
  <2> QED
    BY <2>1, <2>2, <2>3
<1> QED
  BY <1>4, <1>5, <1>6 DEF Wake

\* The caller drops a handle: the task of it, if it waits, is scheduled again.
LEMMA DropInv ==
  ASSUME ExecutorInv, NEW t \in Task, DropHandle(t)
  PROVE  ExecutorInv'
<1> USE DEF ExecutorInv
<1>1. /\ dropped' = dropped \cup {t}
      /\ UNCHANGED <<polls, armed, woken, doing, look, spawned, joined, caller>>
  BY DEF DropHandle
<1>2. CASE state[t] = "idle" /\ state' = [state EXCEPT ![t] = "queued"] /\ Schedule(t)
  <2>1. \A u \in Task : state'[u] = IF u = t THEN "queued" ELSE state[u]
    BY <1>2 DEF TypeOK
  <2>2. /\ queue' \in [Priority -> Seq(Task)]
        /\ QueuesHold' /\ OwnQueue'
    BY <1>2, Enqueue DEF OneRunnable
  <2>3. WorkersHold'
    BY <1>1, <1>2, WorkersKept DEF OneRunnable
  <2>4. NotYetSpawned'
    BY <1>1, <1>2, SpawnedKept
  <2>5. TypeOK'
    <3>1. state' \in [Task -> TaskState]
      BY <1>2 DEF TypeOK, TaskState
    <3>2. started' \subseteq Priority
      BY <1>2, StartsItsQueue DEF TypeOK
    <3> QED
      BY <1>1, <2>2, <3>1, <3>2 DEF TypeOK, TaskState
  <2>6. PollsToGo' /\ PendingWillWake' /\ NeverStranded'
    BY <1>1, <1>2, <2>1 DEF PollsToGo, PendingWillWake, NeverStranded
  <2> QED
    BY <2>2, <2>3, <2>4, <2>5, <2>6 DEF OneRunnable
<1>3. CASE state[t] # "idle" /\ UNCHANGED <<state, queue, started>>
  <2>1. TypeOK'
    BY <1>1, <1>3 DEF TypeOK
  <2>2. OneRunnable' /\ OwnQueue' /\ NotYetSpawned'
    BY <1>1, <1>3 DEF OneRunnable, QueuesHold, WorkersHold, Queued, OwnQueue, NotYetSpawned
  <2>3. PollsToGo' /\ PendingWillWake' /\ NeverStranded'
    BY <1>1, <1>3 DEF PollsToGo, PendingWillWake, NeverStranded
  <2> QED
    BY <2>1, <2>2, <2>3
<1> QED
  BY <1>2, <1>3 DEF DropHandle

\* A worker takes a task that is not closed: what the poll will do about its wake
\* is decided now.
LEMMA PollInv ==
  ASSUME ExecutorInv, NEW w \in Worker, NEW p \in Priority, Take(w, p),
         Head(queue[p]) \notin dropped, look' \in [HighWorker -> Priority]
  PROVE  ExecutorInv'
<1> USE DEF ExecutorInv
<1> DEFINE t == Head(queue[p])
<1>1. /\ doing[w] = None /\ queue[p] # << >>
      /\ doing' = [doing EXCEPT ![w] = t]
      /\ state' = [state EXCEPT ![t] = "polled"]
      /\ woken' = [woken EXCEPT ![t] = FALSE]
      /\ armed' = [armed EXCEPT ![t] = polls[t] + 1 < Polls[t] /\ t \notin SelfWaking]
      /\ queue' = [queue EXCEPT ![p] = Tail(@)]
      /\ t \notin dropped
      /\ UNCHANGED <<polls, started, callerVars>>
  BY DEF Take
<1>2. /\ t \in Task /\ state[t] = "queued"
      /\ queue' \in [Priority -> Seq(Task)]
      /\ QueuesHold' /\ OwnQueue'
  BY <1>1, Dequeue DEF OneRunnable
<1> HIDE DEF t
<1>3. doing' \in [Worker -> Task \cup {None}] /\ WorkersHold'
  BY <1>1, <1>2, Engage DEF OneRunnable
<1>4. NotYetSpawned'
  BY <1>1, <1>2, SpawnedKept DEF callerVars
<1>5. /\ state' \in [Task -> TaskState]
      /\ \A u \in Task : state'[u] = IF u = t THEN "polled" ELSE state[u]
  BY <1>1, <1>2 DEF TypeOK, TaskState
<1>6. /\ woken' \in [Task -> BOOLEAN]
      /\ \A u \in Task : u # t => woken'[u] = woken[u]
  BY <1>1 DEF TypeOK
<1>7. /\ armed' \in [Task -> BOOLEAN]
      /\ \A u \in Task : u # t => armed'[u] = armed[u]
      /\ armed'[t] = (polls[t] + 1 < Polls[t] /\ t \notin SelfWaking)
  <2> DEFINE b == polls[t] + 1 < Polls[t] /\ t \notin SelfWaking
  <2>1. b \in BOOLEAN
    OBVIOUS
  <2> HIDE DEF b
  <2>2. armed' = [armed EXCEPT ![t] = b]
    BY <1>1 DEF b
  <2>3. /\ armed' \in [Task -> BOOLEAN] /\ armed'[t] = b
        /\ \A u \in Task : u # t => armed'[u] = armed[u]
    BY <1>2, <2>1, <2>2 DEF TypeOK
  <2> QED
    BY <2>3 DEF b
<1>8. TypeOK'
  BY <1>1, <1>2, <1>3, <1>5, <1>6, <1>7 DEF TypeOK, TaskState, callerVars
<1>9. PollsToGo' /\ NeverStranded'
  BY <1>1, <1>2, <1>5, <1>7 DEF PollsToGo, NeverStranded, callerVars
<1>10. PendingWillWake'
  <2>1. ASSUME NEW u \in Task, state'[u] = "polled", polls'[u] + 1 < Polls[u]
        PROVE  u \in SelfWaking \/ armed'[u] \/ woken'[u] \/ u \in dropped'
    <3>1. CASE u = t
      BY <1>1, <1>7, <2>1, <3>1
    <3>2. CASE u # t
      BY <1>1, <1>5, <1>6, <1>7, <2>1, <3>2 DEF PendingWillWake, callerVars
    <3> QED
      BY <3>1, <3>2
  <2> QED
    BY <2>1 DEF PendingWillWake
<1> QED
  BY <1>2, <1>3, <1>4, <1>8, <1>9, <1>10 DEF OneRunnable

\* The future of a closed task is dropped by the worker that takes it.
LEMMA CancelInv ==
  ASSUME ExecutorInv, NEW w \in Worker, NEW p \in Priority, Take(w, p),
         Head(queue[p]) \in dropped, look' \in [HighWorker -> Priority]
  PROVE  ExecutorInv'
<1> USE DEF ExecutorInv
<1> DEFINE t == Head(queue[p])
<1>1. /\ queue[p] # << >> /\ queue' = [queue EXCEPT ![p] = Tail(@)]
      /\ state' = [state EXCEPT ![t] = "cancelled"]
      /\ UNCHANGED <<doing, woken, armed, polls, started, callerVars>>
  BY DEF Take
<1>2. /\ t \in Task /\ state[t] = "queued"
      /\ queue' \in [Priority -> Seq(Task)]
      /\ QueuesHold' /\ OwnQueue'
  BY <1>1, Dequeue DEF OneRunnable
<1> HIDE DEF t
<1>3. WorkersHold'
  BY <1>1, <1>2, WorkersKept DEF OneRunnable
<1>4. NotYetSpawned'
  BY <1>1, <1>2, SpawnedKept DEF callerVars
<1>5. /\ state' \in [Task -> TaskState]
      /\ \A u \in Task : state'[u] = IF u = t THEN "cancelled" ELSE state[u]
  BY <1>1, <1>2 DEF TypeOK, TaskState
<1>6. TypeOK'
  BY <1>1, <1>2, <1>5 DEF TypeOK, TaskState, callerVars
<1>7. PollsToGo' /\ PendingWillWake' /\ NeverStranded'
  BY <1>1, <1>2, <1>5 DEF PollsToGo, PendingWillWake, NeverStranded, callerVars
<1> QED
  BY <1>2, <1>3, <1>4, <1>6, <1>7 DEF OneRunnable

LEMMA TakeInv ==
  ASSUME ExecutorInv, NEW w \in Worker, NEW p \in Priority, Take(w, p),
         look' \in [HighWorker -> Priority]
  PROVE  ExecutorInv'
  BY PollInv, CancelInv

\* The last poll of a task ends it.
LEMMA EndInv ==
  ASSUME ExecutorInv, NEW w \in Worker, NEW t \in Task,
         Finish(w, t) \/ Panic(w, t)
  PROVE  ExecutorInv'
<1> USE DEF ExecutorInv
<1>1. PICK s \in {"done", "failed"} : state' = [state EXCEPT ![t] = s]
  BY DEF Finish, Panic
<1>2. /\ doing[w] = t /\ doing' = [doing EXCEPT ![w] = None]
      /\ polls' = [polls EXCEPT ![t] = @ + 1]
      /\ UNCHANGED <<armed, woken, queue, started, look, callerVars>>
  BY DEF Finish, Panic, EndPoll
<1>3. /\ state[t] = "polled"
      /\ doing' \in [Worker -> Task \cup {None}] /\ WorkersHold'
  BY <1>1, <1>2, Release DEF OneRunnable
<1>4. QueuesHold' /\ OwnQueue'
  BY <1>1, <1>2, <1>3, QueuesKept DEF OneRunnable
<1>5. NotYetSpawned'
  BY <1>1, <1>2, <1>3, SpawnedKept DEF callerVars
<1>6. /\ state' \in [Task -> TaskState]
      /\ \A u \in Task : state'[u] = IF u = t THEN s ELSE state[u]
  BY <1>1 DEF TypeOK, TaskState
<1>7. /\ polls' \in [Task -> Nat]
      /\ \A u \in Task : polls'[u] = IF u = t THEN polls[u] + 1 ELSE polls[u]
  BY <1>2 DEF TypeOK
<1>8. \A u \in Task : polls'[u] <= Polls[u]
  <2>1. polls[t] < Polls[t] /\ Polls[t] \in Nat /\ polls[t] \in Nat
    BY <1>3, ExecutorAssumption DEF PollsToGo, TypeOK
  <2>2. \A u \in Task : polls[u] <= Polls[u]
    BY DEF TypeOK
  <2> QED
    BY <1>7, <2>1, <2>2
<1>9. TypeOK'
  BY <1>2, <1>3, <1>6, <1>7, <1>8 DEF TypeOK, TaskState, callerVars
<1>10. PollsToGo' /\ PendingWillWake' /\ NeverStranded'
  BY <1>2, <1>6, <1>7 DEF PollsToGo, PendingWillWake, NeverStranded, callerVars
<1> QED
  BY <1>3, <1>4, <1>5, <1>9, <1>10 DEF OneRunnable

\* A poll that returns Pending: a wake during the poll is not lost.
LEMMA PendInv ==
  ASSUME ExecutorInv, NEW w \in Worker, NEW t \in Task, Pend(w, t)
  PROVE  ExecutorInv'
<1> USE DEF ExecutorInv
<1>1. /\ doing[w] = t /\ doing' = [doing EXCEPT ![w] = None]
      /\ polls' = [polls EXCEPT ![t] = @ + 1] /\ polls[t] + 1 # Polls[t]
      /\ UNCHANGED <<armed, woken, look, callerVars>>
  BY DEF Pend, EndPoll, LastPoll
<1>2. PICK s \in {"queued", "idle", "cancelled"} :
        /\ state' = [state EXCEPT ![t] = s]
        /\ s = "queued" => Schedule(t)
        /\ s = "idle" => t \notin SelfWaking \cup dropped /\ ~woken[t]
        /\ s # "queued" => UNCHANGED <<queue, started>>
  BY DEF Pend
<1>3. /\ state[t] = "polled"
      /\ doing' \in [Worker -> Task \cup {None}] /\ WorkersHold'
  BY <1>1, <1>2, Release DEF OneRunnable
<1>4. /\ queue' \in [Priority -> Seq(Task)] /\ started' \subseteq Priority
      /\ QueuesHold' /\ OwnQueue'
  <2>1. CASE s = "queued"
    <3>1. started' \subseteq Priority
      BY <1>2, <2>1, StartsItsQueue DEF TypeOK
    <3> QED
      BY <1>2, <1>3, <2>1, <3>1, Enqueue DEF OneRunnable
  <2>2. CASE s # "queued"
    <3>1. QueuesHold' /\ OwnQueue'
      BY <1>2, <1>3, <2>2, QueuesKept DEF OneRunnable
    <3> QED
      BY <1>2, <2>2, <3>1 DEF TypeOK
  <2> QED
    BY <2>1, <2>2
<1>5. NotYetSpawned'
  BY <1>1, <1>2, <1>3, SpawnedKept DEF callerVars
<1>6. /\ state' \in [Task -> TaskState]
      /\ \A u \in Task : state'[u] = IF u = t THEN s ELSE state[u]
  BY <1>2 DEF TypeOK, TaskState
<1>7. /\ polls' \in [Task -> Nat]
      /\ \A u \in Task : polls'[u] = IF u = t THEN polls[u] + 1 ELSE polls[u]
  BY <1>1 DEF TypeOK
<1>8. polls[t] + 1 < Polls[t]
  <2>1. polls[t] < Polls[t] /\ Polls[t] \in Nat /\ polls[t] \in Nat
    BY <1>3, ExecutorAssumption DEF PollsToGo, TypeOK
  <2> QED
    BY <1>1, <2>1
<1>9. TypeOK'
  <2>1. \A u \in Task : polls[u] <= Polls[u]
    BY DEF TypeOK
  <2>2. Polls[t] \in Nat /\ polls[t] \in Nat
    BY ExecutorAssumption DEF TypeOK
  <2>3. \A u \in Task : polls'[u] <= Polls[u]
    BY <1>7, <1>8, <2>1, <2>2
  <2> QED
    BY <1>1, <1>3, <1>4, <1>6, <1>7, <2>3 DEF TypeOK, TaskState, callerVars
<1>10. PollsToGo' /\ PendingWillWake'
  BY <1>1, <1>2, <1>6, <1>7, <1>8 DEF PollsToGo, PendingWillWake, callerVars
<1>11. NeverStranded'
  <2>1. s = "idle" => armed[t] /\ t \notin dropped
    BY <1>2, <1>3, <1>8 DEF PendingWillWake
  <2> QED
    BY <1>1, <1>6, <2>1 DEF NeverStranded, callerVars
<1> QED
  BY <1>3, <1>4, <1>5, <1>9, <1>10, <1>11 DEF OneRunnable

-----------------------------------------------------------------------------
(* The theorems.                                                           *)

LEMMA NextInv == ExecutorInv /\ [Next]_vars => ExecutorInv'
<1> SUFFICES ASSUME ExecutorInv, [Next]_vars PROVE ExecutorInv'
  OBVIOUS
<1>1. CASE Spawn
  BY <1>1, SpawnInv
<1>2. CASE Join
  BY <1>2, JoinInv
<1>3. ASSUME NEW w \in HighWorker, HighTurn(w)
      PROVE  ExecutorInv'
  <2>1. "High" \in Priority /\ "Low" \in Priority /\ w \in Worker
    BY <1>3 DEF Priority, Worker
  <2>2. look \in [HighWorker -> Priority]
    BY DEF ExecutorInv, TypeOK
  <2>3. CASE Take(w, "High") /\ UNCHANGED look
    BY <2>1, <2>2, <2>3, TakeInv
  <2>4. CASE Take(w, "Low") /\ look' = [look EXCEPT ![w] = "High"]
    <3>1. look' \in [HighWorker -> Priority]
      BY <2>1, <2>2, <2>4
    <3> QED
      BY <2>1, <2>4, <3>1, TakeInv
  <2>5. CASE /\ look' = [look EXCEPT ![w] = IF @ = "High" THEN "Low" ELSE "High"]
             /\ UNCHANGED <<taskVars, queue, started, doing, callerVars>>
    <3>1. look' \in [HighWorker -> Priority]
      BY <2>1, <2>2, <2>5
    <3>2. TypeOK'
      BY <2>5, <3>1 DEF ExecutorInv, TypeOK, taskVars, callerVars
    <3>3. OneRunnable' /\ OwnQueue' /\ NotYetSpawned'
      BY <2>5 DEF ExecutorInv, OneRunnable, QueuesHold, WorkersHold, Queued, OwnQueue,
                  NotYetSpawned, taskVars, callerVars
    <3>4. PollsToGo' /\ PendingWillWake' /\ NeverStranded'
      BY <2>5 DEF ExecutorInv, PollsToGo, PendingWillWake, NeverStranded, taskVars, callerVars
    <3> QED
      BY <3>2, <3>3, <3>4 DEF ExecutorInv
  <2> QED
    BY <1>3, <2>3, <2>4, <2>5 DEF HighTurn
<1>4. ASSUME NEW w \in LowWorker, LowTurn(w)
      PROVE  ExecutorInv'
  <2>1. "Low" \in Priority /\ w \in Worker
    BY DEF Priority, Worker
  <2>2. look' \in [HighWorker -> Priority]
    BY <1>4 DEF ExecutorInv, TypeOK, LowTurn
  <2> QED
    BY <1>4, <2>1, <2>2, TakeInv DEF LowTurn
<1>5. ASSUME NEW w \in Worker, NEW t \in Task, Finish(w, t) \/ Panic(w, t) \/ Pend(w, t)
      PROVE  ExecutorInv'
  BY <1>5, EndInv, PendInv
<1>6. ASSUME NEW t \in Task, Wake(t) \/ DropHandle(t)
      PROVE  ExecutorInv'
  BY <1>6, WakeInv, DropInv
<1>7. CASE UNCHANGED vars
  <2>1. UNCHANGED <<taskVars, queue, started, doing, look, callerVars>>
    BY <1>7 DEF vars
  <2>2. TypeOK'
    BY <2>1 DEF ExecutorInv, TypeOK, taskVars, callerVars
  <2>3. OneRunnable' /\ OwnQueue' /\ NotYetSpawned'
    BY <2>1 DEF ExecutorInv, OneRunnable, QueuesHold, WorkersHold, Queued, OwnQueue,
                NotYetSpawned, taskVars, callerVars
  <2>4. PollsToGo' /\ PendingWillWake' /\ NeverStranded'
    BY <2>1 DEF ExecutorInv, PollsToGo, PendingWillWake, NeverStranded, taskVars, callerVars
  <2> QED
    BY <2>2, <2>3, <2>4 DEF ExecutorInv
<1> QED
  BY <1>1, <1>2, <1>3, <1>4, <1>5, <1>6, <1>7 DEF Next, Turn

\* Types, and everything the safety properties rest on.
THEOREM ExecutorTypes == Spec => []TypeOK
<1>1. Spec => []ExecutorInv
  BY InitInv, NextInv, PTL DEF Spec
<1>2. ExecutorInv => TypeOK
  BY DEF ExecutorInv
<1> QED
  BY <1>1, <1>2, PTL

\* For any tasks, workers and program: the Runnable of a task is in one queue
\* or with one worker, or nowhere, so no future is polled by two threads.
THEOREM RunnableIsUnique == Spec => []OneRunnable
<1>1. Spec => []ExecutorInv
  BY InitInv, NextInv, PTL DEF Spec
<1>2. ExecutorInv => OneRunnable
  BY DEF ExecutorInv
<1> QED
  BY <1>1, <1>2, PTL

\* A task that waits has a wake to come: a wake that races the end of a poll is
\* not lost.
THEOREM NoWakeIsLost == Spec => []NeverStranded
<1>1. Spec => []ExecutorInv
  BY InitInv, NextInv, PTL DEF Spec
<1>2. ExecutorInv => NeverStranded
  BY DEF ExecutorInv
<1> QED
  BY <1>1, <1>2, PTL

\* A task is only ever queued with its own priority.
THEOREM TasksKeepTheirQueue == Spec => []OwnQueue
<1>1. Spec => []ExecutorInv
  BY InitInv, NextInv, PTL DEF Spec
<1>2. ExecutorInv => OwnQueue
  BY DEF ExecutorInv
<1> QED
  BY <1>1, <1>2, PTL
=============================================================================

---------------------------- MODULE LockFutures -----------------------------
(***************************************************************************)
(* The programs whose futures share data behind a mutex:                   *)
(*                                                                         *)
(*   14-sharing-data-between-futures: two CounterFutures that try_lock in   *)
(*     poll and wake themselves, then two async functions that lock().await;*)
(*   15-async-logger: AsyncWriteFutures that try_lock one of two log files; *)
(*   12-cancel-safety: a task that sleeps with the lock held, a future that *)
(*     main polls for a second and then leaves, and main, which then locks. *)
(*                                                                         *)
(* They differ in the sets below and not in what a lock is.  An async      *)
(* mutex is tokio's: fair, its waiters in a queue whose head is handed the *)
(* lock when it is released, and must be polled to use it.  The data is    *)
(* the sequence of the updates it reflects: what task a of 12 assigns is   *)
(* counted as one more of them, and a line that write_all of 15 hands over *)
(* only in part is not told from one it does not write.  The runtime may   *)
(* poll any number of tasks in parallel.                                   *)
(***************************************************************************)
EXTENDS Naturals, Sequences

CONSTANTS
  Task, Lock, None,
  LockOf,      \* [Task -> Lock]
  Rounds,      \* [Task -> Nat]: how often a task takes its lock
  After,       \* [Task -> SUBSET Task]: the tasks awaited before it is started
  Spinning,    \* tasks that try_lock, and wake themselves to try again
  Sleeping,    \* tasks that sleep with the lock held
  Reading,     \* tasks that only look at the data
  Fallible,    \* tasks whose write may fail, which they only print
  Abandonable, \* futures that their owner may stop polling and not drop
  Program      \* the programs: sets of tasks

ASSUME LockAssumption ==
  /\ None \notin Task
  /\ LockOf \in [Task -> Lock]
  /\ Rounds \in [Task -> Nat \ {0}]
  /\ After \in [Task -> SUBSET Task]
  /\ Program \subseteq SUBSET Task

VARIABLES
  place,     \* where a task is
  round,     \* how many rounds it has finished
  owner,     \* who has each lock, or has been handed it
  queue,     \* the waiters of each lock, first in first out
  data,      \* the updates the data of each lock reflects
  seen,      \* what a task has read of it
  abandoned  \* the futures nobody polls any more

vars == <<place, round, owner, queue, data, seen, abandoned>>

\* "idle" is a task that nothing wakes: only a faulty variant gets there.
Place == {"absent", "new", "woken", "polling", "idle", "queued", "granted", "holding",
          "read", "written", "asleep", "done"}

\* The task has the lock, or has been handed it.
Owning == {"granted", "holding", "read", "written", "asleep"}

Init ==
  /\ \E p \in Program : place = [t \in Task |-> IF t \in p THEN "new" ELSE "absent"]
  /\ round = [t \in Task |-> 0]
  /\ owner = [l \in Lock |-> None]
  /\ queue = [l \in Lock |-> << >>]
  /\ data = [l \in Lock |-> << >>]
  /\ seen = [t \in Task |-> << >>]
  /\ abandoned = {}

TypeOK ==
  /\ place \in [Task -> Place]
  /\ round \in [Task -> Nat] /\ \A t \in Task : round[t] <= Rounds[t]
  /\ owner \in [Lock -> Task \cup {None}]
  /\ queue \in [Lock -> Seq(Task)]
  /\ data \in [Lock -> Seq(Task)]
  /\ seen \in [Task -> Seq(Task)]
  /\ abandoned \subseteq Abandonable

Goes(t, p, q) == place[t] = p /\ place' = [place EXCEPT ![t] = q]

Over(t) == place[t] = "done" \/ t \in abandoned

-----------------------------------------------------------------------------
(* Taking the lock.                                                        *)

\* tokio::spawn, or the next statement of main.
Begin(t) ==
  /\ \A s \in After[t] : Over(s)
  /\ Goes(t, "new", "woken")
  /\ UNCHANGED <<round, owner, queue, data, seen, abandoned>>

Poll(t) ==
  /\ t \in Spinning
  /\ Goes(t, "woken", "polling")
  /\ UNCHANGED <<round, owner, queue, data, seen, abandoned>>

\* Faulty: the lock is taken whoever has it.
TryLocksAnyway(t) ==
  /\ Goes(t, "polling", "holding")
  /\ owner' = [owner EXCEPT ![LockOf[t]] = t]
  /\ UNCHANGED <<round, queue, data, seen, abandoned>>

TryLocks(t) ==
  /\ owner[LockOf[t]] = None
  /\ Goes(t, "polling", "holding")
  /\ owner' = [owner EXCEPT ![LockOf[t]] = t]
  /\ UNCHANGED <<round, queue, data, seen, abandoned>>

\* Faulty: Pending, and no wake.
TryFailsQuietly(t) ==
  /\ owner[LockOf[t]] # None
  /\ Goes(t, "polling", "idle")
  /\ UNCHANGED <<round, owner, queue, data, seen, abandoned>>

\* wake_by_ref, then Pending: the task is polled again.
TryFails(t) ==
  /\ owner[LockOf[t]] # None
  /\ Goes(t, "polling", "woken")
  /\ UNCHANGED <<round, owner, queue, data, seen, abandoned>>

\* lock().await of a free lock.
LockNow(t) ==
  /\ t \notin Spinning /\ owner[LockOf[t]] = None
  /\ Goes(t, "woken", "holding")
  /\ owner' = [owner EXCEPT ![LockOf[t]] = t]
  /\ UNCHANGED <<round, queue, data, seen, abandoned>>

\* lock().await of a lock that somebody has.
LockLater(t) ==
  /\ t \notin Spinning /\ owner[LockOf[t]] # None
  /\ Goes(t, "woken", "queued")
  /\ queue' = [queue EXCEPT ![LockOf[t]] = Append(@, t)]
  /\ UNCHANGED <<round, owner, data, seen, abandoned>>

\* A waiter that has been handed the lock is polled.
Resume(t) ==
  /\ t \notin abandoned
  /\ Goes(t, "granted", "holding")
  /\ UNCHANGED <<round, owner, queue, data, seen, abandoned>>

-----------------------------------------------------------------------------
(* Using it.                                                               *)

Read(t) ==
  /\ Goes(t, "holding", "read")
  /\ seen' = [seen EXCEPT ![t] = data[LockOf[t]]]
  /\ UNCHANGED <<round, owner, queue, data, abandoned>>

Write(t) ==
  /\ t \notin Reading
  /\ Goes(t, "read", IF t \in Sleeping THEN "asleep" ELSE "written")
  /\ data' = [data EXCEPT ![LockOf[t]] = Append(seen[t], t)]
  /\ seen' = [seen EXCEPT ![t] = << >>]
  /\ UNCHANGED <<round, owner, queue, abandoned>>

\* The data stays as it is: nothing to write, or an error nobody is told of.
NoWrite(t) ==
  /\ t \in Reading \cup Fallible
  /\ Goes(t, "read", IF t \in Sleeping THEN "asleep" ELSE "written")
  /\ seen' = [seen EXCEPT ![t] = << >>]
  /\ UNCHANGED <<round, owner, queue, data, abandoned>>

NextRound(t) == IF round[t] + 1 < Rounds[t] THEN "woken" ELSE "done"

\* Faulty: forgets the waiters.
ReleaseAlways(t) ==
  /\ place[t] \in {"written", "asleep"} /\ t \notin abandoned
  /\ place' = [place EXCEPT ![t] = NextRound(t)]
  /\ round' = [round EXCEPT ![t] = @ + 1]
  /\ owner' = [owner EXCEPT ![LockOf[t]] = None]
  /\ UNCHANGED <<queue, data, seen, abandoned>>

\* The guard is dropped.  A sleeper does so when it is polled after its sleep.
Release(t) ==
  /\ place[t] \in {"written", "asleep"} /\ t \notin abandoned
  /\ queue[LockOf[t]] = << >>
  /\ place' = [place EXCEPT ![t] = NextRound(t)]
  /\ round' = [round EXCEPT ![t] = @ + 1]
  /\ owner' = [owner EXCEPT ![LockOf[t]] = None]
  /\ UNCHANGED <<queue, data, seen, abandoned>>

\* Faulty: the round is counted twice.
HandOverTwice(t) ==
  /\ place[t] \in {"written", "asleep"} /\ t \notin abandoned
  /\ queue[LockOf[t]] # << >>
  /\ LET h == Head(queue[LockOf[t]])
     IN  /\ place' = [place EXCEPT ![t] = NextRound(t), ![h] = "granted"]
         /\ owner' = [owner EXCEPT ![LockOf[t]] = h]
  /\ round' = [round EXCEPT ![t] = @ + 2]
  /\ queue' = [queue EXCEPT ![LockOf[t]] = Tail(@)]
  /\ UNCHANGED <<data, seen, abandoned>>

\* Dropped with waiters: the first of them is handed the lock and woken.
HandOver(t) ==
  /\ place[t] \in {"written", "asleep"} /\ t \notin abandoned
  /\ queue[LockOf[t]] # << >>
  /\ LET h == Head(queue[LockOf[t]])
     IN  /\ place' = [place EXCEPT ![t] = NextRound(t), ![h] = "granted"]
         /\ owner' = [owner EXCEPT ![LockOf[t]] = h]
  /\ round' = [round EXCEPT ![t] = @ + 1]
  /\ queue' = [queue EXCEPT ![LockOf[t]] = Tail(@)]
  /\ UNCHANGED <<data, seen, abandoned>>

\* The select of main takes its timeout: the future is not polled again, and is
\* not dropped either, so it keeps the lock or its place in the queue.
Abandon(t) ==
  /\ t \in Abandonable \ abandoned
  /\ place[t] \in {"queued", "granted", "asleep"}
  /\ abandoned' = abandoned \cup {t}
  /\ UNCHANGED <<place, round, owner, queue, data, seen>>

Step(t) ==
  \/ Begin(t) \/ Poll(t) \/ TryLocks(t) \/ TryFails(t)
  \/ LockNow(t) \/ LockLater(t) \/ Resume(t)
  \/ Read(t) \/ Write(t) \/ NoWrite(t) \/ Release(t) \/ HandOver(t)

Next == \E t \in Task : Step(t) \/ Abandon(t)

Spec == Init /\ [][Next]_vars

\* The runtime polls every task that was woken.
FairSpec == Spec /\ \A t \in Task : WF_vars(Step(t))

-----------------------------------------------------------------------------
(* Properties.                                                             *)

\* A lock has one owner, the only task between taking and dropping the guard; its
\* waiters are waiting, each once, and only while somebody has the lock.
OneOwner ==
  \A l \in Lock :
    /\ \A t \in Task : owner[l] = t <=> LockOf[t] = l /\ place[t] \in Owning
    /\ \A t \in Task :
         LockOf[t] = l /\ place[t] = "queued" <=> \E i \in 1 .. Len(queue[l]) : queue[l][i] = t
    /\ \A i, j \in 1 .. Len(queue[l]) : queue[l][i] = queue[l][j] => i = j
    /\ queue[l] # << >> => owner[l] # None

\* What the owner has read is what the data still is.
OwnerIsCurrent ==
  \A t \in Task : place[t] = "read" => seen[t] = data[LockOf[t]]

\* The rounds whose update has been made, the one whose guard is still held
\* included.
Turns == [t \in Task |-> IF place[t] \in {"written", "asleep"} THEN round[t] + 1 ELSE round[t]]

Atomic == INSTANCE AtomicUpdates
            WITH MaySkip <- Reading \cup Fallible, value <- data, turns <- Turns

\* Increments, decrements and log entries take effect one after the other, none
\* overwrites another, and each round makes exactly one.
UpdatesAreAtomic == Atomic!Spec

\* A future nobody polls has the lock of t, or is ahead of t in its queue.
Blocked(t) ==
  \E b \in abandoned :
    \/ owner[LockOf[t]] = b
    \/ \E i, j \in 1 .. Len(queue[LockOf[t]]) :
         i < j /\ queue[LockOf[t]][i] = b /\ queue[LockOf[t]][j] = t

\* Every task that is started finishes, a spinning one too, unless an abandoned
\* future is in its way: main of 12-cancel-safety waits for ever on one.
TasksFinish ==
  \A t \in Task : place[t] # "absent" ~> Over(t) \/ Blocked(t)
=============================================================================

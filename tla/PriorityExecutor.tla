-------------------------- MODULE PriorityExecutor --------------------------
(***************************************************************************)
(* The executor of 16-async-queue (src/main.rs): tasks of two priorities,  *)
(* a queue for each, and the worker threads that take tasks from them and  *)
(* poll them.                                                              *)
(*                                                                         *)
(* A poll takes time: a worker holds the task from the step that takes it  *)
(* to the step that ends the poll, and a waker may fire in between.  What  *)
(* the async-task crate does with a wake is modelled as the code relies on *)
(* it: a task has one Runnable, which is in a queue, or being run, or does *)
(* not exist.  The thread that calls spawn_task spawns the tasks of its    *)
(* program in order and then joins them in the same order.  When a join    *)
(* panics its thread unwinds and drops the handles it has left, which      *)
(* cancels their tasks; the workers go on (a panic of main ends them too). *)
(*                                                                         *)
(* Left out: what a future computes; the network stack of demo_two, which  *)
(* is a task woken by another thread; QUEUE, which nothing sends to.       *)
(***************************************************************************)
EXTENDS Integers, Sequences

CONSTANTS
  Task,
  Program,    \* the tasks in the order they are spawned
  Order,      \* the FuturePriority each is spawned with
  Polls,      \* how many polls each needs to be ready
  SelfWaking, \* the tasks that wake themselves before they return Pending
  Panicking,  \* the tasks whose last poll panics
  Endless,    \* the tasks whose last poll does not return
  HighWorker, LowWorker, \* the threads of each queue
  None

Priority == {"High", "Low"}

ASSUME ExecutorAssumption ==
  /\ Program \in Seq(Task)
  /\ \A i, j \in 1 .. Len(Program) : Program[i] = Program[j] => i = j
  /\ Order \in [Task -> Priority]
  /\ Polls \in [Task -> Nat \ {0}]
  /\ SelfWaking \subseteq Task /\ Panicking \subseteq Task /\ Endless \subseteq Task
  /\ HighWorker \cap LowWorker = {}
  /\ None \notin Task

Worker == HighWorker \cup LowWorker

VARIABLES
  state,   \* of each task, as async-task sees it
  polls,   \* how many polls of a task have ended
  armed,   \* another thread holds a waker of the task that it has not used
  woken,   \* the task was woken while it was polled
  queue,   \* HIGH_CHANNEL and LOW_CHANNEL
  started, \* the queues whose LazyLock has run: their threads exist
  doing,   \* the task a worker is polling, or None
  look,    \* the channel a high priority worker tries next
  spawned, \* how many tasks of its program the caller has spawned
  joined,  \* and how many of them it has the results of
  caller,  \* the caller runs, or a join has panicked
  dropped  \* the tasks whose handle the panicked caller has dropped

taskVars   == <<state, polls, armed, woken>>
callerVars == <<spawned, joined, caller, dropped>>
vars == <<taskVars, queue, started, doing, look, callerVars>>

Init ==
  /\ state   = [t \in Task |-> "new"]
  /\ polls   = [t \in Task |-> 0]
  /\ armed   = [t \in Task |-> FALSE]
  /\ woken   = [t \in Task |-> FALSE]
  /\ queue   = [p \in Priority |-> << >>]
  /\ started = {}
  /\ doing   = [w \in Worker |-> None]
  /\ look    = [w \in HighWorker |-> "High"]
  /\ spawned = 0
  /\ joined  = 0
  /\ caller  = "runs"
  /\ dropped = {}

TypeOK ==
  /\ state   \in [Task -> {"new", "queued", "polled", "idle",
                       "done", "failed", "cancelled"}]
  /\ polls   \in [Task -> Nat]
  /\ \A t \in Task : polls[t] <= Polls[t]
  /\ armed   \in [Task -> BOOLEAN]
  /\ woken   \in [Task -> BOOLEAN]
  /\ queue   \in [Priority -> Seq(Task)]
  /\ started \subseteq Priority
  /\ doing   \in [Worker -> Task \cup {None}]
  /\ look    \in [HighWorker -> Priority]
  /\ spawned \in 0 .. Len(Program)
  /\ joined  \in 0 .. spawned
  /\ caller  \in {"runs", "panicked"}
  /\ dropped \subseteq Task

-----------------------------------------------------------------------------
(* Scheduling.                                                             *)

\* Faulty: every wake schedules with the default priority.
ScheduleLow(t) ==
  /\ queue'   = [queue EXCEPT !["Low"] = Append(@, t)]
  /\ started' = started \cup {"Low"}

\* The schedule function of spawn_task: the Runnable goes to the queue of its
\* priority, and the first use of a queue starts its threads.
Schedule(t) ==
  /\ queue'   = [queue EXCEPT ![Order[t]] = Append(@, t)]
  /\ started' = started \cup {Order[t]}

\* spawn_task
Spawn ==
  /\ caller = "runs" /\ spawned < Len(Program)
  /\ spawned' = spawned + 1
  /\ state' = [state EXCEPT ![Program[spawned + 1]] = "queued"]
  /\ Schedule(Program[spawned + 1])
  /\ UNCHANGED <<polls, armed, woken, doing, look, joined, caller, dropped>>

\* join!: block_on of the next task, which panics when the task has.
Join ==
  /\ caller = "runs" /\ spawned = Len(Program) /\ joined < spawned
  /\ \/ /\ state[Program[joined + 1]] = "done"
        /\ joined' = joined + 1
        /\ UNCHANGED caller
     \/ /\ state[Program[joined + 1]] = "failed"
        /\ caller' = "panicked"
        /\ UNCHANGED joined
  /\ UNCHANGED <<taskVars, queue, started, doing, look, spawned, dropped>>

\* The tasks after the one whose join has panicked: their handles are still the
\* caller's.
Left == {Program[i] : i \in joined + 2 .. Len(Program)} \ dropped

\* Faulty: the handle of a task that waits is dropped and its future forgotten.
DropForgets(t) ==
  /\ caller = "panicked" /\ t \in Left
  /\ dropped' = dropped \cup {t}
  /\ UNCHANGED <<taskVars, queue, started, doing, look, spawned, joined, caller>>

\* The unwinding drops the handle of t, which closes the task: a future that
\* waits is scheduled once more, for a worker to drop it.
DropHandle(t) ==
  /\ caller = "panicked" /\ t \in Left
  /\ dropped' = dropped \cup {t}
  /\ IF state[t] = "idle"
     THEN state' = [state EXCEPT ![t] = "queued"] /\ Schedule(t)
     ELSE UNCHANGED <<state, queue, started>>
  /\ UNCHANGED <<polls, armed, woken, doing, look, spawned, joined, caller>>

\* Faulty: a wake schedules the task whatever it is doing.
WakeAlways(t) ==
  /\ armed[t]
  /\ armed' = [armed EXCEPT ![t] = FALSE]
  /\ state' = [state EXCEPT ![t] = "queued"]
  /\ Schedule(t)
  /\ UNCHANGED <<polls, woken, doing, look, callerVars>>

\* The waker of a task is used: the task is scheduled, or will be when the
\* poll in progress ends, unless it is closed.
Wake(t) ==
  /\ armed[t]
  /\ armed' = [armed EXCEPT ![t] = FALSE]
  /\ \/ t \in dropped /\ UNCHANGED <<state, woken, queue, started>>
     \/ /\ state[t] = "idle" /\ t \notin dropped
        /\ state' = [state EXCEPT ![t] = "queued"]
        /\ Schedule(t)
        /\ UNCHANGED woken
     \/ /\ state[t] = "polled" /\ t \notin dropped
        /\ woken' = [woken EXCEPT ![t] = TRUE]
        /\ UNCHANGED <<state, queue, started>>
  /\ UNCHANGED <<polls, doing, look, callerVars>>

-----------------------------------------------------------------------------
(* The worker threads.                                                     *)

\* Worker w takes the oldest task of queue p and begins to poll it; a task that
\* is not ready leaves its waker with another thread unless it wakes itself.  The
\* future of a closed task is dropped instead.
Take(w, p) ==
  /\ doing[w] = None
  /\ queue[p] # << >>
  /\ LET t == Head(queue[p])
     IN  \/ /\ t \in dropped
            /\ state' = [state EXCEPT ![t] = "cancelled"]
            /\ UNCHANGED <<doing, woken, armed>>
         \/ /\ t \notin dropped
            /\ doing' = [doing EXCEPT ![w] = t]
            /\ state' = [state EXCEPT ![t] = "polled"]
            /\ woken' = [woken EXCEPT ![t] = FALSE]
            /\ armed' = [armed EXCEPT ![t] =
                           polls[t] + 1 < Polls[t] /\ t \notin SelfWaking]
  /\ queue' = [queue EXCEPT ![p] = Tail(@)]
  /\ UNCHANGED <<polls, started, callerVars>>

\* try_recv on the high channel, then, if it was empty, on the low one; after
\* each task and each sleep the loop starts over.
HighTurn(w) ==
  /\ "High" \in started /\ doing[w] = None
  /\ \/ look[w] = "High" /\ Take(w, "High") /\ UNCHANGED look
     \/ look[w] = "Low" /\ Take(w, "Low") /\ look' = [look EXCEPT ![w] = "High"]
     \/ /\ queue[look[w]] = << >>
        /\ look' = [look EXCEPT ![w] = IF @ = "High" THEN "Low" ELSE "High"]
        /\ UNCHANGED <<taskVars, queue, started, doing, callerVars>>

\* recv on the low channel, which blocks: it fails only when every sender is
\* gone, and LOW_CHANNEL holds one for good.
LowTurn(w) ==
  /\ "Low" \in started
  /\ Take(w, "Low")
  /\ UNCHANGED look

LastPoll(t) == polls[t] + 1 = Polls[t]

EndPoll(w, t) ==
  /\ doing[w] = t /\ t # None
  /\ doing' = [doing EXCEPT ![w] = None]
  /\ polls' = [polls EXCEPT ![t] = @ + 1]

Finish(w, t) ==
  /\ EndPoll(w, t) /\ LastPoll(t) /\ t \notin Panicking \cup Endless
  /\ state' = [state EXCEPT ![t] = "done"]
  /\ UNCHANGED <<armed, woken, queue, started, look, callerVars>>

\* Faulty: the panic ends the thread.
PanicKills(w, t) ==
  /\ doing[w] = t /\ t # None /\ LastPoll(t) /\ t \in Panicking
  /\ state[t] # "failed"
  /\ polls' = [polls EXCEPT ![t] = @ + 1]
  /\ state' = [state EXCEPT ![t] = "failed"]
  /\ UNCHANGED <<armed, woken, queue, started, doing, look, callerVars>>

\* The poll panics; catch_unwind keeps the thread.
Panic(w, t) ==
  /\ EndPoll(w, t) /\ LastPoll(t) /\ t \in Panicking
  /\ state' = [state EXCEPT ![t] = "failed"]
  /\ UNCHANGED <<armed, woken, queue, started, look, callerVars>>

\* Faulty: a wake that came during the poll is forgotten.
PendForgets(w, t) ==
  /\ EndPoll(w, t) /\ ~LastPoll(t)
  /\ IF t \in SelfWaking
     THEN state' = [state EXCEPT ![t] = "queued"] /\ Schedule(t)
     ELSE state' = [state EXCEPT ![t] = "idle"] /\ UNCHANGED <<queue, started>>
  /\ UNCHANGED <<armed, woken, look, callerVars>>

\* Faulty: a task that is ready is polled once more.
PendLate(w, t) ==
  /\ EndPoll(w, t) /\ polls[t] <= Polls[t]
  /\ state' = [state EXCEPT ![t] = "queued"] /\ Schedule(t)
  /\ UNCHANGED <<armed, woken, look, callerVars>>

\* The poll returns Pending: the task is scheduled at once if it was woken
\* meanwhile, by itself or by another thread, and its future is dropped if it was
\* closed.
Pend(w, t) ==
  /\ EndPoll(w, t) /\ ~LastPoll(t)
  /\ \/ /\ t \in dropped
        /\ state' = [state EXCEPT ![t] = "cancelled"]
        /\ UNCHANGED <<queue, started>>
     \/ /\ t \notin dropped /\ (t \in SelfWaking \/ woken[t])
        /\ state' = [state EXCEPT ![t] = "queued"]
        /\ Schedule(t)
     \/ /\ t \notin dropped /\ t \notin SelfWaking /\ ~woken[t]
        /\ state' = [state EXCEPT ![t] = "idle"]
        /\ UNCHANGED <<queue, started>>
  /\ UNCHANGED <<armed, woken, look, callerVars>>

Turn(w) ==
  \/ w \in HighWorker /\ HighTurn(w)
  \/ w \in LowWorker /\ LowTurn(w)
  \/ \E t \in Task : Finish(w, t) \/ Panic(w, t) \/ Pend(w, t)

Next ==
  \/ Spawn \/ Join
  \/ \E w \in Worker : Turn(w)
  \/ \E t \in Task : Wake(t) \/ DropHandle(t)

\* Threads run, an unwinding comes to its end, and what a task waits for happens.
Fairness ==
  /\ WF_vars(Spawn) /\ WF_vars(Join)
  /\ \A w \in Worker : WF_vars(Turn(w))
  /\ \A t \in Task : WF_vars(Wake(t)) /\ WF_vars(DropHandle(t))

Spec == Init /\ [][Next]_vars /\ Fairness

-----------------------------------------------------------------------------
(* Safety.                                                                 *)

Queued(t) == \E p \in Priority : \E i \in 1 .. Len(queue[p]) : queue[p][i] = t

\* The queues hold each task that is to be polled, once, and no other.
QueuesHold ==
  /\ \A p, q \in Priority : \A i \in 1 .. Len(queue[p]), j \in 1 .. Len(queue[q]) :
       queue[p][i] = queue[q][j] => p = q /\ i = j
  /\ \A t \in Task : state[t] = "queued" <=> Queued(t)

\* The workers hold each task that is being polled, one of them, and no other.
WorkersHold ==
  /\ \A w, x \in Worker : doing[w] = doing[x] /\ doing[w] # None => w = x
  /\ \A t \in Task : state[t] = "polled" <=> \E w \in Worker : doing[w] = t

\* A task is in one queue or with one worker or nowhere: no wake, during a poll
\* or after it, lets two threads poll the same future.
OneRunnable == QueuesHold /\ WorkersHold

\* A task that no thread has has a wake to come, and its handle: the wake that
\* races the end of a poll is not lost, and neither is the future of a task that
\* is cancelled while it waits.
NeverStranded ==
  \A t \in Task : state[t] = "idle" => armed[t] /\ t \notin dropped

\* A task is only ever queued with its own priority, whoever wakes it.
OwnQueue ==
  \A p \in Priority : \A i \in 1 .. Len(queue[p]) : Order[queue[p][i]] = p

-----------------------------------------------------------------------------
(* What the safety properties rest on: the other conjuncts of the          *)
(* invariant that ExecutorProofs proves.                                   *)

\* What the caller has not spawned is not known to anyone.
NotYetSpawned ==
  \A i \in spawned + 1 .. Len(Program) : state[Program[i]] = "new"

\* A task that has not ended has polls to go.
PollsToGo ==
  \A t \in Task : state[t] \in {"new", "queued", "polled", "idle"} => polls[t] < Polls[t]

\* A poll that will return Pending wakes its task, or has left a waker that is
\* still to be used or was used already, or ends a task that was closed.
PendingWillWake ==
  \A t \in Task :
    state[t] = "polled" /\ polls[t] + 1 < Polls[t] =>
      t \in SelfWaking \/ armed[t] \/ woken[t] \/ t \in dropped

-----------------------------------------------------------------------------
(* Liveness.                                                               *)

\* A task spawned is polled to its end, whatever its priority: self-waking
\* tasks, panics and a poll that never returns (ServerFuture's read loop, at the
\* end of its input) cost the others nothing while threads are left.  The future
\* of a task whose handle was dropped is polled to its end or dropped.
TasksFinish ==
  \A t \in Task \ Endless :
    state[t] # "new" ~> \/ state[t] \in {"done", "failed"}
                        \/ state[t] = "cancelled" /\ t \in dropped
=============================================================================

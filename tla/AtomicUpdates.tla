--------------------------- MODULE AtomicUpdates ----------------------------
(* What data behind a lock promises: every update happens at once, on the   *)
(* value the one before left.  LockFutures implements it.                   *)
EXTENDS Naturals, Sequences

CONSTANTS Task, Lock,
          LockOf,  \* [Task -> Lock]
          Rounds,  \* [Task -> Nat]: how often a task takes its lock
          MaySkip  \* the tasks that may leave the data as it is

VARIABLES value,  \* the updates the data of each lock reflects, in order
          turns   \* how many rounds of a task have taken effect

vars == <<value, turns>>

Init ==
  /\ value = [l \in Lock |-> << >>]
  /\ turns = [t \in Task |-> 0]

Turn(t) ==
  /\ turns[t] < Rounds[t]
  /\ turns' = [turns EXCEPT ![t] = @ + 1]

Update(t) == Turn(t) /\ value' = [value EXCEPT ![LockOf[t]] = Append(@, t)]

Skip(t) == t \in MaySkip /\ Turn(t) /\ UNCHANGED value

Next == \E t \in Task : Update(t) \/ Skip(t)

Spec == Init /\ [][Next]_vars
=============================================================================

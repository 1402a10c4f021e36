-------------------------- MODULE ReplicatedStore ---------------------------
(***************************************************************************)
(* What a cluster of 19-raft-replication promises, without elections, logs *)
(* or messages: one sequence of decided PUTs, which every node applies to  *)
(* its store in order, and callers that are told Ok when a command like    *)
(* theirs is applied.  RaftWorker implements it.                           *)
(***************************************************************************)
EXTENDS Naturals, Sequences

CONSTANTS Node, Call, Key, Value,
          KeyOf, ValueOf,  \* what a call writes
          CampaignCall,    \* the calls that write nothing
          None

VARIABLES
  decided,  \* the calls decided so far; None is an entry without a command
  applied,  \* how many of them each node has applied
  store,    \* the store of each node
  answer    \* what each call has returned

vars == <<decided, applied, store, answer>>

Init ==
  /\ decided = << >>
  /\ applied = [n \in Node |-> 0]
  /\ store = [n \in Node |-> [k \in Key |-> None]]
  /\ answer = [c \in Call |-> "none"]

IsDecided(c) == \E i \in 1 .. Len(decided) : decided[i] = c

\* A call is made.  Only one that writes nothing is answered Ok at once.
Ask(c) ==
  /\ answer[c] = "none"
  /\ \/ answer' = [answer EXCEPT ![c] = "err"]
     \/ c \in CampaignCall /\ answer' = [answer EXCEPT ![c] = "ok"]
     \/ c \notin CampaignCall /\ answer' = [answer EXCEPT ![c] = "waiting"]
  /\ UNCHANGED <<decided, applied, store>>

\* More is decided: calls that were made, none of them a second time.
Decide ==
  /\ Len(decided') > Len(decided)
  /\ \A i \in 1 .. Len(decided) : decided'[i] = decided[i]
  /\ \A i \in Len(decided) + 1 .. Len(decided') :
       \/ decided'[i] = None
       \/ /\ decided'[i] \in Call \ CampaignCall
          /\ answer[decided'[i]] # "none"
          /\ \A j \in 1 .. i - 1 : decided'[j] # decided'[i]
  /\ UNCHANGED <<applied, store, answer>>

\* Call c is told Ok for a command that writes what it asked for.
Acknowledge(c, d) ==
  /\ answer[c] = "waiting"
  /\ KeyOf[c] = KeyOf[d] /\ ValueOf[c] = ValueOf[d]
  /\ answer' = [answer EXCEPT ![c] = "ok"]

Apply(n) ==
  /\ applied[n] < Len(decided)
  /\ applied' = [applied EXCEPT ![n] = @ + 1]
  /\ LET d == decided[applied[n] + 1]
     IN  IF d = None THEN UNCHANGED <<store, answer>>
         ELSE /\ store' = [store EXCEPT ![n][KeyOf[d]] = ValueOf[d]]
              /\ UNCHANGED answer \/ \E c \in Call : Acknowledge(c, d)
  /\ UNCHANGED decided

\* A worker ends: those who wait for it are told.
Fail ==
  /\ \E S \in SUBSET {c \in Call : answer[c] = "waiting"} :
       answer' = [c \in Call |-> IF c \in S THEN "err" ELSE answer[c]]
  /\ UNCHANGED <<decided, applied, store>>

Next ==
  \/ \E c \in Call : Ask(c)
  \/ Decide
  \/ \E n \in Node : Apply(n)
  \/ Fail

Spec == Init /\ [][Next]_vars
=============================================================================

---------------------------- MODULE MCRaftWorker ----------------------------
(* Instances of RaftWorker for TLC.                                        *)
EXTENDS RaftWorker, TLC

CONSTANTS n1, n2, n3, p1, p2, g1, k1, v1,
          MaxInFlight  \* bound on the messages in flight

\* Every PUT has the same key and value, so that one's command may answer
\* another's caller.
OneKey     == [c \in Call |-> k1]
SameValue  == [c \in Call |-> v1]

NodeSymmetry == Permutations(Node)
Twins        == Permutations({p1, p2})

FewInFlight == Cardinality(network) <= MaxInFlight

\* n1 is the only candidate of term 1 and n2 of term 2: the elections of the
\* runs whose point is a deposed leader.
OneCandidatePerTerm ==
  \A n \in Node : role[n] # "Follower" =>
    \/ n = n1 /\ term[n] = 1
    \/ n = n2 /\ term[n] = 2

\* campaign is called on n2 only.
CampaignsOnN2 == \A c \in CampaignCall : home[c] \in {None, n2}
=============================================================================

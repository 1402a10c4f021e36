------------------------- MODULE MCPriorityExecutor -------------------------
(* Small instances of PriorityExecutor for TLC.                             *)
EXTENDS PriorityExecutor

CONSTANTS t1, t2, t3, t4

\* One that wakes itself, one that panics, one that waits for another thread
\* and one whose only poll does not return: the panic of the second cancels the
\* last two wherever they are.
FourTasks    == <<t2, t3, t1, t4>>
MixedOrder   == [t \in Task |-> IF t \in {t1, t3} THEN "High" ELSE "Low"]
MixedPolls   == [t \in Task |-> CASE t = t1 -> 3 [] t = t2 -> 3 [] t = t3 -> 2 [] OTHER -> 1]
=============================================================================

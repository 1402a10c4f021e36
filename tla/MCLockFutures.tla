--------------------------- MODULE MCLockFutures ----------------------------
(* The programs 12, 14 and 15 as instances of LockFutures, one per behaviour. *)
EXTENDS LockFutures, TLC

CONSTANTS inc, dec,           \* 14: the two CounterFutures
          incAsync, decAsync, \* 14: the two async functions, after them
          e1, e2, e3, f1,     \* 15: entries of the login file and of the error file
          a, b, main,         \* 12
          l1, l2, l3, l4, l5

Counters == {inc, dec, incAsync, decAsync}
Entries  == {e1, e2, e3, f1}
Cancel   == {a, b, main}
Programs == {Counters, Entries, Cancel}

Locks ==
  [t \in Task |-> CASE t \in {inc, dec} -> l1 [] t \in {incAsync, decAsync} -> l2
                    [] t \in {e1, e2, e3} -> l3 [] t = f1 -> l4 [] OTHER -> l5]
ThreeRounds == [t \in Task |-> IF t \in Counters THEN 3 ELSE 1]
Order ==
  [t \in Task |-> CASE t \in {incAsync, decAsync} -> {inc, dec}
                    [] t = main -> {b}
                    [] OTHER -> {}]
=============================================================================

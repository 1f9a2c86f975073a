-------------------------------- MODULE Lock --------------------------------
(***************************************************************************)
(* What a mutex promises: held[t] counts the locks thread t has taken and  *)
(* not given back, and no two threads hold it.  A mutex that is not        *)
(* recursive is one whose Limit is 1.                                      *)
(***************************************************************************)
EXTENDS Integers

CONSTANTS Threads, Limit
VARIABLE held

Init == held = [t \in Threads |-> 0]

Acquire(t) ==
  /\ \A u \in Threads \ {t} : held[u] = 0
  /\ held[t] < Limit
  /\ held' = [held EXCEPT ![t] = @ + 1]

Release(t) == held[t] > 0 /\ held' = [held EXCEPT ![t] = @ - 1]

Next == \E t \in Threads : Acquire(t) \/ Release(t)
Spec == Init /\ [][Next]_held
=============================================================================

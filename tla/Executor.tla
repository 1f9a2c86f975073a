---- MODULE Executor ----
(***************************************************************************)
(* What the dispatch queues and active objects of the repository promise:  *)
(* operations are started in the order in which they were submitted, each  *)
(* once, by a fixed set of workers; closing discards the operations that   *)
(* have not been started and lets those that have finish; once the         *)
(* executor is gone nothing runs.  There is no lock and no sleeping here.  *)
(***************************************************************************)
EXTENDS Sequences

CONSTANTS Ops,      \* the operations (function objects) that are submitted
          Workers,  \* the threads that run them
          NoOp      \* not an operation

VARIABLES queued,    \* submitted and not started, oldest first
          running,   \* the operation each worker is running, or NoOp
          finished,  \* the operations that have been run
          phase      \* "open", "closing" or "gone"

vars == <<queued, running, finished, phase>>

Init ==
    /\ queued = <<>>
    /\ running = [w \in Workers |-> NoOp]
    /\ finished = {}
    /\ phase = "open"

\* A running operation may submit another even while the executor is closing.
Submit(op) ==
    /\ phase # "gone"
    /\ queued' = Append(queued, op)
    /\ UNCHANGED <<running, finished, phase>>

Start(w) ==
    /\ phase = "open"
    /\ running[w] = NoOp
    /\ queued # <<>>
    /\ running' = [running EXCEPT ![w] = Head(queued)]
    /\ queued' = Tail(queued)
    /\ UNCHANGED <<finished, phase>>

Finish(w) ==
    /\ running[w] # NoOp
    /\ finished' = finished \cup {running[w]}
    /\ running' = [running EXCEPT ![w] = NoOp]
    /\ UNCHANGED <<queued, phase>>

Close ==
    /\ phase = "open"
    /\ phase' = "closing"
    /\ UNCHANGED <<queued, running, finished>>

Vanish ==
    /\ phase = "closing"
    /\ \A w \in Workers : running[w] = NoOp
    /\ phase' = "gone"
    /\ UNCHANGED <<queued, running, finished>>

Next ==
    \/ \E op \in Ops : Submit(op)
    \/ \E w \in Workers : Start(w) \/ Finish(w)
    \/ Close \/ Vanish

Spec == Init /\ [][Next]_vars

====

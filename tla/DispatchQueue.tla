---- MODULE DispatchQueue ----
(***************************************************************************)
(* cpp/dispatch.cpp: a queue of operations run by a pool of threads, built *)
(* on std::mutex and std::condition_variable.                              *)
(*                                                                         *)
(* A thread that wants the mutex stands at a label of Wanting; with the    *)
(* mutex held, the body of its critical section and the unlock that ends   *)
(* it are one step, for nobody else can see or touch the queue meanwhile.  *)
(* cv_.wait(lock, predicate) is the loop the standard defines: test the    *)
(* predicate, sleep and give the mutex up at once, wake up (notified or    *)
(* not), take the mutex, test again.                                       *)
(***************************************************************************)
EXTENDS Naturals, Sequences, FiniteSets

CONSTANTS Ops,          \* the operations; each is dispatched at most once
          Workers,      \* threads_
          Producers,    \* the threads that use the queue
          Owner,        \* the producer that constructs and destroys it
          NoOp, NoOne,  \* no operation, no thread
          MaxSpurious   \* bound on the wake-ups nobody asked for

ASSUME ThreadsAssumption ==
    /\ IsFiniteSet(Workers)
    /\ Owner \in Producers
    /\ Workers \cap Producers = {}
    /\ NoOne \notin Workers \cup Producers
ASSUME OpsAssumption == NoOp \notin Ops
ASSUME BoundAssumption == MaxSpurious \in Nat

Threads == Workers \cup Producers

VARIABLES lock,      \* lock_: the thread that holds it, or NoOne
          q,         \* q_
          quit,      \* quit_
          pc,        \* where each thread stands
          op,        \* the operation a worker is running, or NoOp
          arg,       \* the operation a thread is dispatching, or NoOp
          fresh,     \* the operations nobody has dispatched yet
          finished,  \* history: the operations that have been run
          spurious   \* how many wake-ups nobody asked for there have been

vars == <<lock, q, quit, pc, op, arg, fresh, finished, spurious>>

Goto(t, l) == pc' = [pc EXCEPT ![t] = l]

\* cv_'s waiters.
Waiting == {w \in Workers : pc[w] = "waiting"}

Init ==
    /\ lock = NoOne
    /\ q = <<>>
    /\ quit = FALSE
    /\ pc = [t \in Threads |-> IF t \in Workers THEN "unborn"
                               ELSE IF t = Owner THEN "constructing" ELSE "idle"]
    /\ op = [w \in Workers |-> NoOp]
    /\ arg = [t \in Threads |-> NoOp]
    /\ fresh = Ops
    /\ finished = {}
    /\ spurious = 0

-----------------------------------------------------------------------------
(* The constructor starts the threads one by one: the first may be asleep   *)
(* before the last exists.                                                  *)

Spawn(w) ==
    /\ pc[Owner] = "constructing"
    /\ pc[w] = "unborn"
    /\ Goto(w, "start")
    /\ UNCHANGED <<lock, q, quit, op, arg, fresh, finished, spurious>>

Constructed ==
    /\ pc[Owner] = "constructing"
    /\ \A w \in Workers : pc[w] # "unborn"
    /\ Goto(Owner, "idle")
    /\ UNCHANGED <<lock, q, quit, op, arg, fresh, finished, spurious>>

-----------------------------------------------------------------------------
(* lock_.                                                                   *)

\* Where a thread goes once it has the mutex it wants.
Wanting == {"start", "woken", "relock", "dispatch", "destroy"}
Inside(l) == CASE l \in {"start", "woken", "relock"} -> "check"
               [] l = "dispatch" -> "push"
               [] l = "destroy"  -> "quit"

Acquire(t) ==
    /\ pc[t] \in Wanting
    /\ lock = NoOne
    /\ lock' = t
    /\ Goto(t, Inside(pc[t]))
    /\ UNCHANGED <<q, quit, op, arg, fresh, finished, spurious>>

-----------------------------------------------------------------------------
(* dispatch(op), called by a producer or by an operation that is running.   *)

\* Where a thread is that can call dispatch, and returns to.
Home(t) == IF t \in Workers THEN "running" ELSE "idle"

\* Every producer but the owner learns of the queue once it is constructed.
Dispatch(t, f) ==
    /\ pc[t] = Home(t)
    /\ pc[Owner] # "constructing"
    /\ f \in fresh
    /\ fresh' = fresh \ {f}
    /\ arg' = [arg EXCEPT ![t] = f]
    /\ Goto(t, "dispatch")
    /\ UNCHANGED <<lock, q, quit, op, finished, spurious>>

\* push, notify_one (which wakes one waiter, if there is one), unlock.
BugPushSilent(t) ==
    /\ pc[t] = "push"
    /\ lock' = NoOne
    /\ q' = Append(q, arg[t])
    /\ arg' = [arg EXCEPT ![t] = NoOp]
    /\ Goto(t, Home(t))
    /\ UNCHANGED <<quit, op, fresh, finished, spurious>>
BugPush(t) ==
    /\ pc[t] = "push"
    /\ lock' = NoOne
    /\ q' = Append(q, arg[t])
    /\ arg' = [arg EXCEPT ![t] = NoOp]
    /\ IF q = <<>> /\ Waiting # {}
       THEN \E w \in Waiting : pc' = [pc EXCEPT ![t] = Home(t), ![w] = "woken"]
       ELSE Goto(t, Home(t))
    /\ UNCHANGED <<quit, op, fresh, finished, spurious>>
Push(t) ==
    /\ pc[t] = "push"
    /\ lock' = NoOne
    /\ q' = Append(q, arg[t])
    /\ arg' = [arg EXCEPT ![t] = NoOp]
    /\ \/ /\ Waiting = {}
          /\ Goto(t, Home(t))
       \/ \E w \in Waiting : pc' = [pc EXCEPT ![t] = Home(t), ![w] = "woken"]
    /\ UNCHANGED <<quit, op, fresh, finished, spurious>>

-----------------------------------------------------------------------------
(* The destructor, called by the owner once no other producer is in a call  *)
(* or will make one.  Operations may still dispatch.                        *)

Destroy ==
    /\ \A p \in Producers : pc[p] = "idle"
    /\ pc' = [t \in Threads |-> IF t = Owner THEN "destroy"
                                ELSE IF t \in Producers THEN "done" ELSE pc[t]]
    /\ UNCHANGED <<lock, q, quit, op, arg, fresh, finished, spurious>>

\* quit_ = true, notify_all, unlock.
BugQuit ==
    /\ pc[Owner] = "quit"
    /\ lock' = NoOne
    /\ quit' = TRUE
    /\ \/ /\ Waiting = {}
          /\ Goto(Owner, "join")
       \/ \E w \in Waiting : pc' = [pc EXCEPT ![Owner] = "join", ![w] = "woken"]
    /\ UNCHANGED <<q, op, arg, fresh, finished, spurious>>
Quit ==
    /\ pc[Owner] = "quit"
    /\ lock' = NoOne
    /\ quit' = TRUE
    /\ pc' = [t \in Threads |-> IF t = Owner THEN "join"
                                ELSE IF t \in Waiting THEN "woken" ELSE pc[t]]
    /\ UNCHANGED <<q, op, arg, fresh, finished, spurious>>

\* The loop of joins ends when every thread has ended, in whatever order.
Join ==
    /\ pc[Owner] = "join"
    /\ \A w \in Workers : pc[w] = "ended"
    /\ Goto(Owner, "destroyed")
    /\ UNCHANGED <<lock, q, quit, op, arg, fresh, finished, spurious>>

-----------------------------------------------------------------------------
(* dispatch_thread_handler.                                                 *)

\* The predicate is false: sleep.
Wait(w) ==
    /\ pc[w] = "check"
    /\ q = <<>> /\ ~quit
    /\ lock' = NoOne
    /\ Goto(w, "waiting")
    /\ UNCHANGED <<q, quit, op, arg, fresh, finished, spurious>>

SpuriousWakeup(w) ==
    /\ w \in Waiting
    /\ spurious < MaxSpurious
    /\ spurious' = spurious + 1
    /\ Goto(w, "woken")
    /\ UNCHANGED <<lock, q, quit, op, arg, fresh, finished>>

BugTake(w) ==
    /\ pc[w] = "check"
    /\ q # <<>>
    /\ op' = [op EXCEPT ![w] = Head(q)]
    /\ q' = Tail(q)
    /\ lock' = NoOne
    /\ Goto(w, "running")
    /\ UNCHANGED <<quit, arg, fresh, finished, spurious>>
Take(w) ==
    /\ pc[w] = "check"
    /\ ~quit /\ q # <<>>
    /\ op' = [op EXCEPT ![w] = Head(q)]
    /\ q' = Tail(q)
    /\ lock' = NoOne
    /\ Goto(w, "running")
    /\ UNCHANGED <<quit, arg, fresh, finished, spurious>>

\* op() returns.
Finish(w) ==
    /\ pc[w] = "running"
    /\ finished' = finished \cup {op[w]}
    /\ op' = [op EXCEPT ![w] = NoOp]
    /\ Goto(w, "relock")
    /\ UNCHANGED <<lock, q, quit, arg, fresh, spurious>>

\* The loop ends as soon as it sees quit_, whatever is still queued.
Leave(w) ==
    /\ pc[w] = "check"
    /\ quit
    /\ lock' = NoOne
    /\ Goto(w, "ended")
    /\ UNCHANGED <<q, quit, op, arg, fresh, finished, spurious>>

-----------------------------------------------------------------------------

\* What a thread does when it is scheduled, and cannot put off for ever.
Step(t) ==
    \/ Acquire(t) \/ Push(t)
    \/ /\ t \in Workers
       /\ Wait(t) \/ Take(t) \/ Finish(t) \/ Leave(t)
    \/ /\ t = Owner
       /\ Constructed \/ Quit \/ Join \/ \E w \in Workers : Spawn(w)

\* The program is over; no other state is one in which nothing can happen.
Over == pc[Owner] = "destroyed" /\ UNCHANGED vars

Next ==
    \/ \E t \in Threads : Step(t) \/ \E f \in Ops : Dispatch(t, f)
    \/ Destroy
    \/ \E w \in Workers : SpuriousWakeup(w)
    \/ Over

Spec == Init /\ [][Next]_vars

\* Every thread that can run eventually does, and every operation returns.
FairSpec == Spec /\ \A t \in Threads : WF_vars(Step(t))

-----------------------------------------------------------------------------
(* Properties.                                                             *)

WorkerLabels == {"unborn", "start", "check", "waiting", "woken", "running",
                 "relock", "dispatch", "push", "ended"}
ProducerLabels == {"constructing", "idle", "dispatch", "push", "done", "destroy",
                   "quit", "join", "destroyed"}

TypeOK ==
    /\ lock \in Threads \cup {NoOne}
    /\ q \in Seq(Ops)
    /\ quit \in BOOLEAN
    /\ pc \in [Threads -> WorkerLabels \cup ProducerLabels]
    /\ \A w \in Workers : pc[w] \in WorkerLabels
    /\ \A p \in Producers : pc[p] \in ProducerLabels
    /\ op \in [Workers -> Ops \cup {NoOp}]
    /\ arg \in [Threads -> Ops \cup {NoOp}]
    /\ fresh \subseteq Ops
    /\ finished \subseteq Ops
    /\ spurious \in 0 .. MaxSpurious

\* The workers that are on their way to look at the queue.
Ready == {w \in Workers : pc[w] \in {"start", "check", "woken", "relock"}}

\* No wake-up is lost: while a worker sleeps, quit_ is not set, and every
\* operation in the queue has a worker of its own on the way to take it, so none
\* waits in vain although a thread is free (dispatch notifies one thread per
\* operation, the destructor all of them, each under the lock).
NoLostWakeup == Waiting # {} => ~quit /\ Cardinality(Ready) >= Len(q)

\* The queue runs operations as an executor does: in the order they were
\* dispatched, each once, none taken after the destructor set quit_, and none
\* running when the destructor returns and the members are destroyed.
Phase == IF pc[Owner] = "destroyed" THEN "gone"
         ELSE IF quit THEN "closing" ELSE "open"

Pool == INSTANCE Executor WITH queued <- q, running <- op, phase <- Phase

ImplementsExecutor == Pool!Spec

\* The destructor returns: no worker sleeps through quit_ (dispatch.cpp:53-72).
DestructorReturns == pc[Owner] = "destroy" ~> pc[Owner] = "destroyed"

\* An operation that is dispatched is run, unless the queue is destroyed first.
OperationsRun ==
    \A f \in Ops : (\E i \in DOMAIN q : q[i] = f) ~> (f \in finished \/ quit)

====

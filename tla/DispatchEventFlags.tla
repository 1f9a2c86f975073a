---- MODULE DispatchEventFlags ----
(***************************************************************************)
(* cpp/dispatch_freertos.cpp: the dispatch queue on a mutex and an event   *)
(* group.  dispatch_threadx.cpp and dispatch_threadx_stdmutex.cpp take the *)
(* same steps with the services of ThreadX.                                *)
(*                                                                         *)
(* A condition variable wakes one thread and remembers nothing; an event   *)
(* bit wakes every thread that waits for it and, if there is none, stays   *)
(* set until the first one that does (both waits clear it on exit).  The   *)
(* handler gives the mutex up before it waits, so a bit may come between.  *)
(* As in DispatchQueue, a critical section and the unlock that ends it are *)
(* one step.  quit_ is written without the mutex, but never reset, so that *)
(* the handler's tests of it in one pass of its loop act as the last does. *)
(***************************************************************************)
EXTENDS Naturals, Sequences

CONSTANTS Ops,          \* the operations; each is dispatched at most once
          NumWorkers,   \* thread_cnt
          Producers,    \* the tasks that use the queue
          Owner,        \* the producer that constructs and destroys it
          NoOp, NoOne   \* no operation, no task

Workers == 1 .. NumWorkers

ASSUME SizeAssumption == NumWorkers \in Nat \ {0}
ASSUME ThreadsAssumption ==
    /\ Owner \in Producers
    /\ Workers \cap Producers = {}
    /\ NoOne \notin Workers \cup Producers
ASSUME OpsAssumption == NoOp \notin Ops

Threads == Workers \cup Producers

VARIABLES lock,      \* mutex_: the task that holds it, or NoOne
          q,         \* q_
          quit,      \* quit_
          flags,     \* notify_flags_: the bits that are set
          pc,        \* where each task stands
          op,        \* the operation a worker is running, or NoOp
          arg,       \* the operation a task is dispatching, or NoOp
          joining,   \* i: the worker the destructor waits for
          fresh,     \* the operations nobody has dispatched yet
          finished   \* history: the operations that have been run

queueVars == <<q, arg, fresh>>
workVars  == <<op, finished>>
quitVars  == <<quit, joining>>
vars == <<lock, flags, pc, queueVars, workVars, quitVars>>

Goto(t, l) == pc' = [pc EXCEPT ![t] = l]

Init ==
    /\ lock = NoOne
    /\ q = <<>>
    /\ quit = FALSE
    /\ flags = {}
    /\ pc = [t \in Threads |-> IF t \in Workers THEN "unborn"
                               ELSE IF t = Owner THEN "constructing" ELSE "idle"]
    /\ op = [w \in Workers |-> NoOp]
    /\ arg = [t \in Threads |-> NoOp]
    /\ joining = 1
    /\ fresh = Ops
    /\ finished = {}

-----------------------------------------------------------------------------
(* The services of the RTOS.                                                *)

\* Who is blocked on a bit, and where the wait leaves it.
Blocked(bit) == CASE bit = "WAKE" -> {w \in Workers : pc[w] = "waiting"}
                  [] bit = "EXIT" -> {t \in {Owner} : pc[t] = "timed"}
After(bit) == CASE bit = "WAKE" -> "relock" [] bit = "EXIT" -> "poll"

\* xEventGroupSetBits: t sets the bit and goes on at l.  All that wait for the
\* bit go on too, and clear it.
SetBitAndGoto(t, bit, l) ==
    /\ flags' = IF Blocked(bit) = {} THEN flags \cup {bit} ELSE flags \ {bit}
    /\ pc' = [s \in Threads |-> IF s = t THEN l
                                ELSE IF s \in Blocked(bit) THEN After(bit) ELSE pc[s]]

\* xEventGroupWaitBits: a bit that is set is cleared, one that is not is awaited at l.
WaitBit(t, bit, l) ==
    /\ flags' = flags \ {bit}
    /\ Goto(t, IF bit \in flags THEN After(bit) ELSE l)

\* Where a task goes once it has the mutex it wants.
Wanting == {"start", "relock", "dispatch"}

Acquire(t) ==
    /\ pc[t] \in Wanting
    /\ lock = NoOne
    /\ lock' = t
    /\ Goto(t, IF pc[t] = "dispatch" THEN "push" ELSE "check")
    /\ UNCHANGED <<flags, queueVars, workVars, quitVars>>

-----------------------------------------------------------------------------
(* The constructor creates the tasks one by one, and they run at once.      *)

Spawn(w) ==
    /\ pc[Owner] = "constructing"
    /\ pc[w] = "unborn"
    /\ \A v \in Workers : v < w => pc[v] # "unborn"
    /\ Goto(w, "start")
    /\ UNCHANGED <<lock, flags, queueVars, workVars, quitVars>>

Constructed ==
    /\ pc[Owner] = "constructing"
    /\ \A w \in Workers : pc[w] # "unborn"
    /\ Goto(Owner, "idle")
    /\ UNCHANGED <<lock, flags, queueVars, workVars, quitVars>>

-----------------------------------------------------------------------------
(* dispatch(op), called by a producer or by an operation that is running:   *)
(* push with the mutex, give the mutex up, and only then set the bit.       *)

Home(t) == IF t \in Workers THEN "running" ELSE "idle"

Dispatch(t, f) ==
    /\ pc[t] = Home(t)
    /\ pc[Owner] # "constructing"
    /\ f \in fresh
    /\ fresh' = fresh \ {f}
    /\ arg' = [arg EXCEPT ![t] = f]
    /\ Goto(t, "dispatch")
    /\ UNCHANGED <<lock, flags, q, workVars, quitVars>>

Push(t) ==
    /\ pc[t] = "push"
    /\ lock' = NoOne
    /\ q' = Append(q, arg[t])
    /\ arg' = [arg EXCEPT ![t] = NoOp]
    /\ Goto(t, "set")
    /\ UNCHANGED <<flags, fresh, workVars, quitVars>>

\* The bit is dropped when nobody waits for it, as a notification would be.
BugSetWake(t) ==
    /\ pc[t] = "set"
    /\ IF Blocked("WAKE") = {} THEN Goto(t, Home(t)) /\ UNCHANGED flags
       ELSE SetBitAndGoto(t, "WAKE", Home(t))
    /\ UNCHANGED <<lock, queueVars, workVars, quitVars>>
SetWake(t) ==
    /\ pc[t] = "set"
    /\ SetBitAndGoto(t, "WAKE", Home(t))
    /\ UNCHANGED <<lock, queueVars, workVars, quitVars>>

-----------------------------------------------------------------------------
(* The destructor, called by the owner once no other producer is in a call  *)
(* or will make one.  Operations may still dispatch.  For each worker in    *)
(* turn it wakes them all, waits a while for any to exit, and asks for the  *)
(* state of that worker.                                                    *)

Destroy ==
    /\ \A p \in Producers : pc[p] = "idle"
    /\ quit' = TRUE
    /\ pc' = [t \in Threads |-> IF t = Owner THEN "wake"
                                ELSE IF t \in Producers THEN "done" ELSE pc[t]]
    /\ UNCHANGED <<lock, flags, queueVars, workVars, joining>>

Wake ==
    /\ pc[Owner] = "wake"
    /\ SetBitAndGoto(Owner, "WAKE", "await")
    /\ UNCHANGED <<lock, queueVars, workVars, quitVars>>

AwaitExit ==
    /\ pc[Owner] = "await"
    /\ WaitBit(Owner, "EXIT", "timed")
    /\ UNCHANGED <<lock, queueVars, workVars, quitVars>>

Timeout ==
    /\ pc[Owner] = "timed"
    /\ Goto(Owner, "poll")
    /\ UNCHANGED <<lock, flags, queueVars, workVars, quitVars>>

\* Where the destructor goes when worker joining has been deleted.
NextJoin ==
    /\ joining' = joining + 1
    /\ Goto(Owner, IF joining = NumWorkers THEN "cleanup" ELSE "wake")

\* The exit of some worker is taken for the exit of this one.
BugPoll ==
    /\ pc[Owner] = "poll"
    /\ \/ /\ \A w \in Workers : pc[w] # "ended"
          /\ Goto(Owner, "wake")
          /\ UNCHANGED joining
       \/ /\ \E w \in Workers : pc[w] = "ended"
          /\ NextJoin
    /\ UNCHANGED <<lock, quit, flags, queueVars, workVars>>
\* Not woken again.
BugPollOnce ==
    /\ pc[Owner] = "poll"
    /\ \/ /\ pc[joining] # "ended"
          /\ Goto(Owner, "await")
          /\ UNCHANGED joining
       \/ /\ pc[joining] = "ended"
          /\ NextJoin
    /\ UNCHANGED <<lock, quit, flags, queueVars, workVars>>
Poll ==
    /\ pc[Owner] = "poll"
    /\ \/ /\ pc[joining] # "ended"
          /\ Goto(Owner, "wake")
          /\ UNCHANGED joining
       \/ /\ pc[joining] = "ended"
          /\ NextJoin
    /\ UNCHANGED <<lock, quit, flags, queueVars, workVars>>

\* The event group and the mutex are deleted.
Cleanup ==
    /\ pc[Owner] = "cleanup"
    /\ Goto(Owner, "destroyed")
    /\ UNCHANGED <<lock, flags, queueVars, workVars, quitVars>>

-----------------------------------------------------------------------------
(* dispatch_thread_handler.                                                 *)

\* Nothing to do: give the mutex up ...
GoWait(w) ==
    /\ pc[w] = "check"
    /\ q = <<>> /\ ~quit
    /\ lock' = NoOne
    /\ Goto(w, "towait")
    /\ UNCHANGED <<flags, queueVars, workVars, quitVars>>

\* ... and wait for the bit.
AwaitWake(w) ==
    /\ pc[w] = "towait"
    /\ WaitBit(w, "WAKE", "waiting")
    /\ UNCHANGED <<lock, queueVars, workVars, quitVars>>

BugTake(w) ==
    /\ pc[w] = "check"
    /\ q # <<>>
    /\ op' = [op EXCEPT ![w] = Head(q)]
    /\ q' = Tail(q)
    /\ lock' = NoOne
    /\ Goto(w, "running")
    /\ UNCHANGED <<flags, arg, fresh, finished, quitVars>>
Take(w) ==
    /\ pc[w] = "check"
    /\ ~quit /\ q # <<>>
    /\ op' = [op EXCEPT ![w] = Head(q)]
    /\ q' = Tail(q)
    /\ lock' = NoOne
    /\ Goto(w, "running")
    /\ UNCHANGED <<flags, arg, fresh, finished, quitVars>>

Finish(w) ==
    /\ pc[w] = "running"
    /\ finished' = finished \cup {op[w]}
    /\ op' = [op EXCEPT ![w] = NoOp]
    /\ Goto(w, "relock")
    /\ UNCHANGED <<lock, flags, queueVars, quitVars>>

Leave(w) ==
    /\ pc[w] = "check"
    /\ quit
    /\ lock' = NoOne
    /\ Goto(w, "exit")
    /\ UNCHANGED <<flags, queueVars, workVars, quitVars>>

SetExit(w) ==
    /\ pc[w] = "exit"
    /\ SetBitAndGoto(w, "EXIT", "delete")
    /\ UNCHANGED <<lock, queueVars, workVars, quitVars>>

\* vTaskDelete(NULL).
Delete(w) ==
    /\ pc[w] = "delete"
    /\ Goto(w, "ended")
    /\ UNCHANGED <<lock, flags, queueVars, workVars, quitVars>>

-----------------------------------------------------------------------------

\* What a task does when it is scheduled, and cannot put off for ever.
Step(t) ==
    \/ Acquire(t) \/ Push(t) \/ SetWake(t)
    \/ /\ t \in Workers
       /\ GoWait(t) \/ AwaitWake(t) \/ Take(t) \/ Finish(t)
             \/ Leave(t) \/ SetExit(t) \/ Delete(t)
    \/ /\ t = Owner
       /\ Constructed \/ Wake \/ AwaitExit \/ Timeout \/ Poll \/ Cleanup
             \/ \E w \in Workers : Spawn(w)

\* The program is over; no other state is one in which nothing can happen.
Over == pc[Owner] = "destroyed" /\ UNCHANGED vars

Next ==
    \/ \E t \in Threads : Step(t) \/ \E f \in Ops : Dispatch(t, f)
    \/ Destroy
    \/ Over

Spec == Init /\ [][Next]_vars

\* Every task that can run eventually does, every operation returns, and the
\* destructor's wait ends after its ticks.
FairSpec == Spec /\ \A t \in Threads : WF_vars(Step(t))

-----------------------------------------------------------------------------
(* Properties.                                                             *)

WorkerLabels == {"unborn", "start", "check", "towait", "waiting", "running", "relock",
                 "dispatch", "push", "set", "exit", "delete", "ended"}
ProducerLabels == {"constructing", "idle", "dispatch", "push", "set", "done", "wake",
                   "await", "timed", "poll", "cleanup", "destroyed"}

TypeOK ==
    /\ lock \in Threads \cup {NoOne}
    /\ q \in Seq(Ops)
    /\ quit \in BOOLEAN
    /\ flags \subseteq {"WAKE", "EXIT"}
    /\ pc \in [Threads -> WorkerLabels \cup ProducerLabels]
    /\ \A w \in Workers : pc[w] \in WorkerLabels
    /\ \A p \in Producers : pc[p] \in ProducerLabels
    /\ op \in [Workers -> Ops \cup {NoOp}]
    /\ arg \in [Threads -> Ops \cup {NoOp}]
    /\ joining \in 1 .. NumWorkers + 1
    /\ fresh \subseteq Ops
    /\ finished \subseteq Ops

\* The places from which a worker comes to look at the queue of its own accord.
Busy == {"unborn", "start", "check", "relock", "running", "dispatch", "push", "set"}

\* No operation is stranded: while one is queued, some worker will look at the
\* queue, or the bit is set for a worker that is about to wait for it, or a task
\* is about to set it.  One bit is all there is for any number of operations.
NoneStranded ==
    q # <<>> /\ ~quit =>
        \/ \E w \in Workers : pc[w] \in Busy
        \/ \E w \in Workers : pc[w] = "towait" /\ "WAKE" \in flags
        \/ \E p \in Producers : pc[p] = "set"

\* Nobody uses the event group or the mutex when the destructor deletes them:
\* every worker is gone, not only on its way out, and nobody holds the mutex.
QuietAtCleanup ==
    pc[Owner] \in {"cleanup", "destroyed"} =>
        /\ lock = NoOne
        /\ \A t \in Threads \ {Owner} : pc[t] \in {"ended", "done"}

\* The queue runs operations as an executor does; see DispatchQueue.
Phase == IF pc[Owner] = "destroyed" THEN "gone"
         ELSE IF quit THEN "closing" ELSE "open"

Pool == INSTANCE Executor WITH queued <- q, running <- op, phase <- Phase

ImplementsExecutor == Pool!Spec

\* The destructor returns: a worker that missed one wake-up gets the next.
DestructorReturns == pc[Owner] = "wake" ~> pc[Owner] = "destroyed"

====

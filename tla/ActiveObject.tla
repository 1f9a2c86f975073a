---- MODULE ActiveObject ----
(***************************************************************************)
(* cpp/active_object/active_object.hpp: an object with a queue and one     *)
(* thread of its own, which calls process_ of the derived class on every   *)
(* element.  As in DispatchQueue, a thread that wants lock_ stands at a     *)
(* label of Wanting, and what it does with the mutex held, up to the       *)
(* unlock, is one step.  The derived class is modelled by whether it still *)
(* exists: its destructor runs before the one of activeObject.             *)
(***************************************************************************)
EXTENDS Naturals, Sequences, FiniteSets

CONSTANTS Ops,          \* the elements; each is enqueued at most once
          Clients,      \* the threads that call enqueue
          Owner,        \* the client that destroys the object
          Self,         \* thread_
          NoOp, NoOne,  \* no element, no thread
          QueueSize,    \* TQueueSize; 0 means unbounded
          MaxSpurious   \* bound on the wake-ups nobody asked for

ASSUME ThreadsAssumption ==
    /\ Owner \in Clients
    /\ Self \notin Clients
    /\ NoOne \notin Clients \cup {Self}
ASSUME OpsAssumption == NoOp \notin Ops
ASSUME SizesAssumption == QueueSize \in Nat /\ MaxSpurious \in Nat

Threads == Clients \cup {Self}

VARIABLES lock,      \* lock_: the thread that holds it, or NoOne
          q,         \* op_queue_
          shutdown,  \* shutdown_
          pc,        \* where each thread stands
          op,        \* the element thread_ is processing, or NoOp
          arg,       \* the element a thread is enqueueing, or NoOp
          derived,   \* whether the derived class's part of the object exists
          derivedShutsDown,  \* whether the derived destructor calls shutdown
          fresh,     \* the elements nobody has enqueued yet
          finished,  \* history: the elements that have been processed
          spurious   \* how many wake-ups nobody asked for there have been

queueVars == <<q, arg, fresh>>
lifeVars  == <<shutdown, derived, derivedShutsDown>>
workVars  == <<op, finished>>
vars == <<lock, pc, queueVars, lifeVars, workVars, spurious>>

Goto(t, l) == pc' = [pc EXCEPT ![t] = l]

\* thread_ is the last member: when it starts, all others are constructed.
Init ==
    /\ lock = NoOne
    /\ q = <<>>
    /\ shutdown = FALSE
    /\ pc = [t \in Threads |-> IF t = Self THEN "start" ELSE "idle"]
    /\ op = NoOp
    /\ arg = [t \in Threads |-> NoOp]
    /\ derived = TRUE
    /\ derivedShutsDown \in BOOLEAN
    /\ fresh = Ops
    /\ finished = {}
    /\ spurious = 0

-----------------------------------------------------------------------------
(* lock_ and cv_.                                                           *)

\* Where a thread goes once it has the mutex it wants.
Wanting == {"start", "woken", "relock", "enqueue", "shutdown"}
Inside(l) == CASE l \in {"start", "woken", "relock"} -> "check"
               [] l = "enqueue"  -> "push"
               [] l = "shutdown" -> "set"

Acquire(t) ==
    /\ pc[t] \in Wanting
    /\ lock = NoOne
    /\ lock' = t
    /\ Goto(t, Inside(pc[t]))
    /\ UNCHANGED <<queueVars, lifeVars, workVars, spurious>>

\* Thread t goes on at l and, if thread_ sleeps, notifies it.
NotifyAndGoto(t, l) ==
    pc' = [pc EXCEPT ![t] = l,
                     ![Self] = IF @ = "waiting" THEN "woken"
                               ELSE IF t = Self THEN l ELSE @]

-----------------------------------------------------------------------------
(* enqueue, called by a client or by process_.                              *)

Home(t) == IF t = Self THEN "running" ELSE "idle"

Enqueue(t, f) ==
    /\ pc[t] = Home(t)
    /\ f \in fresh
    /\ fresh' = fresh \ {f}
    /\ arg' = [arg EXCEPT ![t] = f]
    /\ Goto(t, "enqueue")
    /\ UNCHANGED <<lock, q, lifeVars, workVars, spurious>>

\* val_postable is set for an unbounded queue only: line 122 compares it with
\* !full() where it means to assign.
BugPushSilent(t) ==
    /\ pc[t] = "push"
    /\ lock' = NoOne
    /\ arg' = [arg EXCEPT ![t] = NoOp]
    /\ q' = IF QueueSize = 0 THEN Append(q, arg[t]) ELSE q
    /\ Goto(t, Home(t))
    /\ UNCHANGED <<fresh, lifeVars, workVars, spurious>>
Push(t) ==
    /\ pc[t] = "push"
    /\ lock' = NoOne
    /\ arg' = [arg EXCEPT ![t] = NoOp]
    /\ IF QueueSize = 0
       THEN /\ q' = Append(q, arg[t])
            /\ NotifyAndGoto(t, Home(t))
       ELSE /\ Goto(t, Home(t))
            /\ UNCHANGED q
    /\ UNCHANGED <<fresh, lifeVars, workVars, spurious>>

-----------------------------------------------------------------------------
(* The end of the object.  The owner destroys it once no other client is in *)
(* a call or will make one: first the derived destructor, then the members  *)
(* of the derived class, then ~activeObject.                                *)

Destroy ==
    /\ \A c \in Clients : pc[c] = "idle"
    /\ pc' = [t \in Threads |->
                 IF t = Self THEN pc[t]
                 ELSE IF t # Owner THEN "done"
                 ELSE IF derivedShutsDown THEN "shutdown" ELSE "strip"]
    /\ UNCHANGED <<lock, queueVars, lifeVars, workVars, spurious>>

Strip ==
    /\ pc[Owner] = "strip"
    /\ derived' = FALSE
    /\ Goto(Owner, "base")
    /\ UNCHANGED <<lock, queueVars, shutdown, derivedShutsDown, workVars, spurious>>

\* ~activeObject shuts down what has not been shut down.
Base ==
    /\ pc[Owner] = "base"
    /\ Goto(Owner, IF shutdown THEN "destroyed" ELSE "shutdown")
    /\ UNCHANGED <<lock, queueVars, lifeVars, workVars, spurious>>

\* shutdown: shutdown_ = true, unlock; notify_one, without the lock; join.
SetShutdown ==
    /\ pc[Owner] = "set"
    /\ shutdown' = TRUE
    /\ lock' = NoOne
    /\ Goto(Owner, "notify")
    /\ UNCHANGED <<queueVars, derived, derivedShutsDown, workVars, spurious>>

BugNotify ==
    /\ pc[Owner] = "notify"
    /\ Goto(Owner, "join")
    /\ UNCHANGED <<lock, queueVars, lifeVars, workVars, spurious>>
Notify ==
    /\ pc[Owner] = "notify"
    /\ NotifyAndGoto(Owner, "join")
    /\ UNCHANGED <<lock, queueVars, lifeVars, workVars, spurious>>

BugJoin ==
    /\ pc[Owner] = "join"
    /\ Goto(Owner, IF derived THEN "strip" ELSE "destroyed")
    /\ UNCHANGED <<lock, queueVars, lifeVars, workVars, spurious>>
Join ==
    /\ pc[Owner] = "join"
    /\ pc[Self] = "ended"
    /\ Goto(Owner, IF derived THEN "strip" ELSE "destroyed")
    /\ UNCHANGED <<lock, queueVars, lifeVars, workVars, spurious>>

-----------------------------------------------------------------------------
(* thread_handler.                                                          *)

Wait ==
    /\ pc[Self] = "check"
    /\ q = <<>> /\ ~shutdown
    /\ lock' = NoOne
    /\ Goto(Self, "waiting")
    /\ UNCHANGED <<queueVars, lifeVars, workVars, spurious>>

SpuriousWakeup ==
    /\ pc[Self] = "waiting"
    /\ spurious < MaxSpurious
    /\ spurious' = spurious + 1
    /\ Goto(Self, "woken")
    /\ UNCHANGED <<lock, queueVars, lifeVars, workVars>>

BugTake ==
    /\ pc[Self] = "check"
    /\ q # <<>>
    /\ op' = Head(q)
    /\ q' = Tail(q)
    /\ lock' = NoOne
    /\ Goto(Self, "running")
    /\ UNCHANGED <<arg, fresh, lifeVars, finished, spurious>>
Take ==
    /\ pc[Self] = "check"
    /\ ~shutdown /\ q # <<>>
    /\ op' = Head(q)
    /\ q' = Tail(q)
    /\ lock' = NoOne
    /\ Goto(Self, "running")
    /\ UNCHANGED <<arg, fresh, lifeVars, finished, spurious>>

\* process_(op) returns.
Finish ==
    /\ pc[Self] = "running"
    /\ finished' = finished \cup {op}
    /\ op' = NoOp
    /\ Goto(Self, "relock")
    /\ UNCHANGED <<lock, queueVars, lifeVars, spurious>>

\* The loop ends as soon as it sees shutdown_, whatever is still queued.
Leave ==
    /\ pc[Self] = "check"
    /\ shutdown
    /\ lock' = NoOne
    /\ Goto(Self, "ended")
    /\ UNCHANGED <<queueVars, lifeVars, workVars, spurious>>

-----------------------------------------------------------------------------

\* What a thread does when it is scheduled, and cannot put off for ever.
Step(t) ==
    \/ Acquire(t) \/ Push(t)
    \/ /\ t = Self
       /\ Wait \/ Take \/ Finish \/ Leave
    \/ /\ t = Owner
       /\ Strip \/ Base \/ SetShutdown \/ Notify \/ Join

\* The program is over; no other state is one in which nothing can happen.
Over == pc[Owner] = "destroyed" /\ UNCHANGED vars

Next ==
    \/ \E t \in Threads : Step(t) \/ \E f \in Ops : Enqueue(t, f)
    \/ Destroy
    \/ SpuriousWakeup
    \/ Over

Spec == Init /\ [][Next]_vars

\* Every thread that can run eventually does, and process_ returns.
FairSpec == Spec /\ \A t \in Threads : WF_vars(Step(t))

-----------------------------------------------------------------------------
(* Properties.                                                             *)

SelfLabels == {"start", "check", "waiting", "woken", "running", "relock",
               "enqueue", "push", "ended"}
ClientLabels == {"idle", "enqueue", "push", "done", "shutdown", "set", "notify",
                 "join", "strip", "base", "destroyed"}

TypeOK ==
    /\ lock \in Threads \cup {NoOne}
    /\ q \in Seq(Ops)
    /\ shutdown \in BOOLEAN /\ derived \in BOOLEAN /\ derivedShutsDown \in BOOLEAN
    /\ pc \in [Threads -> SelfLabels \cup ClientLabels]
    /\ pc[Self] \in SelfLabels
    /\ \A c \in Clients : pc[c] \in ClientLabels
    /\ op \in Ops \cup {NoOp}
    /\ arg \in [Threads -> Ops \cup {NoOp}]
    /\ fresh \subseteq Ops /\ finished \subseteq Ops
    /\ spurious \in 0 .. MaxSpurious

\* The thread never sleeps through work or through the end: while it sleeps the
\* queue is empty, and shutdown_, which is set under the lock but announced
\* after it, still has its notification to come (shutdown, thread_handler).
NoLostWakeup ==
    pc[Self] = "waiting" => q = <<>> /\ (shutdown => pc[Owner] = "notify")

\* process_ is never called on, and never left running in, an object whose
\* derived part is gone: what calling shutdown from the derived destructor is
\* for ("This will prevent memory access problems", active_object.hpp:139).
ProcessOnWholeObject == derivedShutsDown /\ op # NoOp => derived

\* The object runs its elements as an executor with one worker does: in the
\* order they were enqueued, each once, none taken once shutdown_ is set, and
\* none running when the object is gone.
Phase == IF pc[Owner] = "destroyed" THEN "gone"
         ELSE IF shutdown THEN "closing" ELSE "open"

Worker == INSTANCE Executor WITH
              Workers <- {Self}, queued <- q, running <- [w \in {Self} |-> op],
              phase <- Phase

ImplementsExecutor == Worker!Spec

\* Destruction ends, by whichever destructor the thread is shut down.
DestructorReturns == pc[Owner] \in {"shutdown", "strip"} ~> pc[Owner] = "destroyed"

====

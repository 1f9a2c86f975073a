---- MODULE ActiveObject_proofs ----
(***************************************************************************)
(* An active object, with a bounded or an unbounded queue, implements the  *)
(* executor, loses no wake-up and, if the derived destructor shuts it      *)
(* down, never processes an element on half an object: for every set of    *)
(* clients and elements.                                                   *)
(***************************************************************************)
EXTENDS ActiveObject, SequenceTheorems, TLAPS

\* The critical sections: the thread that is inside one holds the mutex.
LockInv ==
    \A t \in Threads : pc[t] \in {"check", "push", "set"} <=> lock = t

\* thread_ holds an element exactly while it processes it, enqueueing included.
OpInv == op # NoOp <=> pc[Self] \in {"running", "enqueue", "push"}

ArgInv ==
    \A t \in Threads : pc[t] \in {"enqueue", "push"} => arg[t] \in Ops

Ending == {"shutdown", "set", "notify", "join", "strip", "base", "destroyed"}

\* Nobody else uses the object while the owner destroys it.
ClientInv ==
    /\ pc[Owner] # "done"
    /\ \A c \in Clients \ {Owner} :
          /\ pc[c] \in {"idle", "enqueue", "push", "done"}
          /\ pc[Owner] \in Ending => pc[c] = "done"

\* shutdown_ is set once, by the owner, and the thread has been joined wherever
\* the owner is past a shutdown.
ShutdownInv ==
    /\ pc[Owner] \in {"idle", "enqueue", "push", "shutdown", "set"} => ~shutdown
    /\ pc[Owner] \in {"notify", "join", "destroyed"} => shutdown
    /\ pc[Owner] \in {"strip", "base", "destroyed"} /\ shutdown => pc[Self] = "ended"

\* The derived part goes before the base part, and after the thread has ended
\* if the derived destructor calls shutdown.
DerivedInv ==
    /\ pc[Owner] \in {"idle", "enqueue", "push", "strip"} => derived
    /\ pc[Owner] \in {"base", "destroyed"} => ~derived
    /\ derivedShutsDown /\ pc[Owner] = "strip" => shutdown
    /\ derivedShutsDown /\ ~derived => pc[Owner] \in {"base", "destroyed"} /\ shutdown

Control == TypeOK /\ LockInv /\ OpInv /\ ArgInv /\ ClientInv /\ ShutdownInv /\ DerivedInv

IInv == Control /\ NoLostWakeup

Labels == SelfLabels \cup ClientLabels

-----------------------------------------------------------------------------

LEMMA ThreadFacts ==
    /\ Owner \in Threads /\ Owner \in Clients /\ Owner # Self
    /\ Self \in Threads /\ Self \notin Clients
    /\ \A c \in Clients : c \in Threads /\ c # Self
    /\ \A t \in Threads : t # NoOne
    /\ Threads = Clients \cup {Self}
BY ThreadsAssumption DEF Threads

\* What a jump does to the labels.
LEMMA GotoEffect ==
    ASSUME TypeOK, NEW t \in Threads, NEW l \in Labels, Goto(t, l)
    PROVE  /\ pc' \in [Threads -> Labels]
           /\ pc'[t] = l
           /\ \A s \in Threads \ {t} : pc'[s] = pc[s]
BY DEF Goto, TypeOK, Labels

\* A notification is a jump that wakes thread_ as well, if it sleeps.
LEMMA NotifyEffect ==
    ASSUME TypeOK, NEW t \in Threads, NEW l \in Labels, l # "waiting",
           pc[t] # "waiting", NotifyAndGoto(t, l)
    PROVE  /\ pc' \in [Threads -> Labels]
           /\ pc'[t] = l
           /\ pc'[Self] # "waiting"
           /\ \A s \in Threads \ {t} :
                 pc'[s] = pc[s] \/ (s = Self /\ pc[s] = "waiting" /\ pc'[s] = "woken")
<1>1. pc \in [Threads -> Labels] /\ "woken" \in Labels /\ Self \in Threads
  BY ThreadFacts DEF TypeOK, Labels, SelfLabels
<1>2. CASE t = Self
  <2>1. pc' = [pc EXCEPT ![Self] = l]
    BY <1>1, <1>2 DEF NotifyAndGoto
  <2> QED BY <1>1, <1>2, <2>1
<1>3. CASE t # Self /\ pc[Self] = "waiting"
  <2>1. pc' = [pc EXCEPT ![t] = l, ![Self] = "woken"]
    BY <1>1, <1>3 DEF NotifyAndGoto
  <2> QED BY <1>1, <1>3, <2>1
<1>4. CASE t # Self /\ pc[Self] # "waiting"
  <2>1. pc' = [pc EXCEPT ![t] = l, ![Self] = pc[Self]]
    BY <1>1, <1>4 DEF NotifyAndGoto
  <2> QED BY <1>1, <1>4, <2>1
<1> QED BY <1>2, <1>3, <1>4

LEMMA InitInv == Init => IInv
<1> SUFFICES ASSUME Init PROVE IInv
  OBVIOUS
<1>1. /\ pc \in [Threads -> Labels]
      /\ pc[Self] = "start"
      /\ \A c \in Clients : pc[c] = "idle"
  BY ThreadFacts DEF Init, Labels, SelfLabels, ClientLabels
<1>2. TypeOK
  <2>1. q \in Seq(Ops)
    BY DEF Init
  <2>2. op \in Ops \cup {NoOp} /\ arg \in [Threads -> Ops \cup {NoOp}]
    BY DEF Init
  <2>3. spurious \in 0 .. MaxSpurious
    BY SizesAssumption DEF Init
  <2>4. pc[Self] \in SelfLabels /\ \A c \in Clients : pc[c] \in ClientLabels
    BY <1>1 DEF SelfLabels, ClientLabels
  <2> QED BY <1>1, <2>1, <2>2, <2>3, <2>4 DEF TypeOK, Init, Labels
<1>3. \A t \in Threads : pc[t] \in {"start", "idle"}
  BY <1>1, ThreadFacts
<1>4. LockInv
  BY <1>3, ThreadFacts DEF Init, LockInv
<1>5. OpInv /\ ArgInv
  BY <1>1, <1>3 DEF Init, OpInv, ArgInv
<1>6. ClientInv /\ ShutdownInv /\ DerivedInv
  BY <1>1, ThreadFacts DEF Init, ClientInv, ShutdownInv, DerivedInv, Ending
<1>7. NoLostWakeup
  BY <1>1 DEF NoLostWakeup
<1> QED BY <1>2, <1>4, <1>5, <1>6, <1>7 DEF IInv, Control

-----------------------------------------------------------------------------
(* Every action keeps the invariant: types, the mutex, who is where, and    *)
(* that the thread does not sleep through work.                             *)

\* The jump of a thread that takes the mutex.
LEMMA AcquireEffect ==
    ASSUME Control, NEW t \in Threads, Acquire(t)
    PROVE  /\ pc' \in [Threads -> Labels]
           /\ \A s \in Threads \ {t} : pc'[s] = pc[s]
           /\ \/ t = Self /\ pc[t] \in {"start", "woken", "relock"} /\ pc'[t] = "check"
              \/ pc[t] = "enqueue" /\ pc'[t] = "push"
              \/ t = Owner /\ pc[t] = "shutdown" /\ pc'[t] = "set"
<1>1. pc[t] \in Wanting /\ Goto(t, Inside(pc[t]))
  BY DEF Acquire
<1>2. CASE pc[t] \in {"start", "woken", "relock"}
  <2>1. t = Self
    BY <1>2, ThreadFacts DEF Control, TypeOK, ClientLabels
  <2>2. Goto(t, "check")
    BY <1>1, <1>2 DEF Inside
  <2> QED BY <1>2, <2>1, <2>2, GotoEffect DEF Control, Labels, SelfLabels
<1>3. CASE pc[t] = "enqueue"
  <2>1. Goto(t, "push")
    BY <1>1, <1>3 DEF Inside
  <2> QED BY <1>3, <2>1, GotoEffect DEF Control, Labels, SelfLabels
<1>4. CASE pc[t] = "shutdown"
  <2>1. t = Owner
    BY <1>4, ThreadFacts DEF Control, TypeOK, SelfLabels, ClientInv
  <2>2. Goto(t, "set")
    BY <1>1, <1>4 DEF Inside
  <2> QED BY <1>4, <2>1, <2>2, GotoEffect DEF Control, Labels, ClientLabels
<1> QED BY <1>1, <1>2, <1>3, <1>4 DEF Wanting

LEMMA AcquireInv ==
    ASSUME IInv, NEW t \in Threads, Acquire(t)
    PROVE  IInv'
<1>0. Control /\ NoLostWakeup
  BY DEF IInv
<1>1. /\ pc' \in [Threads -> Labels]
      /\ \A s \in Threads \ {t} : pc'[s] = pc[s]
      /\ \/ t = Self /\ pc[t] \in {"start", "woken", "relock"} /\ pc'[t] = "check"
         \/ pc[t] = "enqueue" /\ pc'[t] = "push"
         \/ t = Owner /\ pc[t] = "shutdown" /\ pc'[t] = "set"
  BY <1>0, AcquireEffect
<1>2. /\ lock = NoOne /\ lock' = t
      /\ UNCHANGED <<q, arg, fresh, shutdown, derived, derivedShutsDown, op, finished, spurious>>
  BY DEF Acquire, queueVars, lifeVars, workVars
<1>3. TypeOK'
  BY <1>0, <1>1, <1>2, ThreadFacts DEF Control, TypeOK, Labels, SelfLabels, ClientLabels
<1>4. LockInv'
  BY <1>0, <1>1, <1>2, ThreadFacts DEF Control, LockInv
<1>5. OpInv' /\ ArgInv'
  BY <1>0, <1>1, <1>2, ThreadFacts DEF Control, OpInv, ArgInv
<1>6. ClientInv'
  BY <1>0, <1>1, <1>2, ThreadFacts DEF Control, ClientInv, Ending
<1>7. ShutdownInv' /\ DerivedInv'
  BY <1>0, <1>1, <1>2, ThreadFacts DEF Control, ShutdownInv, DerivedInv
<1>8. NoLostWakeup'
  BY <1>0, <1>1, <1>2, ThreadFacts DEF NoLostWakeup
<1> QED BY <1>3, <1>4, <1>5, <1>6, <1>7, <1>8 DEF IInv, Control

LEMMA EnqueueInv ==
    ASSUME IInv, NEW t \in Threads, NEW f \in Ops, Enqueue(t, f)
    PROVE  IInv'
<1>0. Control /\ NoLostWakeup
  BY DEF IInv
<1>1. /\ pc' \in [Threads -> Labels]
      /\ pc'[t] = "enqueue"
      /\ \A s \in Threads \ {t} : pc'[s] = pc[s]
  BY <1>0, GotoEffect DEF Enqueue, Control, Labels, SelfLabels
<1>2. \/ t = Self /\ pc[t] = "running"
      \/ t \in Clients /\ pc[t] = "idle"
  BY ThreadFacts DEF Enqueue, Home
<1>3. /\ fresh' \subseteq Ops
      /\ arg' \in [Threads -> Ops \cup {NoOp}]
      /\ arg'[t] = f /\ \A s \in Threads \ {t} : arg'[s] = arg[s]
      /\ UNCHANGED <<lock, q, shutdown, derived, derivedShutsDown, op, finished, spurious>>
  BY <1>0 DEF Enqueue, Control, TypeOK, lifeVars, workVars
<1>4. TypeOK'
  BY <1>0, <1>1, <1>2, <1>3, ThreadFacts
     DEF Control, TypeOK, Labels, SelfLabels, ClientLabels
<1>5. LockInv'
  BY <1>0, <1>1, <1>2, <1>3, ThreadFacts DEF Control, LockInv
<1>6. OpInv' /\ ArgInv'
  BY <1>0, <1>1, <1>2, <1>3, ThreadFacts DEF Control, OpInv, ArgInv
<1>7. ClientInv'
  BY <1>0, <1>1, <1>2, <1>3, ThreadFacts DEF Control, ClientInv, Ending
<1>8. ShutdownInv' /\ DerivedInv'
  BY <1>0, <1>1, <1>2, <1>3, ThreadFacts DEF Control, ShutdownInv, DerivedInv
<1>9. NoLostWakeup'
  BY <1>0, <1>1, <1>2, <1>3, ThreadFacts DEF NoLostWakeup
<1> QED BY <1>4, <1>5, <1>6, <1>7, <1>8, <1>9 DEF IInv, Control

\* A push sends its thread home; if it changes the queue it leaves nobody asleep.
LEMMA PushEffect ==
    ASSUME Control, NEW t \in Threads, Push(t)
    PROVE  /\ pc' \in [Threads -> Labels]
           /\ pc[t] = "push" /\ pc'[t] = Home(t)
           /\ \A s \in Threads \ {t} :
                 pc'[s] = pc[s] \/ (s = Self /\ pc[s] = "waiting" /\ pc'[s] = "woken")
           /\ \/ q' = q
              \/ q' = Append(q, arg[t]) /\ pc'[Self] # "waiting"
<1>1. pc[t] = "push" /\ Home(t) \in Labels /\ Home(t) # "waiting"
  BY DEF Push, Home, Labels, SelfLabels, ClientLabels
<1>2. CASE QueueSize = 0
  <2>1. q' = Append(q, arg[t]) /\ NotifyAndGoto(t, Home(t))
    BY <1>2 DEF Push
  <2> QED BY <1>1, <2>1, NotifyEffect DEF Control
<1>3. CASE QueueSize # 0
  <2>1. q' = q /\ Goto(t, Home(t))
    BY <1>3 DEF Push
  <2> QED BY <1>1, <2>1, GotoEffect DEF Control
<1> QED BY <1>2, <1>3

LEMMA PushInv ==
    ASSUME IInv, NEW t \in Threads, Push(t)
    PROVE  IInv'
<1>0. Control /\ NoLostWakeup
  BY DEF IInv
<1>1. /\ pc' \in [Threads -> Labels]
      /\ pc[t] = "push" /\ pc'[t] = Home(t)
      /\ \A s \in Threads \ {t} :
            pc'[s] = pc[s] \/ (s = Self /\ pc[s] = "waiting" /\ pc'[s] = "woken")
      /\ q' = q \/ (q' = Append(q, arg[t]) /\ pc'[Self] # "waiting")
  BY <1>0, PushEffect
<1>2. /\ t = Self => Home(t) = "running"
      /\ t \in Clients => Home(t) = "idle"
  BY ThreadFacts DEF Home
<1>3. /\ lock = t /\ lock' = NoOne
      /\ UNCHANGED <<shutdown, derived, derivedShutsDown, op, fresh, finished, spurious>>
  BY <1>0, <1>1 DEF Push, Control, LockInv, lifeVars, workVars
<1>4. arg[t] \in Ops
  BY <1>0, <1>1 DEF Control, ArgInv
<1>5. q' \in Seq(Ops)
  BY <1>0, <1>1, <1>4 DEF Control, TypeOK
<1>6. /\ arg' \in [Threads -> Ops \cup {NoOp}]
      /\ \A s \in Threads \ {t} : arg'[s] = arg[s]
  BY <1>0 DEF Push, Control, TypeOK
<1>7. TypeOK'
  BY <1>0, <1>1, <1>2, <1>3, <1>5, <1>6, ThreadFacts
     DEF Control, TypeOK, Labels, SelfLabels, ClientLabels
<1>8. LockInv'
  BY <1>0, <1>1, <1>2, <1>3, ThreadFacts DEF Control, LockInv
<1>9. OpInv' /\ ArgInv'
  BY <1>0, <1>1, <1>2, <1>3, <1>6, ThreadFacts DEF Control, OpInv, ArgInv
<1>10. ClientInv'
  BY <1>0, <1>1, <1>2, <1>3, ThreadFacts DEF Control, ClientInv, Ending
<1>11. ShutdownInv' /\ DerivedInv'
  BY <1>0, <1>1, <1>2, <1>3, ThreadFacts DEF Control, ShutdownInv, DerivedInv
<1>12. NoLostWakeup'
  <2>1. CASE q' = q
    <3>1. pc'[Owner] = "notify" <=> pc[Owner] = "notify"
      BY <1>0, <1>1, <1>2, ThreadFacts
    <3>2. pc'[Self] = "waiting" => pc[Self] = "waiting"
      BY <1>1, <1>2, ThreadFacts
    <3> QED BY <1>0, <1>3, <2>1, <3>1, <3>2 DEF NoLostWakeup
  <2>2. CASE pc'[Self] # "waiting"
    BY <2>2 DEF NoLostWakeup
  <2> QED BY <1>1, <2>1, <2>2
<1> QED BY <1>7, <1>8, <1>9, <1>10, <1>11, <1>12 DEF IInv, Control

LEMMA DestroyInv ==
    ASSUME IInv, Destroy
    PROVE  IInv'
<1>0. Control /\ NoLostWakeup
  BY DEF IInv
<1>1. /\ \A c \in Clients : pc[c] = "idle"
      /\ pc'[Self] = pc[Self]
      /\ pc'[Owner] = IF derivedShutsDown THEN "shutdown" ELSE "strip"
      /\ \A c \in Clients \ {Owner} : pc'[c] = "done"
  BY ThreadFacts DEF Destroy
<1>2. pc' \in [Threads -> Labels]
  <2>1. pc \in [Threads -> Labels]
    BY <1>0 DEF Control, TypeOK, Labels
  <2> QED BY <2>1 DEF Destroy, Labels, ClientLabels
<1>3. UNCHANGED <<lock, q, arg, fresh, shutdown, derived, derivedShutsDown, op, finished, spurious>>
  BY DEF Destroy, queueVars, lifeVars, workVars
<1>4. TypeOK'
  BY <1>0, <1>1, <1>2, <1>3, ThreadFacts DEF Control, TypeOK, Labels, ClientLabels
<1>5. LockInv'
  BY <1>0, <1>1, <1>3, ThreadFacts DEF Control, LockInv
<1>6. OpInv' /\ ArgInv'
  BY <1>0, <1>1, <1>3, ThreadFacts DEF Control, OpInv, ArgInv
<1>7. ClientInv'
  BY <1>1, ThreadFacts DEF ClientInv
<1>8. ShutdownInv' /\ DerivedInv'
  BY <1>0, <1>1, <1>3, ThreadFacts DEF Control, ShutdownInv, DerivedInv
<1>9. NoLostWakeup'
  BY <1>0, <1>1, <1>3, ThreadFacts DEF NoLostWakeup, Control, ShutdownInv
<1> QED BY <1>4, <1>5, <1>6, <1>7, <1>8, <1>9 DEF IInv, Control

\* The steps of the two destructors that leave the mutex alone, but for the join.
LEMMA StripBaseInv ==
    ASSUME IInv, Strip \/ Base
    PROVE  IInv'
<1>0. Control /\ NoLostWakeup
  BY DEF IInv
<1>1. /\ pc' \in [Threads -> Labels]
      /\ \/ pc[Owner] = "strip" /\ pc'[Owner] = "base" /\ derived' = FALSE
         \/ /\ pc[Owner] = "base" /\ derived' = derived
            /\ pc'[Owner] = IF shutdown THEN "destroyed" ELSE "shutdown"
      /\ \A s \in Threads \ {Owner} : pc'[s] = pc[s]
  BY <1>0, GotoEffect, ThreadFacts DEF Strip, Base, Control, Labels, ClientLabels, lifeVars
<1>2. UNCHANGED <<lock, q, arg, fresh, shutdown, derivedShutsDown, op, finished, spurious>>
  BY DEF Strip, Base, queueVars, lifeVars, workVars
<1>3. TypeOK'
  BY <1>0, <1>1, <1>2, ThreadFacts DEF Control, TypeOK, Labels, ClientLabels
<1>4. LockInv'
  BY <1>0, <1>1, <1>2, ThreadFacts DEF Control, LockInv
<1>5. OpInv' /\ ArgInv'
  BY <1>0, <1>1, <1>2, ThreadFacts DEF Control, OpInv, ArgInv
<1>6. ClientInv'
  BY <1>0, <1>1, <1>2, ThreadFacts DEF Control, ClientInv, Ending
<1>7. ShutdownInv' /\ DerivedInv'
  BY <1>0, <1>1, <1>2, ThreadFacts DEF Control, ShutdownInv, DerivedInv
<1>8. NoLostWakeup'
  BY <1>0, <1>1, <1>2, ThreadFacts DEF NoLostWakeup
<1> QED BY <1>3, <1>4, <1>5, <1>6, <1>7, <1>8 DEF IInv, Control

LEMMA SetShutdownInv ==
    ASSUME IInv, SetShutdown
    PROVE  IInv'
<1>0. Control /\ NoLostWakeup
  BY DEF IInv
<1>1. /\ pc' \in [Threads -> Labels]
      /\ pc[Owner] = "set" /\ pc'[Owner] = "notify"
      /\ \A s \in Threads \ {Owner} : pc'[s] = pc[s]
  BY <1>0, GotoEffect, ThreadFacts DEF SetShutdown, Control, Labels, ClientLabels
<1>2. /\ lock = Owner /\ lock' = NoOne /\ shutdown' = TRUE
      /\ UNCHANGED <<q, arg, fresh, derived, derivedShutsDown, op, finished, spurious>>
  BY <1>0, <1>1, ThreadFacts DEF SetShutdown, Control, LockInv, queueVars, workVars
<1>3. TypeOK'
  BY <1>0, <1>1, <1>2, ThreadFacts DEF Control, TypeOK, Labels, ClientLabels
<1>4. LockInv'
  BY <1>0, <1>1, <1>2, ThreadFacts DEF Control, LockInv
<1>5. OpInv' /\ ArgInv'
  BY <1>0, <1>1, <1>2, ThreadFacts DEF Control, OpInv, ArgInv
<1>6. ClientInv'
  BY <1>0, <1>1, <1>2, ThreadFacts DEF Control, ClientInv, Ending
<1>7. ShutdownInv' /\ DerivedInv'
  BY <1>0, <1>1, <1>2, ThreadFacts DEF Control, ShutdownInv, DerivedInv
<1>8. NoLostWakeup'
  BY <1>0, <1>1, <1>2, ThreadFacts DEF NoLostWakeup
<1> QED BY <1>3, <1>4, <1>5, <1>6, <1>7, <1>8 DEF IInv, Control

LEMMA NotifyInv ==
    ASSUME IInv, Notify
    PROVE  IInv'
<1>0. Control /\ NoLostWakeup
  BY DEF IInv
<1>1. /\ pc' \in [Threads -> Labels]
      /\ pc[Owner] = "notify" /\ pc'[Owner] = "join" /\ pc'[Self] # "waiting"
      /\ \A s \in Threads \ {Owner} :
            pc'[s] = pc[s] \/ (s = Self /\ pc[s] = "waiting" /\ pc'[s] = "woken")
  BY <1>0, NotifyEffect, ThreadFacts DEF Notify, Control, Labels, ClientLabels
<1>2. UNCHANGED <<lock, q, arg, fresh, shutdown, derived, derivedShutsDown, op, finished, spurious>>
  BY DEF Notify, queueVars, lifeVars, workVars
<1>3. TypeOK'
  BY <1>0, <1>1, <1>2, ThreadFacts DEF Control, TypeOK, Labels, ClientLabels, SelfLabels
<1>4. LockInv'
  BY <1>0, <1>1, <1>2, ThreadFacts DEF Control, LockInv
<1>5. OpInv' /\ ArgInv'
  BY <1>0, <1>1, <1>2, ThreadFacts DEF Control, OpInv, ArgInv
<1>6. ClientInv'
  BY <1>0, <1>1, <1>2, ThreadFacts DEF Control, ClientInv, Ending
<1>7. ShutdownInv' /\ DerivedInv'
  BY <1>0, <1>1, <1>2, ThreadFacts DEF Control, ShutdownInv, DerivedInv
<1>8. NoLostWakeup'
  BY <1>1 DEF NoLostWakeup
<1> QED BY <1>3, <1>4, <1>5, <1>6, <1>7, <1>8 DEF IInv, Control

LEMMA JoinInv ==
    ASSUME IInv, Join
    PROVE  IInv'
<1>0. Control /\ NoLostWakeup
  BY DEF IInv
<1>1. /\ pc' \in [Threads -> Labels]
      /\ pc[Owner] = "join" /\ pc[Self] = "ended"
      /\ pc'[Owner] = IF derived THEN "strip" ELSE "destroyed"
      /\ \A s \in Threads \ {Owner} : pc'[s] = pc[s]
  BY <1>0, GotoEffect, ThreadFacts DEF Join, Control, Labels, ClientLabels
<1>2. UNCHANGED <<lock, q, arg, fresh, shutdown, derived, derivedShutsDown, op, finished, spurious>>
  BY DEF Join, queueVars, lifeVars, workVars
<1>3. TypeOK'
  BY <1>0, <1>1, <1>2, ThreadFacts DEF Control, TypeOK, Labels, ClientLabels
<1>4. LockInv'
  BY <1>0, <1>1, <1>2, ThreadFacts DEF Control, LockInv
<1>5. OpInv' /\ ArgInv'
  BY <1>0, <1>1, <1>2, ThreadFacts DEF Control, OpInv, ArgInv
<1>6. ClientInv'
  BY <1>0, <1>1, <1>2, ThreadFacts DEF Control, ClientInv, Ending
<1>7. ShutdownInv' /\ DerivedInv'
  BY <1>0, <1>1, <1>2, ThreadFacts DEF Control, ShutdownInv, DerivedInv
<1>8. NoLostWakeup'
  BY <1>1, ThreadFacts DEF NoLostWakeup
<1> QED BY <1>3, <1>4, <1>5, <1>6, <1>7, <1>8 DEF IInv, Control

\* The handler gives up the mutex: it sleeps, with nothing to do, or it ends.
LEMMA WaitLeaveInv ==
    ASSUME IInv, Wait \/ Leave
    PROVE  IInv'
<1>0. Control /\ NoLostWakeup
  BY DEF IInv
<1>1. /\ pc' \in [Threads -> Labels]
      /\ pc[Self] = "check"
      /\ \/ pc'[Self] = "waiting" /\ q = <<>> /\ ~shutdown
         \/ pc'[Self] = "ended"
      /\ \A s \in Threads \ {Self} : pc'[s] = pc[s]
  BY <1>0, GotoEffect, ThreadFacts DEF Wait, Leave, Control, Labels, SelfLabels
<1>2. /\ lock = Self /\ lock' = NoOne
      /\ UNCHANGED <<q, arg, fresh, shutdown, derived, derivedShutsDown, op, finished, spurious>>
  BY <1>0, <1>1, ThreadFacts
     DEF Wait, Leave, Control, LockInv, queueVars, lifeVars, workVars
<1>3. TypeOK'
  BY <1>0, <1>1, <1>2, ThreadFacts DEF Control, TypeOK, Labels, SelfLabels
<1>4. LockInv'
  BY <1>0, <1>1, <1>2, ThreadFacts DEF Control, LockInv
<1>5. OpInv' /\ ArgInv'
  BY <1>0, <1>1, <1>2, ThreadFacts DEF Control, OpInv, ArgInv
<1>6. ClientInv'
  BY <1>0, <1>1, <1>2, ThreadFacts DEF Control, ClientInv, Ending
<1>7. ShutdownInv' /\ DerivedInv'
  BY <1>0, <1>1, <1>2, ThreadFacts DEF Control, ShutdownInv, DerivedInv
<1>8. NoLostWakeup'
  BY <1>1, <1>2 DEF NoLostWakeup
<1> QED BY <1>3, <1>4, <1>5, <1>6, <1>7, <1>8 DEF IInv, Control

LEMMA SpuriousInv ==
    ASSUME IInv, SpuriousWakeup
    PROVE  IInv'
<1>0. Control /\ NoLostWakeup
  BY DEF IInv
<1>1. /\ pc' \in [Threads -> Labels]
      /\ pc[Self] = "waiting" /\ pc'[Self] = "woken"
      /\ \A s \in Threads \ {Self} : pc'[s] = pc[s]
  BY <1>0, GotoEffect, ThreadFacts DEF SpuriousWakeup, Control, Labels, SelfLabels
<1>2. UNCHANGED <<lock, q, arg, fresh, shutdown, derived, derivedShutsDown, op, finished>>
  BY DEF SpuriousWakeup, queueVars, lifeVars, workVars
<1>3. spurious' \in 0 .. MaxSpurious
  BY <1>0, SizesAssumption DEF SpuriousWakeup, Control, TypeOK
<1>4. TypeOK'
  BY <1>0, <1>1, <1>2, <1>3, ThreadFacts DEF Control, TypeOK, Labels, SelfLabels
<1>5. LockInv'
  BY <1>0, <1>1, <1>2, ThreadFacts DEF Control, LockInv
<1>6. OpInv' /\ ArgInv'
  BY <1>0, <1>1, <1>2, ThreadFacts DEF Control, OpInv, ArgInv
<1>7. ClientInv'
  BY <1>0, <1>1, <1>2, ThreadFacts DEF Control, ClientInv, Ending
<1>8. ShutdownInv' /\ DerivedInv'
  BY <1>0, <1>1, <1>2, ThreadFacts DEF Control, ShutdownInv, DerivedInv
<1>9. NoLostWakeup'
  BY <1>1 DEF NoLostWakeup
<1> QED BY <1>4, <1>5, <1>6, <1>7, <1>8, <1>9 DEF IInv, Control

LEMMA TakeInv ==
    ASSUME IInv, Take
    PROVE  IInv'
<1>0. Control /\ NoLostWakeup
  BY DEF IInv
<1>1. /\ pc' \in [Threads -> Labels]
      /\ pc[Self] = "check" /\ pc'[Self] = "running"
      /\ \A s \in Threads \ {Self} : pc'[s] = pc[s]
  BY <1>0, GotoEffect, ThreadFacts DEF Take, Control, Labels, SelfLabels
<1>2. /\ lock = Self /\ lock' = NoOne /\ ~shutdown
      /\ UNCHANGED <<arg, fresh, shutdown, derived, derivedShutsDown, finished, spurious>>
  BY <1>0, <1>1, ThreadFacts DEF Take, Control, LockInv, lifeVars
<1>3. q' \in Seq(Ops) /\ op' \in Ops
  BY <1>0, HeadTailProperties DEF Take, Control, TypeOK
<1>4. TypeOK'
  BY <1>0, <1>1, <1>2, <1>3, ThreadFacts DEF Control, TypeOK, Labels, SelfLabels
<1>5. LockInv'
  BY <1>0, <1>1, <1>2, ThreadFacts DEF Control, LockInv
<1>6. OpInv' /\ ArgInv'
  BY <1>0, <1>1, <1>2, <1>3, OpsAssumption, ThreadFacts DEF Control, OpInv, ArgInv
<1>7. ClientInv'
  BY <1>0, <1>1, <1>2, ThreadFacts DEF Control, ClientInv, Ending
<1>8. ShutdownInv' /\ DerivedInv'
  BY <1>0, <1>1, <1>2, ThreadFacts DEF Control, ShutdownInv, DerivedInv
<1>9. NoLostWakeup'
  BY <1>1 DEF NoLostWakeup
<1> QED BY <1>4, <1>5, <1>6, <1>7, <1>8, <1>9 DEF IInv, Control

LEMMA FinishInv ==
    ASSUME IInv, Finish
    PROVE  IInv'
<1>0. Control /\ NoLostWakeup
  BY DEF IInv
<1>1. /\ pc' \in [Threads -> Labels]
      /\ pc[Self] = "running" /\ pc'[Self] = "relock"
      /\ \A s \in Threads \ {Self} : pc'[s] = pc[s]
  BY <1>0, GotoEffect, ThreadFacts DEF Finish, Control, Labels, SelfLabels
<1>2. /\ op' = NoOp
      /\ UNCHANGED <<lock, q, arg, fresh, shutdown, derived, derivedShutsDown, spurious>>
  BY DEF Finish, queueVars, lifeVars
<1>3. finished' \subseteq Ops
  BY <1>0, <1>1 DEF Finish, Control, TypeOK, OpInv
<1>4. TypeOK'
  BY <1>0, <1>1, <1>2, <1>3, ThreadFacts DEF Control, TypeOK, Labels, SelfLabels
<1>5. LockInv'
  BY <1>0, <1>1, <1>2, ThreadFacts DEF Control, LockInv
<1>6. OpInv' /\ ArgInv'
  BY <1>0, <1>1, <1>2, ThreadFacts DEF Control, OpInv, ArgInv
<1>7. ClientInv'
  BY <1>0, <1>1, <1>2, ThreadFacts DEF Control, ClientInv, Ending
<1>8. ShutdownInv' /\ DerivedInv'
  BY <1>0, <1>1, <1>2, ThreadFacts DEF Control, ShutdownInv, DerivedInv
<1>9. NoLostWakeup'
  BY <1>1 DEF NoLostWakeup
<1> QED BY <1>4, <1>5, <1>6, <1>7, <1>8, <1>9 DEF IInv, Control

LEMMA StepInv == IInv /\ [Next]_vars => IInv'
<1> SUFFICES ASSUME IInv, [Next]_vars PROVE IInv'
  OBVIOUS
<1>1. CASE UNCHANGED vars
  BY <1>1 DEF vars, queueVars, lifeVars, workVars, IInv, Control, TypeOK, LockInv, OpInv,
              ArgInv, ClientInv, ShutdownInv, DerivedInv, NoLostWakeup
<1> QED
  BY <1>1, AcquireInv, EnqueueInv, PushInv, DestroyInv, StripBaseInv, SetShutdownInv,
     NotifyInv, JoinInv, WaitLeaveInv, SpuriousInv, TakeInv, FinishInv
     DEF Next, Step, Over

-----------------------------------------------------------------------------

\* The inductive invariant holds in every reachable state.
THEOREM InductiveInvariant == Spec => []IInv
BY InitInv, StepInv, PTL DEF Spec

\* Every variable keeps its type (active_object.hpp:60-183).
THEOREM TypeCorrect == Spec => []TypeOK
<1>1. IInv => TypeOK
  BY DEF IInv, Control
<1> QED BY <1>1, InductiveInvariant, PTL

\* With any number of clients and elements and any queue size, the thread never
\* sleeps through an element or through shutdown_ (active_object.hpp:89-183).
THEOREM WakeupsKept == Spec => []NoLostWakeup
<1>1. IInv => NoLostWakeup
  BY DEF IInv
<1> QED BY <1>1, InductiveInvariant, PTL

\* If the derived destructor calls shutdown, process_ is never called on, or
\* left running in, an object whose derived part is gone (active_object.hpp:71-100).
THEOREM ProcessSafe == Spec => []ProcessOnWholeObject
<1>1. ASSUME IInv PROVE ProcessOnWholeObject
  <2> SUFFICES ASSUME derivedShutsDown, ~derived PROVE op = NoOp
    BY DEF ProcessOnWholeObject
  <2>1. pc[Owner] \in {"base", "destroyed"} /\ shutdown
    BY <1>1 DEF IInv, Control, DerivedInv
  <2>2. pc[Self] = "ended"
    BY <1>1, <2>1 DEF IInv, Control, ShutdownInv
  <2> QED BY <1>1, <2>2 DEF IInv, Control, OpInv
<1> QED BY <1>1, InductiveInvariant, PTL

-----------------------------------------------------------------------------
(* The refinement.                                                         *)

LEMMA InitMaps == Init => Worker!Init
<1> SUFFICES ASSUME Init PROVE Worker!Init
  OBVIOUS
<1>1. pc[Owner] = "idle" /\ ~shutdown
  BY ThreadFacts DEF Init
<1> QED BY <1>1 DEF Init, Worker!Init, Phase

\* Steps that change neither queue nor what is running, nor pass a phase.
LEMMA AloofMaps ==
    ASSUME UNCHANGED <<q, op, finished, shutdown>>,
           pc'[Owner] = "destroyed" <=> pc[Owner] = "destroyed"
    PROVE  UNCHANGED Worker!vars
BY DEF Worker!vars, Phase

\* An element is submitted when it is pushed, and a bounded queue takes none;
\* the object still exists either way.
LEMMA PushMaps ==
    ASSUME IInv, NEW t \in Threads, Push(t)
    PROVE  [Worker!Next]_(Worker!vars)
<1>1. /\ pc[t] = "push" /\ pc'[t] = Home(t)
      /\ \A s \in Threads \ {t} : pc'[s] = pc[s] \/ s = Self
      /\ q' = q \/ q' = Append(q, arg[t])
  BY PushEffect DEF IInv
<1>2. arg[t] \in Ops
  BY <1>1 DEF IInv, Control, ArgInv
<1>3. UNCHANGED <<op, finished, shutdown>>
  BY DEF Push, workVars, lifeVars
<1>4. pc[Owner] # "destroyed"
  <2>1. CASE t = Self
    BY <1>1, <2>1 DEF IInv, Control, ShutdownInv
  <2>2. CASE t \in Clients
    BY <1>1, <2>2 DEF IInv, Control, ClientInv, Ending
  <2> QED BY <2>1, <2>2, ThreadFacts
<1>5. pc'[Owner] # "destroyed"
  <2>1. Home(t) # "destroyed"
    BY DEF Home
  <2> QED BY <1>1, <1>4, <2>1, ThreadFacts
<1>6. CASE q' = q
  BY <1>3, <1>4, <1>5, <1>6, AloofMaps
<1>7. CASE q' = Append(q, arg[t])
  <2>1. Phase' = Phase /\ Phase # "gone"
    BY <1>3, <1>4, <1>5 DEF Phase
  <2>2. Worker!Submit(arg[t])
    BY <1>3, <1>7, <2>1 DEF Worker!Submit
  <2> QED BY <1>2, <2>2 DEF Worker!Next
<1> QED BY <1>1, <1>6, <1>7

LEMMA TakeMaps ==
    ASSUME IInv, Take
    PROVE  Worker!Next
<1>1. pc[Self] = "check" /\ pc'[Owner] = pc[Owner] /\ ~shutdown /\ q # <<>>
  BY GotoEffect, ThreadFacts DEF Take, IInv, Control, Labels, SelfLabels
<1>2. op = NoOp
  BY <1>1 DEF IInv, Control, OpInv
<1>3. Phase = "open" /\ Phase' = Phase
  BY <1>1 DEF IInv, Control, ShutdownInv, Phase, Take, lifeVars
<1>4. Worker!Start(Self)
  BY <1>1, <1>2, <1>3 DEF Worker!Start, Take
<1> QED BY <1>4 DEF Worker!Next

LEMMA FinishMaps ==
    ASSUME IInv, Finish
    PROVE  Worker!Next
<1>1. pc[Self] = "running" /\ pc'[Owner] = pc[Owner]
  BY GotoEffect, ThreadFacts DEF Finish, IInv, Control, Labels, SelfLabels
<1>2. op # NoOp
  BY <1>1 DEF IInv, Control, OpInv
<1>3. Phase' = Phase
  BY <1>1 DEF Phase, Finish, lifeVars
<1>4. Worker!Finish(Self)
  BY <1>2, <1>3 DEF Worker!Finish, Finish, queueVars
<1> QED BY <1>4 DEF Worker!Next

LEMMA SetShutdownMaps ==
    ASSUME IInv, SetShutdown
    PROVE  Worker!Next
<1>1. pc[Owner] = "set" /\ pc'[Owner] = "notify" /\ shutdown'
  BY GotoEffect, ThreadFacts DEF SetShutdown, IInv, Control, Labels, ClientLabels
<1>2. ~shutdown
  BY <1>1 DEF IInv, Control, ShutdownInv
<1>3. Phase = "open" /\ Phase' = "closing"
  BY <1>1, <1>2 DEF Phase
<1>4. Worker!Close
  BY <1>3 DEF Worker!Close, SetShutdown, queueVars, workVars
<1> QED BY <1>4 DEF Worker!Next

\* The destructor of the base returns: after its own join, or at once if the
\* derived destructor has joined the thread.
LEMMA DestroyedMaps ==
    ASSUME IInv, Base \/ Join, pc'[Owner] = "destroyed"
    PROVE  Worker!Next
<1>1. /\ pc[Owner] # "destroyed" /\ shutdown /\ pc[Self] = "ended"
      /\ UNCHANGED <<q, op, finished, shutdown>>
  <2>1. CASE Base
    <3>1. pc[Owner] = "base" /\ pc'[Owner] = IF shutdown THEN "destroyed" ELSE "shutdown"
      BY <2>1, GotoEffect, ThreadFacts DEF Base, IInv, Control, Labels, ClientLabels
    <3>2. shutdown
      BY <3>1
    <3> QED BY <2>1, <3>1, <3>2
            DEF Base, IInv, Control, ShutdownInv, queueVars, lifeVars, workVars
  <2>2. CASE Join
    BY <2>2 DEF Join, IInv, Control, ShutdownInv, queueVars, lifeVars, workVars
  <2> QED BY <2>1, <2>2
<1>2. op = NoOp
  BY <1>1 DEF IInv, Control, OpInv
<1>3. Phase = "closing" /\ Phase' = "gone"
  BY <1>1 DEF Phase
<1>4. Worker!Vanish
  BY <1>1, <1>2, <1>3 DEF Worker!Vanish
<1> QED BY <1>4 DEF Worker!Next

LEMMA StepMaps == IInv /\ [Next]_vars => [Worker!Next]_(Worker!vars)
<1> SUFFICES ASSUME IInv, [Next]_vars PROVE [Worker!Next]_(Worker!vars)
  OBVIOUS
<1>0. Control
  BY DEF IInv
<1>1. ASSUME NEW t \in Threads, Acquire(t) PROVE UNCHANGED Worker!vars
  <2>1. pc'[Owner] = "destroyed" <=> pc[Owner] = "destroyed"
    BY <1>0, <1>1, AcquireEffect, ThreadFacts
  <2> QED BY <1>1, <2>1, AloofMaps DEF Acquire, queueVars, lifeVars, workVars
<1>2. ASSUME NEW t \in Threads, NEW f \in Ops, Enqueue(t, f)
      PROVE  UNCHANGED Worker!vars
  <2>1. pc[t] \in {"running", "idle"} /\ pc'[t] = "enqueue"
        /\ \A s \in Threads \ {t} : pc'[s] = pc[s]
    BY <1>0, <1>2, GotoEffect DEF Enqueue, Home, Control, Labels, SelfLabels
  <2>2. pc'[Owner] = "destroyed" <=> pc[Owner] = "destroyed"
    BY <2>1, ThreadFacts
  <2> QED BY <1>2, <2>2, AloofMaps DEF Enqueue, lifeVars, workVars
<1>3. ASSUME Destroy PROVE UNCHANGED Worker!vars
  <2>1. pc[Owner] = "idle" /\ pc'[Owner] \in {"shutdown", "strip"}
    BY <1>3, ThreadFacts DEF Destroy
  <2> QED BY <1>3, <2>1, AloofMaps DEF Destroy, queueVars, lifeVars, workVars
<1>4. ASSUME Strip PROVE UNCHANGED Worker!vars
  <2>1. pc[Owner] = "strip" /\ pc'[Owner] = "base"
    BY <1>0, <1>4, GotoEffect, ThreadFacts DEF Strip, Control, Labels, ClientLabels
  <2> QED BY <1>4, <2>1, AloofMaps DEF Strip, queueVars, workVars
<1>5. ASSUME Base \/ Join PROVE [Worker!Next]_(Worker!vars)
  <2>1. CASE pc'[Owner] = "destroyed"
    BY <1>5, <2>1, DestroyedMaps
  <2>2. CASE pc'[Owner] # "destroyed"
    <3>1. pc[Owner] # "destroyed"
      BY <1>5 DEF Base, Join
    <3> QED BY <1>5, <2>2, <3>1, AloofMaps DEF Base, Join, queueVars, lifeVars, workVars
  <2> QED BY <2>1, <2>2
<1>6. ASSUME Notify PROVE UNCHANGED Worker!vars
  <2>1. pc[Owner] = "notify" /\ pc'[Owner] = "join"
    BY <1>0, <1>6, NotifyEffect, ThreadFacts DEF Notify, Control, Labels, ClientLabels
  <2> QED BY <1>6, <2>1, AloofMaps DEF Notify, queueVars, lifeVars, workVars
<1>7. ASSUME Wait \/ SpuriousWakeup \/ Leave PROVE UNCHANGED Worker!vars
  <2>1. PICK l \in {"waiting", "woken", "ended"} : Goto(Self, l)
    BY <1>7 DEF Wait, SpuriousWakeup, Leave
  <2>2. pc'[Owner] = pc[Owner]
    BY <1>0, <2>1, GotoEffect, ThreadFacts DEF Control, Labels, SelfLabels
  <2> QED BY <1>7, <2>2, AloofMaps
          DEF Wait, SpuriousWakeup, Leave, queueVars, lifeVars, workVars
<1>8. CASE UNCHANGED vars
  BY <1>8, AloofMaps DEF vars, queueVars, lifeVars, workVars
<1> QED
  BY <1>1, <1>2, <1>3, <1>4, <1>5, <1>6, <1>7, <1>8, PushMaps, TakeMaps, FinishMaps,
     SetShutdownMaps
     DEF Next, Step, Over

\* The active object is an executor with one worker, for any number of clients
\* and elements, any queue size and either way of shutting down: elements are
\* processed in the order they were queued, each once, none taken once shutdown_
\* is set, and none running when the base destructor returns.
THEOREM Refinement == Spec => ImplementsExecutor
<1>1. Spec => Worker!Init /\ [][Worker!Next]_(Worker!vars)
  BY InitMaps, StepMaps, InductiveInvariant, PTL DEF Spec
<1> QED BY <1>1 DEF ImplementsExecutor, Worker!Spec

====

---- MODULE DispatchQueue_proofs ----
(***************************************************************************)
(* The dispatch queue implements the executor and loses no wake-up, for    *)
(* every set of threads and operations.                                    *)
(***************************************************************************)
EXTENDS DispatchQueue, FiniteSetTheorems, SequenceTheorems, TLAPS

\* The critical sections: the thread that is inside one holds the mutex.
LockInv ==
    \A t \in Threads : pc[t] \in {"check", "push", "quit"} <=> lock = t

\* A worker holds an operation exactly while it runs it, dispatching included.
OpInv ==
    \A w \in Workers : op[w] # NoOp <=> pc[w] \in {"running", "dispatch", "push"}

ArgInv ==
    \A t \in Threads : pc[t] \in {"dispatch", "push"} => arg[t] \in Ops

\* quit_ is set by the destructor alone, which waits for every worker to end.
QuitInv ==
    /\ quit <=> pc[Owner] \in {"join", "destroyed"}
    /\ pc[Owner] = "destroyed" => \A w \in Workers : pc[w] = "ended"

\* Nobody else uses the queue while the owner constructs or destroys it.
OwnerInv ==
    /\ pc[Owner] # "done"
    /\ \A p \in Producers \ {Owner} :
          /\ pc[p] \in {"idle", "dispatch", "push", "done"}
          /\ pc[Owner] \in {"destroy", "quit", "join", "destroyed"} => pc[p] = "done"

Control == TypeOK /\ LockInv /\ OpInv /\ ArgInv /\ QuitInv /\ OwnerInv

IInv == Control /\ NoLostWakeup

Labels == WorkerLabels \cup ProducerLabels

-----------------------------------------------------------------------------

LEMMA ThreadFacts ==
    /\ Owner \in Threads /\ Owner \in Producers /\ Owner \notin Workers
    /\ \A w \in Workers : w \in Threads /\ w \notin Producers /\ w # Owner
    /\ \A p \in Producers : p \in Threads /\ p \notin Workers
    /\ \A t \in Threads : t # NoOne
    /\ Threads = Workers \cup Producers
BY ThreadsAssumption DEF Threads

\* What a jump does to the labels.
LEMMA GotoEffect ==
    ASSUME TypeOK, NEW t \in Threads, NEW l \in Labels, Goto(t, l)
    PROVE  /\ pc' \in [Threads -> Labels]
           /\ pc'[t] = l
           /\ \A s \in Threads \ {t} : pc'[s] = pc[s]
BY DEF Goto, TypeOK, Labels

LEMMA InitInv == Init => IInv
<1> SUFFICES ASSUME Init PROVE IInv
  OBVIOUS
<1>1. /\ pc \in [Threads -> Labels]
      /\ pc[Owner] = "constructing"
      /\ \A w \in Workers : pc[w] = "unborn"
      /\ \A p \in Producers \ {Owner} : pc[p] = "idle"
  BY ThreadFacts DEF Init, Labels, WorkerLabels, ProducerLabels
<1>2. TypeOK
  <2>1. q \in Seq(Ops)
    BY DEF Init
  <2>2. op \in [Workers -> Ops \cup {NoOp}] /\ arg \in [Threads -> Ops \cup {NoOp}]
    BY DEF Init
  <2>3. spurious \in 0 .. MaxSpurious
    BY BoundAssumption DEF Init
  <2>4. \A p \in Producers : pc[p] \in ProducerLabels
    BY <1>1 DEF ProducerLabels
  <2>5. \A w \in Workers : pc[w] \in WorkerLabels
    BY <1>1 DEF WorkerLabels
  <2> QED BY <1>1, <2>1, <2>2, <2>3, <2>4, <2>5 DEF TypeOK, Init, Labels
<1>3. \A t \in Threads : pc[t] \in {"constructing", "unborn", "idle"}
  BY <1>1, ThreadFacts
<1>4. LockInv
  BY <1>3, ThreadFacts DEF Init, LockInv
<1>5. OpInv /\ ArgInv
  BY <1>1, <1>3 DEF Init, OpInv, ArgInv
<1>6. QuitInv /\ OwnerInv
  BY <1>1 DEF Init, QuitInv, OwnerInv
<1>7. NoLostWakeup
  BY <1>1 DEF NoLostWakeup, Waiting
<1> QED BY <1>2, <1>4, <1>5, <1>6, <1>7 DEF IInv, Control

-----------------------------------------------------------------------------
(* Control: types, the mutex, and who is where.                            *)

LEMMA SpawnControl ==
    ASSUME Control, NEW w \in Workers, Spawn(w)
    PROVE  Control'
<1>1. /\ pc' \in [Threads -> Labels]
      /\ pc[w] = "unborn" /\ pc'[w] = "start"
      /\ \A s \in Threads \ {w} : pc'[s] = pc[s]
  BY GotoEffect, ThreadFacts DEF Spawn, Control, Labels, WorkerLabels
<1>2. UNCHANGED <<lock, q, quit, op, arg, fresh, finished, spurious>>
  BY DEF Spawn
<1>3. TypeOK'
  BY <1>1, <1>2, ThreadFacts DEF Control, TypeOK, Labels, WorkerLabels
<1>4. LockInv' /\ OpInv' /\ ArgInv'
  BY <1>1, <1>2, ThreadFacts DEF Control, LockInv, OpInv, ArgInv
<1>5. QuitInv' /\ OwnerInv'
  BY <1>1, <1>2, ThreadFacts DEF Control, QuitInv, OwnerInv
<1> QED BY <1>3, <1>4, <1>5 DEF Control

LEMMA ConstructedControl ==
    ASSUME Control, Constructed
    PROVE  Control'
<1>1. /\ pc' \in [Threads -> Labels]
      /\ pc[Owner] = "constructing" /\ pc'[Owner] = "idle"
      /\ \A s \in Threads \ {Owner} : pc'[s] = pc[s]
  BY GotoEffect, ThreadFacts DEF Constructed, Control, Labels, ProducerLabels
<1>2. UNCHANGED <<lock, q, quit, op, arg, fresh, finished, spurious>>
  BY DEF Constructed
<1>3. TypeOK'
  BY <1>1, <1>2, ThreadFacts DEF Control, TypeOK, Labels, ProducerLabels
<1>4. LockInv' /\ OpInv' /\ ArgInv'
  BY <1>1, <1>2, ThreadFacts DEF Control, LockInv, OpInv, ArgInv
<1>5. QuitInv' /\ OwnerInv'
  BY <1>1, <1>2, ThreadFacts DEF Control, QuitInv, OwnerInv
<1> QED BY <1>3, <1>4, <1>5 DEF Control

\* The jump of a thread that takes the mutex.
LEMMA AcquireEffect ==
    ASSUME Control, NEW t \in Threads, Acquire(t)
    PROVE  /\ pc' \in [Threads -> Labels]
           /\ \A s \in Threads \ {t} : pc'[s] = pc[s]
           /\ \/ t \in Workers /\ pc[t] \in {"start", "woken", "relock"}
                 /\ pc'[t] = "check"
              \/ pc[t] = "dispatch" /\ pc'[t] = "push"
              \/ t = Owner /\ pc[t] = "destroy" /\ pc'[t] = "quit"
<1>1. pc[t] \in Wanting /\ Goto(t, Inside(pc[t]))
  BY DEF Acquire
<1>2. CASE pc[t] \in {"start", "woken", "relock"}
  <2>1. t \in Workers
    BY <1>2, ThreadFacts DEF Control, TypeOK, ProducerLabels
  <2>2. Goto(t, "check")
    BY <1>1, <1>2 DEF Inside
  <2> QED BY <1>2, <2>1, <2>2, GotoEffect DEF Control, Labels, WorkerLabels
<1>3. CASE pc[t] = "dispatch"
  <2>1. Goto(t, "push")
    BY <1>1, <1>3 DEF Inside
  <2> QED BY <1>3, <2>1, GotoEffect DEF Control, Labels, WorkerLabels
<1>4. CASE pc[t] = "destroy"
  <2>1. t = Owner
    BY <1>4, ThreadFacts DEF Control, TypeOK, WorkerLabels, OwnerInv
  <2>2. Goto(t, "quit")
    BY <1>1, <1>4 DEF Inside
  <2> QED BY <1>4, <2>1, <2>2, GotoEffect DEF Control, Labels, ProducerLabels
<1> QED BY <1>1, <1>2, <1>3, <1>4 DEF Wanting

LEMMA AcquireControl ==
    ASSUME Control, NEW t \in Threads, Acquire(t)
    PROVE  Control'
<1>1. /\ pc' \in [Threads -> Labels]
      /\ \A s \in Threads \ {t} : pc'[s] = pc[s]
      /\ \/ t \in Workers /\ pc[t] \in {"start", "woken", "relock"} /\ pc'[t] = "check"
         \/ pc[t] = "dispatch" /\ pc'[t] = "push"
         \/ t = Owner /\ pc[t] = "destroy" /\ pc'[t] = "quit"
  BY AcquireEffect
<1>2. /\ lock = NoOne /\ lock' = t
      /\ UNCHANGED <<q, quit, op, arg, fresh, finished, spurious>>
  BY DEF Acquire
<1>3. TypeOK'
  BY <1>1, <1>2, ThreadFacts DEF Control, TypeOK, Labels, WorkerLabels, ProducerLabels
<1>4. LockInv'
  BY <1>1, <1>2, ThreadFacts DEF Control, LockInv
<1>5. OpInv' /\ ArgInv'
  BY <1>1, <1>2, ThreadFacts DEF Control, OpInv, ArgInv
<1>6. QuitInv' /\ OwnerInv'
  BY <1>1, <1>2, ThreadFacts DEF Control, QuitInv, OwnerInv
<1> QED BY <1>3, <1>4, <1>5, <1>6 DEF Control

LEMMA DispatchControl ==
    ASSUME Control, NEW t \in Threads, NEW f \in Ops, Dispatch(t, f)
    PROVE  Control'
<1>1. /\ pc' \in [Threads -> Labels]
      /\ pc'[t] = "dispatch"
      /\ \A s \in Threads \ {t} : pc'[s] = pc[s]
  BY GotoEffect DEF Dispatch, Control, Labels, WorkerLabels
<1>2. \/ t \in Workers /\ pc[t] = "running"
      \/ t \in Producers /\ pc[t] = "idle"
  BY ThreadFacts DEF Dispatch, Home
<1>3. /\ fresh' \subseteq Ops
      /\ arg' \in [Threads -> Ops \cup {NoOp}]
      /\ arg'[t] = f /\ \A s \in Threads \ {t} : arg'[s] = arg[s]
      /\ UNCHANGED <<lock, q, quit, op, finished, spurious>>
  BY DEF Dispatch, Control, TypeOK
<1>4. TypeOK'
  BY <1>1, <1>2, <1>3, ThreadFacts DEF Control, TypeOK, Labels, WorkerLabels, ProducerLabels
<1>5. LockInv' /\ OpInv' /\ ArgInv'
  BY <1>1, <1>2, <1>3, ThreadFacts DEF Control, LockInv, OpInv, ArgInv
<1>6. QuitInv' /\ OwnerInv'
  BY <1>1, <1>2, <1>3, ThreadFacts DEF Control, QuitInv, OwnerInv
<1> QED BY <1>4, <1>5, <1>6 DEF Control

\* A push sends its thread home and wakes at most one sleeper.
LEMMA PushEffect ==
    ASSUME Control, NEW t \in Threads, Push(t)
    PROVE  /\ pc' \in [Threads -> Labels]
           /\ pc'[t] = Home(t)
           /\ \/ Waiting = {} /\ \A s \in Threads \ {t} : pc'[s] = pc[s]
              \/ \E w \in Workers \ {t} :
                    /\ pc[w] = "waiting" /\ pc'[w] = "woken"
                    /\ \A s \in Threads \ {t, w} : pc'[s] = pc[s]
<1>1. Home(t) \in Labels /\ "woken" \in Labels /\ pc[t] = "push"
  BY DEF Home, Labels, WorkerLabels, ProducerLabels, Push
<1>2. CASE Waiting = {} /\ Goto(t, Home(t))
  BY <1>1, <1>2, GotoEffect DEF Control
<1>3. ASSUME NEW w \in Waiting, pc' = [pc EXCEPT ![t] = Home(t), ![w] = "woken"]
      PROVE  /\ pc' \in [Threads -> Labels]
             /\ w \in Workers \ {t} /\ pc[w] = "waiting"
             /\ pc'[t] = Home(t) /\ pc'[w] = "woken"
             /\ \A s \in Threads \ {t, w} : pc'[s] = pc[s]
  <2>1. w \in Workers /\ pc[w] = "waiting" /\ w # t /\ w \in Threads
    BY <1>1, <1>3, ThreadFacts DEF Waiting
  <2>2. pc \in [Threads -> Labels]
    BY DEF Control, TypeOK, Labels
  <2> QED BY <1>1, <1>3, <2>1, <2>2
<1> QED BY <1>2, <1>3 DEF Push

LEMMA PushControl ==
    ASSUME Control, NEW t \in Threads, Push(t)
    PROVE  Control'
<1>1. /\ pc' \in [Threads -> Labels]
      /\ pc[t] = "push" /\ pc'[t] = Home(t)
      /\ \A s \in Threads \ {t} :
            pc'[s] = pc[s] \/ (s \in Workers /\ pc[s] = "waiting" /\ pc'[s] = "woken")
  BY PushEffect DEF Push
<1>2. /\ t \in Workers => Home(t) = "running"
      /\ t \in Producers => Home(t) = "idle"
  BY ThreadFacts DEF Home
<1>3. lock = t /\ lock' = NoOne /\ UNCHANGED <<quit, op, fresh, finished, spurious>>
  BY <1>1 DEF Push, Control, LockInv
<1>4. arg[t] \in Ops
  BY <1>1 DEF Control, ArgInv
<1>5. q' \in Seq(Ops)
  BY <1>4 DEF Push, Control, TypeOK
<1>6. /\ arg' \in [Threads -> Ops \cup {NoOp}]
      /\ \A s \in Threads \ {t} : arg'[s] = arg[s]
  BY DEF Push, Control, TypeOK
<1>7. TypeOK'
  BY <1>1, <1>2, <1>3, <1>5, <1>6, ThreadFacts
     DEF Control, TypeOK, Labels, WorkerLabels, ProducerLabels
<1>8. LockInv'
  BY <1>1, <1>2, <1>3, ThreadFacts DEF Control, LockInv
<1>9. OpInv' /\ ArgInv'
  BY <1>1, <1>2, <1>3, <1>6, ThreadFacts DEF Control, OpInv, ArgInv
<1>10. QuitInv' /\ OwnerInv'
  BY <1>1, <1>2, <1>3, ThreadFacts DEF Control, QuitInv, OwnerInv
<1> QED BY <1>7, <1>8, <1>9, <1>10 DEF Control

LEMMA DestroyControl ==
    ASSUME Control, Destroy
    PROVE  Control'
<1>1. /\ \A p \in Producers : pc[p] = "idle"
      /\ pc'[Owner] = "destroy"
      /\ \A p \in Producers \ {Owner} : pc'[p] = "done"
      /\ \A w \in Workers : pc'[w] = pc[w]
  BY ThreadFacts DEF Destroy
<1>2. pc' \in [Threads -> Labels]
  <2>1. pc \in [Threads -> Labels]
    BY DEF Control, TypeOK, Labels
  <2> QED BY <2>1 DEF Destroy, Labels, ProducerLabels
<1>3. UNCHANGED <<lock, q, quit, op, arg, fresh, finished, spurious>>
  BY DEF Destroy
<1>4. TypeOK'
  BY <1>1, <1>2, <1>3, ThreadFacts DEF Control, TypeOK, Labels, ProducerLabels
<1>5. LockInv' /\ OpInv' /\ ArgInv'
  BY <1>1, <1>3, ThreadFacts DEF Control, LockInv, OpInv, ArgInv
<1>6. QuitInv' /\ OwnerInv'
  BY <1>1, <1>3, ThreadFacts DEF Control, QuitInv, OwnerInv
<1> QED BY <1>4, <1>5, <1>6 DEF Control

LEMMA QuitControl ==
    ASSUME Control, Quit
    PROVE  Control'
<1>1. /\ pc[Owner] = "quit" /\ pc'[Owner] = "join"
      /\ \A s \in Threads \ {Owner} :
            pc'[s] = pc[s] \/ (s \in Workers /\ pc[s] = "waiting" /\ pc'[s] = "woken")
  BY ThreadFacts DEF Quit, Waiting
<1>2. pc' \in [Threads -> Labels]
  <2>1. pc \in [Threads -> Labels]
    BY DEF Control, TypeOK, Labels
  <2> QED BY <2>1 DEF Quit, Labels, ProducerLabels, WorkerLabels
<1>3. /\ lock = Owner /\ lock' = NoOne /\ quit' = TRUE
      /\ UNCHANGED <<q, op, arg, fresh, finished, spurious>>
  BY <1>1, ThreadFacts DEF Quit, Control, LockInv
<1>4. TypeOK'
  BY <1>1, <1>2, <1>3, ThreadFacts
     DEF Control, TypeOK, Labels, WorkerLabels, ProducerLabels
<1>5. LockInv' /\ OpInv' /\ ArgInv'
  BY <1>1, <1>3, ThreadFacts DEF Control, LockInv, OpInv, ArgInv
<1>6. QuitInv' /\ OwnerInv'
  BY <1>1, <1>3, ThreadFacts DEF Control, QuitInv, OwnerInv
<1> QED BY <1>4, <1>5, <1>6 DEF Control

LEMMA JoinControl ==
    ASSUME Control, Join
    PROVE  Control'
<1>1. /\ pc' \in [Threads -> Labels]
      /\ pc[Owner] = "join" /\ pc'[Owner] = "destroyed"
      /\ \A s \in Threads \ {Owner} : pc'[s] = pc[s]
      /\ \A w \in Workers : pc[w] = "ended"
  BY GotoEffect, ThreadFacts DEF Join, Control, Labels, ProducerLabels
<1>2. UNCHANGED <<lock, q, quit, op, arg, fresh, finished, spurious>>
  BY DEF Join
<1>3. TypeOK'
  BY <1>1, <1>2, ThreadFacts DEF Control, TypeOK, Labels, ProducerLabels
<1>4. LockInv' /\ OpInv' /\ ArgInv'
  BY <1>1, <1>2, ThreadFacts DEF Control, LockInv, OpInv, ArgInv
<1>5. QuitInv' /\ OwnerInv'
  BY <1>1, <1>2, ThreadFacts DEF Control, QuitInv, OwnerInv
<1> QED BY <1>3, <1>4, <1>5 DEF Control

\* The two ways in which a handler that holds the mutex gives it up for good or
\* for a while: it sleeps, or its loop ends.
LEMMA WaitLeaveControl ==
    ASSUME Control, NEW w \in Workers, Wait(w) \/ Leave(w)
    PROVE  Control'
<1>1. PICK l \in {"waiting", "ended"} : Goto(w, l)
  BY DEF Wait, Leave
<1>2. /\ pc' \in [Threads -> Labels]
      /\ pc[w] = "check" /\ pc'[w] = l
      /\ \A s \in Threads \ {w} : pc'[s] = pc[s]
  BY <1>1, GotoEffect, ThreadFacts DEF Wait, Leave, Control, Labels, WorkerLabels
<1>3. /\ lock = w /\ lock' = NoOne
      /\ UNCHANGED <<q, quit, op, arg, fresh, finished, spurious>>
  BY <1>2, ThreadFacts DEF Wait, Leave, Control, LockInv
<1>4. TypeOK'
  BY <1>2, <1>3, ThreadFacts DEF Control, TypeOK, Labels, WorkerLabels
<1>5. LockInv' /\ OpInv' /\ ArgInv'
  BY <1>2, <1>3, ThreadFacts DEF Control, LockInv, OpInv, ArgInv
<1>6. QuitInv' /\ OwnerInv'
  BY <1>2, <1>3, ThreadFacts DEF Control, QuitInv, OwnerInv
<1> QED BY <1>4, <1>5, <1>6 DEF Control

LEMMA SpuriousControl ==
    ASSUME Control, NEW w \in Workers, SpuriousWakeup(w)
    PROVE  Control'
<1>1. /\ pc' \in [Threads -> Labels]
      /\ pc[w] = "waiting" /\ pc'[w] = "woken"
      /\ \A s \in Threads \ {w} : pc'[s] = pc[s]
  BY GotoEffect, ThreadFacts DEF SpuriousWakeup, Waiting, Control, Labels, WorkerLabels
<1>2. UNCHANGED <<lock, q, quit, op, arg, fresh, finished>>
  BY DEF SpuriousWakeup
<1>3. spurious' \in 0 .. MaxSpurious
  BY BoundAssumption DEF SpuriousWakeup, Control, TypeOK
<1>4. TypeOK'
  BY <1>1, <1>2, <1>3, ThreadFacts DEF Control, TypeOK, Labels, WorkerLabels
<1>5. LockInv' /\ OpInv' /\ ArgInv'
  BY <1>1, <1>2, ThreadFacts DEF Control, LockInv, OpInv, ArgInv
<1>6. QuitInv' /\ OwnerInv'
  BY <1>1, <1>2, ThreadFacts DEF Control, QuitInv, OwnerInv
<1> QED BY <1>4, <1>5, <1>6 DEF Control

LEMMA TakeControl ==
    ASSUME Control, NEW w \in Workers, Take(w)
    PROVE  Control'
<1>1. /\ pc' \in [Threads -> Labels]
      /\ pc[w] = "check" /\ pc'[w] = "running"
      /\ \A s \in Threads \ {w} : pc'[s] = pc[s]
  BY GotoEffect, ThreadFacts DEF Take, Control, Labels, WorkerLabels
<1>2. Head(q) \in Ops /\ q' \in Seq(Ops)
  BY HeadTailProperties DEF Take, Control, TypeOK
<1>3. /\ op' \in [Workers -> Ops \cup {NoOp}]
      /\ op'[w] = Head(q) /\ \A v \in Workers \ {w} : op'[v] = op[v]
      /\ op'[w] # NoOp
  BY <1>2, OpsAssumption DEF Take, Control, TypeOK
<1>4. /\ lock = w /\ lock' = NoOne
      /\ UNCHANGED <<quit, arg, fresh, finished, spurious>>
  BY <1>1, ThreadFacts DEF Take, Control, LockInv
<1>5. TypeOK'
  BY <1>1, <1>2, <1>3, <1>4, ThreadFacts DEF Control, TypeOK, Labels, WorkerLabels
<1>6. LockInv' /\ OpInv' /\ ArgInv'
  BY <1>1, <1>3, <1>4, ThreadFacts DEF Control, LockInv, OpInv, ArgInv
<1>7. QuitInv' /\ OwnerInv'
  BY <1>1, <1>4, ThreadFacts DEF Control, QuitInv, OwnerInv
<1> QED BY <1>5, <1>6, <1>7 DEF Control

LEMMA FinishControl ==
    ASSUME Control, NEW w \in Workers, Finish(w)
    PROVE  Control'
<1>1. /\ pc' \in [Threads -> Labels]
      /\ pc[w] = "running" /\ pc'[w] = "relock"
      /\ \A s \in Threads \ {w} : pc'[s] = pc[s]
  BY GotoEffect, ThreadFacts DEF Finish, Control, Labels, WorkerLabels
<1>2. op[w] \in Ops
  BY <1>1 DEF Control, OpInv, TypeOK
<1>3. /\ op' \in [Workers -> Ops \cup {NoOp}]
      /\ op'[w] = NoOp /\ \A v \in Workers \ {w} : op'[v] = op[v]
      /\ finished' \subseteq Ops
  BY <1>2 DEF Finish, Control, TypeOK
<1>4. UNCHANGED <<lock, q, quit, arg, fresh, spurious>>
  BY DEF Finish
<1>5. TypeOK'
  BY <1>1, <1>3, <1>4, ThreadFacts DEF Control, TypeOK, Labels, WorkerLabels
<1>6. LockInv' /\ OpInv' /\ ArgInv'
  BY <1>1, <1>3, <1>4, ThreadFacts DEF Control, LockInv, OpInv, ArgInv
<1>7. QuitInv' /\ OwnerInv'
  BY <1>1, <1>4, ThreadFacts DEF Control, QuitInv, OwnerInv
<1> QED BY <1>5, <1>6, <1>7 DEF Control

-----------------------------------------------------------------------------
(* No wake-up is lost.                                                      *)

ReadyLabels == {"start", "check", "woken", "relock"}

LEMMA ReadyFinite ==
    /\ IsFiniteSet(Ready) /\ Cardinality(Ready) \in Nat
    /\ IsFiniteSet(Ready') /\ Cardinality(Ready') \in Nat
<1>1. Ready \subseteq Workers /\ Ready' \subseteq Workers
  BY DEF Ready
<1>2. IsFiniteSet(Workers)
  BY ThreadsAssumption
<1>3. IsFiniteSet(Ready) /\ IsFiniteSet(Ready')
  BY <1>1, <1>2, FS_Subset
<1> QED BY <1>3, FS_CardinalityType

LEMMA ReadySame ==
    ASSUME \A v \in Workers : pc'[v] \in ReadyLabels <=> pc[v] \in ReadyLabels
    PROVE  Ready' = Ready
BY DEF Ready, ReadyLabels

\* A worker that becomes ready is one more ...
LEMMA ReadyGains ==
    ASSUME NEW w \in Workers, pc[w] \notin ReadyLabels, pc'[w] \in ReadyLabels,
           \A v \in Workers \ {w} : pc'[v] \in ReadyLabels <=> pc[v] \in ReadyLabels
    PROVE  Cardinality(Ready') = Cardinality(Ready) + 1
<1>1. Ready' = Ready \cup {w} /\ w \notin Ready
  BY DEF Ready, ReadyLabels
<1> QED BY <1>1, ReadyFinite, FS_AddElement

\* ... and one that ceases to be is one fewer.
LEMMA ReadyLoses ==
    ASSUME NEW w \in Workers, pc[w] \in ReadyLabels, pc'[w] \notin ReadyLabels,
           \A v \in Workers \ {w} : pc'[v] \in ReadyLabels <=> pc[v] \in ReadyLabels
    PROVE  Cardinality(Ready') = Cardinality(Ready) - 1
<1>1. Ready' = Ready \ {w} /\ w \in Ready
  BY DEF Ready, ReadyLabels
<1>2. Cardinality(Ready') = IF w \in Ready THEN Cardinality(Ready) - 1
                                           ELSE Cardinality(Ready)
  BY <1>1, ReadyFinite, FS_RemoveElement
<1> QED BY <1>1, <1>2

\* Steps that neither touch the queue nor change who is ready or asleep.
LEMMA AloofWakeup ==
    ASSUME NoLostWakeup, UNCHANGED <<q, quit>>,
           \A v \in Workers : pc'[v] \in ReadyLabels <=> pc[v] \in ReadyLabels,
           \A v \in Workers : pc'[v] = "waiting" <=> pc[v] = "waiting"
    PROVE  NoLostWakeup'
<1>1. Ready' = Ready
  BY ReadySame
<1>2. Waiting' = Waiting
  BY DEF Waiting
<1> QED BY <1>1, <1>2 DEF NoLostWakeup

\* Steps that make a worker ready and leave the queue alone.
LEMMA ArrivalWakeup ==
    ASSUME IInv, NEW w \in Workers, pc[w] \notin ReadyLabels, pc'[w] \in ReadyLabels,
           \A v \in Workers \ {w} : pc'[v] = pc[v],
           UNCHANGED <<q, quit>>
    PROVE  NoLostWakeup'
<1>1. Cardinality(Ready') = Cardinality(Ready) + 1
  BY ReadyGains
<1>2. Waiting' \subseteq Waiting
  BY DEF Waiting, ReadyLabels
<1>3. Len(q) \in Nat
  BY DEF IInv, Control, TypeOK
<1>4. Cardinality(Ready) \in Nat
  BY ReadyFinite
<1> QED BY <1>1, <1>2, <1>3, <1>4 DEF IInv, NoLostWakeup

\* dispatch adds an operation and wakes a worker for it, if one sleeps.
LEMMA PushWakeup ==
    ASSUME IInv, NEW t \in Threads, Push(t)
    PROVE  NoLostWakeup'
<1>1. pc[t] = "push" /\ pc'[t] = Home(t) /\ quit' = quit
  BY PushEffect DEF IInv, Push
<1>2. Home(t) \in {"running", "idle"}
  BY DEF Home
<1>3. CASE Waiting = {} /\ \A s \in Threads \ {t} : pc'[s] = pc[s]
  <2>1. Waiting' = {}
    BY <1>1, <1>2, <1>3, ThreadFacts DEF Waiting
  <2> QED BY <2>1 DEF NoLostWakeup
<1>4. CASE \E w \in Workers \ {t} :
              /\ pc[w] = "waiting" /\ pc'[w] = "woken"
              /\ \A s \in Threads \ {t, w} : pc'[s] = pc[s]
  <2>1. PICK w \in Workers \ {t} :
              /\ pc[w] = "waiting" /\ pc'[w] = "woken"
              /\ \A s \in Threads \ {t, w} : pc'[s] = pc[s]
    BY <1>4
  <2>2. \A v \in Workers \ {w} : pc'[v] \in ReadyLabels <=> pc[v] \in ReadyLabels
    BY <1>1, <1>2, <2>1, ThreadFacts DEF ReadyLabels
  <2>3. Cardinality(Ready') = Cardinality(Ready) + 1
    BY <2>1, <2>2, ReadyGains DEF ReadyLabels
  <2>4. w \in Waiting
    BY <2>1 DEF Waiting
  <2>5. arg[t] \in Ops /\ q \in Seq(Ops)
    BY <1>1 DEF IInv, Control, ArgInv, TypeOK
  <2>6. Len(q') = Len(q) + 1 /\ Len(q) \in Nat
    BY <2>5 DEF Push
  <2>7. Cardinality(Ready) \in Nat
    BY ReadyFinite
  <2> QED BY <1>1, <2>3, <2>4, <2>6, <2>7 DEF IInv, NoLostWakeup
<1> QED BY <1>3, <1>4, PushEffect DEF IInv

\* A worker takes one operation and is no longer ready.
LEMMA TakeWakeup ==
    ASSUME IInv, NEW w \in Workers, Take(w)
    PROVE  NoLostWakeup'
<1>1. /\ pc[w] = "check" /\ pc'[w] = "running"
      /\ \A v \in Workers \ {w} : pc'[v] = pc[v]
      /\ quit' = quit
  BY GotoEffect, ThreadFacts DEF Take, IInv, Control, Labels, WorkerLabels
<1>2. Cardinality(Ready') = Cardinality(Ready) - 1
  BY <1>1, ReadyLoses DEF ReadyLabels
<1>3. Waiting' = Waiting
  BY <1>1 DEF Waiting
<1>4. Len(q') = Len(q) - 1 /\ Len(q) \in Nat
  BY HeadTailProperties DEF Take, IInv, Control, TypeOK
<1>5. Cardinality(Ready) \in Nat
  BY ReadyFinite
<1> QED BY <1>1, <1>2, <1>3, <1>4, <1>5 DEF IInv, NoLostWakeup

\* A worker goes to sleep on an empty queue only, and before quit_ is set.
LEMMA SleepWakeup ==
    ASSUME IInv, NEW w \in Workers, Wait(w)
    PROVE  NoLostWakeup'
<1>1. Len(q') = 0 /\ ~quit'
  BY DEF Wait
<1> QED BY <1>1, ReadyFinite DEF NoLostWakeup

\* The destructor wakes all who sleep when it sets quit_.
LEMMA QuitWakeup ==
    ASSUME IInv, Quit
    PROVE  NoLostWakeup'
<1>1. \A w \in Workers : pc'[w] # "waiting"
  BY ThreadFacts DEF Quit, Waiting
<1> QED BY <1>1 DEF NoLostWakeup, Waiting

\* A handler whose loop ends has seen quit_: nobody sleeps.
LEMMA LeaveWakeup ==
    ASSUME IInv, NEW w \in Workers, Leave(w)
    PROVE  NoLostWakeup'
<1>1. pc'[w] = "ended" /\ \A v \in Workers \ {w} : pc'[v] = pc[v]
  BY GotoEffect, ThreadFacts DEF Leave, IInv, Control, Labels, WorkerLabels
<1>2. Waiting = {}
  BY DEF Leave, IInv, NoLostWakeup
<1> QED BY <1>1, <1>2 DEF NoLostWakeup, Waiting

LEMMA StepInv == IInv /\ [Next]_vars => IInv'
<1> SUFFICES ASSUME IInv, [Next]_vars PROVE IInv'
  OBVIOUS
<1>0. Control /\ NoLostWakeup
  BY DEF IInv
<1>1. ASSUME NEW w \in Workers, Spawn(w) PROVE IInv'
  <2>1. /\ pc[w] = "unborn" /\ pc'[w] = "start"
        /\ \A v \in Workers \ {w} : pc'[v] = pc[v]
    BY <1>0, <1>1, GotoEffect, ThreadFacts DEF Spawn, Control, Labels, WorkerLabels
  <2>2. NoLostWakeup'
    BY <1>1, <2>1, ArrivalWakeup DEF Spawn, ReadyLabels
  <2> QED BY <1>0, <1>1, <2>2, SpawnControl DEF IInv
<1>2. ASSUME Constructed PROVE IInv'
  <2>1. \A w \in Workers : pc'[w] = pc[w]
    BY <1>0, <1>2, GotoEffect, ThreadFacts DEF Constructed, Control, Labels, ProducerLabels
  <2>2. NoLostWakeup'
    BY <1>0, <1>2, <2>1, AloofWakeup DEF Constructed
  <2> QED BY <1>0, <1>2, <2>2, ConstructedControl DEF IInv
<1>3. ASSUME NEW t \in Threads, Acquire(t) PROVE IInv'
  <2>1. \A w \in Workers :
            /\ pc'[w] \in ReadyLabels <=> pc[w] \in ReadyLabels
            /\ pc'[w] = "waiting" <=> pc[w] = "waiting"
    BY <1>0, <1>3, AcquireEffect, ThreadFacts DEF ReadyLabels
  <2>2. NoLostWakeup'
    BY <1>0, <1>3, <2>1, AloofWakeup DEF Acquire
  <2> QED BY <1>0, <1>3, <2>2, AcquireControl DEF IInv
<1>4. ASSUME NEW t \in Threads, NEW f \in Ops, Dispatch(t, f) PROVE IInv'
  <2>1. /\ pc[t] = Home(t) /\ pc'[t] = "dispatch"
        /\ \A s \in Threads \ {t} : pc'[s] = pc[s]
    BY <1>0, <1>4, GotoEffect DEF Dispatch, Control, Labels, WorkerLabels
  <2>2. \A w \in Workers :
            /\ pc'[w] \in ReadyLabels <=> pc[w] \in ReadyLabels
            /\ pc'[w] = "waiting" <=> pc[w] = "waiting"
    BY <2>1, ThreadFacts DEF Home, ReadyLabels
  <2>3. NoLostWakeup'
    BY <1>0, <1>4, <2>2, AloofWakeup DEF Dispatch
  <2> QED BY <1>0, <1>4, <2>3, DispatchControl DEF IInv
<1>5. ASSUME NEW t \in Threads, Push(t) PROVE IInv'
  BY <1>0, <1>5, PushWakeup, PushControl DEF IInv
<1>6. ASSUME Destroy PROVE IInv'
  <2>1. \A w \in Workers : pc'[w] = pc[w]
    BY <1>6, ThreadFacts DEF Destroy
  <2>2. NoLostWakeup'
    BY <1>0, <1>6, <2>1, AloofWakeup DEF Destroy
  <2> QED BY <1>0, <1>6, <2>2, DestroyControl DEF IInv
<1>7. ASSUME Quit PROVE IInv'
  BY <1>0, <1>7, QuitWakeup, QuitControl DEF IInv
<1>8. ASSUME Join PROVE IInv'
  <2>1. \A w \in Workers : pc'[w] = pc[w]
    BY <1>0, <1>8, GotoEffect, ThreadFacts DEF Join, Control, Labels, ProducerLabels
  <2>2. NoLostWakeup'
    BY <1>0, <1>8, <2>1, AloofWakeup DEF Join
  <2> QED BY <1>0, <1>8, <2>2, JoinControl DEF IInv
<1>9. ASSUME NEW w \in Workers, Wait(w) PROVE IInv'
  BY <1>0, <1>9, SleepWakeup, WaitLeaveControl DEF IInv
<1>10. ASSUME NEW w \in Workers, SpuriousWakeup(w) PROVE IInv'
  <2>1. /\ pc[w] = "waiting" /\ pc'[w] = "woken"
        /\ \A v \in Workers \ {w} : pc'[v] = pc[v]
    BY <1>0, <1>10, GotoEffect, ThreadFacts
       DEF SpuriousWakeup, Waiting, Control, Labels, WorkerLabels
  <2>2. NoLostWakeup'
    BY <1>10, <2>1, ArrivalWakeup DEF SpuriousWakeup, ReadyLabels
  <2> QED BY <1>0, <1>10, <2>2, SpuriousControl DEF IInv
<1>11. ASSUME NEW w \in Workers, Take(w) PROVE IInv'
  BY <1>0, <1>11, TakeWakeup, TakeControl DEF IInv
<1>12. ASSUME NEW w \in Workers, Finish(w) PROVE IInv'
  <2>1. /\ pc[w] = "running" /\ pc'[w] = "relock"
        /\ \A v \in Workers \ {w} : pc'[v] = pc[v]
    BY <1>0, <1>12, GotoEffect, ThreadFacts DEF Finish, Control, Labels, WorkerLabels
  <2>2. NoLostWakeup'
    BY <1>12, <2>1, ArrivalWakeup DEF Finish, ReadyLabels
  <2> QED BY <1>0, <1>12, <2>2, FinishControl DEF IInv
<1>13. ASSUME NEW w \in Workers, Leave(w) PROVE IInv'
  BY <1>0, <1>13, LeaveWakeup, WaitLeaveControl DEF IInv
<1>14. CASE UNCHANGED vars
  <2>1. Control'
    BY <1>0, <1>14 DEF vars, Control, TypeOK, LockInv, OpInv, ArgInv, QuitInv, OwnerInv
  <2>2. NoLostWakeup'
    BY <1>0, <1>14, AloofWakeup DEF vars
  <2> QED BY <2>1, <2>2 DEF IInv
<1> QED
  BY <1>1, <1>2, <1>3, <1>4, <1>5, <1>6, <1>7, <1>8, <1>9, <1>10, <1>11, <1>12,
     <1>13, <1>14 DEF Next, Step, Over

\* The inductive invariant holds in every reachable state.
THEOREM InductiveInvariant == Spec => []IInv
BY InitInv, StepInv, PTL DEF Spec

\* Every variable keeps its type (dispatch.cpp:11-113).
THEOREM TypeCorrect == Spec => []TypeOK
<1>1. IInv => TypeOK
  BY DEF IInv, Control
<1> QED BY <1>1, InductiveInvariant, PTL

\* With any number of threads and operations, an operation in the queue never
\* waits while a thread sleeps that nobody has woken for it, and no thread sleeps
\* once quit_ is set (dispatch.cpp:53-113).
THEOREM WakeupsKept == Spec => []NoLostWakeup
<1>1. IInv => NoLostWakeup
  BY DEF IInv
<1> QED BY <1>1, InductiveInvariant, PTL

-----------------------------------------------------------------------------
(* The refinement.                                                         *)

LEMMA InitMaps == Init => Pool!Init
<1> SUFFICES ASSUME Init PROVE Pool!Init
  OBVIOUS
<1>1. pc[Owner] = "constructing" /\ ~quit
  BY ThreadFacts DEF Init
<1> QED
  BY <1>1 DEF Init, Pool!Init, Phase

\* Steps that change neither queue nor what is running, nor pass a phase.
LEMMA AloofMaps ==
    ASSUME UNCHANGED <<q, op, finished, quit>>,
           pc'[Owner] = "destroyed" <=> pc[Owner] = "destroyed"
    PROVE  UNCHANGED Pool!vars
BY DEF Pool!vars, Phase

\* A dispatch takes effect when the operation is pushed: the queue still exists.
LEMMA PushMaps ==
    ASSUME IInv, NEW t \in Threads, Push(t)
    PROVE  Pool!Next
<1>1. /\ pc[t] = "push" /\ q' = Append(q, arg[t])
      /\ UNCHANGED <<op, finished, quit>>
  BY DEF Push
<1>2. arg[t] \in Ops
  BY <1>1 DEF IInv, Control, ArgInv
<1>3. pc[Owner] # "destroyed"
  <2>1. CASE t \in Workers
    BY <1>1, <2>1 DEF IInv, Control, QuitInv
  <2>2. CASE t \in Producers
    BY <1>1, <2>2 DEF IInv, Control, OwnerInv
  <2> QED BY <2>1, <2>2, ThreadFacts
<1>4. pc'[Owner] # "destroyed"
  <2>1. Home(t) # "destroyed"
    BY DEF Home
  <2> QED BY <1>3, <2>1, PushEffect, ThreadFacts DEF IInv
<1>5. Phase' = Phase /\ Phase # "gone"
  BY <1>1, <1>3, <1>4 DEF Phase
<1>6. Pool!Submit(arg[t])
  BY <1>1, <1>5 DEF Pool!Submit
<1> QED BY <1>2, <1>6 DEF Pool!Next

LEMMA TakeMaps ==
    ASSUME IInv, NEW w \in Workers, Take(w)
    PROVE  Pool!Next
<1>1. /\ pc[w] = "check" /\ pc'[Owner] = pc[Owner]
      /\ ~quit /\ q # <<>>
  BY GotoEffect, ThreadFacts DEF Take, IInv, Control, Labels, WorkerLabels
<1>2. op[w] = NoOp
  BY <1>1 DEF IInv, Control, OpInv
<1>3. Phase = "open" /\ Phase' = Phase
  BY <1>1 DEF IInv, Control, QuitInv, Phase, Take
<1>4. Pool!Start(w)
  BY <1>1, <1>2, <1>3 DEF Pool!Start, Take
<1> QED BY <1>4 DEF Pool!Next

LEMMA FinishMaps ==
    ASSUME IInv, NEW w \in Workers, Finish(w)
    PROVE  Pool!Next
<1>1. pc[w] = "running" /\ pc'[Owner] = pc[Owner]
  BY GotoEffect, ThreadFacts DEF Finish, IInv, Control, Labels, WorkerLabels
<1>2. op[w] # NoOp
  BY <1>1 DEF IInv, Control, OpInv
<1>3. Phase' = Phase
  BY <1>1 DEF Phase, Finish
<1>4. Pool!Finish(w)
  BY <1>2, <1>3 DEF Pool!Finish, Finish
<1> QED BY <1>4 DEF Pool!Next

LEMMA QuitMaps ==
    ASSUME IInv, Quit
    PROVE  Pool!Next
<1>1. pc[Owner] = "quit" /\ pc'[Owner] = "join" /\ quit'
  BY ThreadFacts DEF Quit
<1>2. ~quit
  BY <1>1 DEF IInv, Control, QuitInv
<1>3. Phase = "open" /\ Phase' = "closing"
  BY <1>1, <1>2 DEF Phase
<1>4. Pool!Close
  BY <1>3 DEF Pool!Close, Quit
<1> QED BY <1>4 DEF Pool!Next

LEMMA JoinMaps ==
    ASSUME IInv, Join
    PROVE  Pool!Next
<1>1. pc[Owner] = "join" /\ pc'[Owner] = "destroyed" /\ quit
  BY GotoEffect, ThreadFacts
     DEF Join, IInv, Control, QuitInv, Labels, ProducerLabels
<1>2. \A w \in Workers : op[w] = NoOp
  BY DEF Join, IInv, Control, OpInv
<1>3. Phase = "closing" /\ Phase' = "gone"
  BY <1>1 DEF Phase
<1>4. Pool!Vanish
  BY <1>2, <1>3 DEF Pool!Vanish, Join
<1> QED BY <1>4 DEF Pool!Next

LEMMA StepMaps == IInv /\ [Next]_vars => [Pool!Next]_(Pool!vars)
<1> SUFFICES ASSUME IInv, [Next]_vars PROVE [Pool!Next]_(Pool!vars)
  OBVIOUS
<1>0. Control
  BY DEF IInv
<1>1. ASSUME NEW w \in Workers, Spawn(w) \/ Wait(w) \/ SpuriousWakeup(w) \/ Leave(w)
      PROVE  UNCHANGED Pool!vars
  <2>1. PICK l \in {"start", "waiting", "woken", "ended"} : Goto(w, l)
    BY <1>1 DEF Spawn, Wait, SpuriousWakeup, Leave
  <2>2. pc'[Owner] = pc[Owner]
    BY <1>0, <2>1, GotoEffect, ThreadFacts DEF Control, Labels, WorkerLabels
  <2> QED BY <1>1, <2>2, AloofMaps DEF Spawn, Wait, SpuriousWakeup, Leave
<1>2. ASSUME Constructed PROVE UNCHANGED Pool!vars
  <2>1. pc[Owner] = "constructing" /\ pc'[Owner] = "idle"
    BY <1>0, <1>2, GotoEffect, ThreadFacts DEF Constructed, Control, Labels, ProducerLabels
  <2> QED BY <1>2, <2>1, AloofMaps DEF Constructed
<1>3. ASSUME NEW t \in Threads, Acquire(t) PROVE UNCHANGED Pool!vars
  <2>1. pc'[Owner] = "destroyed" <=> pc[Owner] = "destroyed"
    BY <1>0, <1>3, AcquireEffect, ThreadFacts
  <2> QED BY <1>3, <2>1, AloofMaps DEF Acquire
<1>4. ASSUME NEW t \in Threads, NEW f \in Ops, Dispatch(t, f)
      PROVE  UNCHANGED Pool!vars
  <2>1. pc[t] \in {"running", "idle"} /\ pc'[t] = "dispatch"
        /\ \A s \in Threads \ {t} : pc'[s] = pc[s]
    BY <1>0, <1>4, GotoEffect DEF Dispatch, Home, Control, Labels, WorkerLabels
  <2>2. pc'[Owner] = "destroyed" <=> pc[Owner] = "destroyed"
    BY <2>1, ThreadFacts
  <2> QED BY <1>4, <2>2, AloofMaps DEF Dispatch
<1>5. ASSUME Destroy PROVE UNCHANGED Pool!vars
  <2>1. pc[Owner] = "idle" /\ pc'[Owner] = "destroy"
    BY <1>5, ThreadFacts DEF Destroy
  <2> QED BY <1>5, <2>1, AloofMaps DEF Destroy
<1>6. CASE UNCHANGED vars
  BY <1>6, AloofMaps DEF vars
<1> QED
  BY <1>1, <1>2, <1>3, <1>4, <1>5, <1>6, PushMaps, TakeMaps, FinishMaps, QuitMaps,
     JoinMaps
     DEF Next, Step, Over

\* The dispatch queue is an executor, for any number of threads and operations:
\* operations start in the order of dispatch, each once, none after the
\* destructor set quit_, and none is running when the destructor returns.
THEOREM Refinement == Spec => ImplementsExecutor
<1>1. Spec => Pool!Init /\ [][Pool!Next]_(Pool!vars)
  BY InitMaps, StepMaps, InductiveInvariant, PTL DEF Spec
<1> QED BY <1>1 DEF ImplementsExecutor, Pool!Spec

====

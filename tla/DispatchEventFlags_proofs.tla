---- MODULE DispatchEventFlags_proofs ----
(***************************************************************************)
(* The dispatch queue on event flags implements the same executor as the   *)
(* one on a condition variable, strands no operation, and deletes its      *)
(* mutex and flags when nobody uses them: for every number of workers and  *)
(* every set of producers and operations.                                  *)
(***************************************************************************)
EXTENDS DispatchEventFlags, SequenceTheorems, TLAPS

\* The critical sections: the task that is inside one holds the mutex.
LockInv == \A t \in Threads : pc[t] \in {"check", "push"} <=> lock = t

\* A worker holds an operation exactly while it runs it, dispatching included.
OpInv ==
    \A w \in Workers : op[w] # NoOp <=> pc[w] \in {"running", "dispatch", "push", "set"}

ArgInv ==
    \A t \in Threads : pc[t] \in {"dispatch", "push"} => arg[t] \in Ops

\* The labels of the destructor.
Joining == {"wake", "await", "timed", "poll"}
Joined  == {"cleanup", "destroyed"}

\* Nobody else uses the queue while the owner destroys it.
OwnerInv ==
    /\ pc[Owner] # "done"
    /\ \A p \in Producers \ {Owner} :
          /\ pc[p] \in {"idle", "dispatch", "push", "set", "done"}
          /\ pc[Owner] \in Joining \cup Joined => pc[p] = "done"

\* quit_ is set by the destructor alone, and no worker leaves before.
QuitInv ==
    /\ quit <=> pc[Owner] \in Joining \cup Joined
    /\ \A w \in Workers : pc[w] \in {"exit", "delete", "ended"} => quit

\* The destructor is past a worker only when that worker has been deleted.
JoinInv ==
    /\ \A w \in Workers : w < joining => pc[w] = "ended"
    /\ pc[Owner] \in Joining => joining <= NumWorkers
    /\ pc[Owner] \in Joined => joining = NumWorkers + 1
    /\ pc[Owner] \notin Joining \cup Joined => joining = 1

Control == TypeOK /\ LockInv /\ OpInv /\ ArgInv /\ OwnerInv /\ QuitInv /\ JoinInv

IInv == Control /\ NoneStranded

Labels == WorkerLabels \cup ProducerLabels

-----------------------------------------------------------------------------

LEMMA ThreadFacts ==
    /\ Owner \in Threads /\ Owner \in Producers /\ Owner \notin Workers
    /\ \A w \in Workers : w \in Threads /\ w \notin Producers /\ w # Owner
    /\ \A p \in Producers : p \in Threads /\ p \notin Workers
    /\ \A t \in Threads : t # NoOne
    /\ Threads = Workers \cup Producers
BY ThreadsAssumption DEF Threads

LEMMA WorkerFacts ==
    /\ NumWorkers \in Nat /\ NumWorkers >= 1
    /\ 1 \in Workers
    /\ \A w \in Workers : w \in Nat /\ 1 <= w /\ w <= NumWorkers
BY SizeAssumption DEF Workers

\* What a jump does to the labels.
LEMMA GotoEffect ==
    ASSUME TypeOK, NEW t \in Threads, NEW l \in Labels, Goto(t, l)
    PROVE  /\ pc' \in [Threads -> Labels]
           /\ pc'[t] = l
           /\ \A s \in Threads \ {t} : pc'[s] = pc[s]
BY DEF Goto, TypeOK, Labels

\* The steps that the set of a bit lets other tasks take.
Woken(s) ==
    \/ s \in Workers /\ pc[s] = "waiting" /\ pc'[s] = "relock"
    \/ s = Owner /\ pc[s] = "timed" /\ pc'[s] = "poll"

LEMMA SetBitEffect ==
    ASSUME TypeOK, NEW t \in Threads, NEW bit \in {"WAKE", "EXIT"}, NEW l \in Labels,
           SetBitAndGoto(t, bit, l)
    PROVE  /\ pc' \in [Threads -> Labels]
           /\ pc'[t] = l
           /\ \A s \in Threads \ {t} : pc'[s] = pc[s] \/ Woken(s)
           /\ flags' \subseteq {"WAKE", "EXIT"}
<1>1. /\ pc \in [Threads -> Labels] /\ flags \subseteq {"WAKE", "EXIT"}
      /\ "relock" \in Labels /\ "poll" \in Labels
  BY DEF TypeOK, Labels, WorkerLabels, ProducerLabels
<1>2. CASE bit = "WAKE"
  BY <1>1, <1>2 DEF SetBitAndGoto, Blocked, After, Woken
<1>3. CASE bit = "EXIT"
  BY <1>1, <1>3 DEF SetBitAndGoto, Blocked, After, Woken
<1> QED BY <1>2, <1>3

LEMMA InitInv == Init => IInv
<1> SUFFICES ASSUME Init PROVE IInv
  OBVIOUS
<1>1. /\ pc \in [Threads -> Labels]
      /\ pc[Owner] = "constructing"
      /\ \A w \in Workers : pc[w] = "unborn"
      /\ \A p \in Producers \ {Owner} : pc[p] = "idle"
  BY ThreadFacts DEF Init, Labels, WorkerLabels, ProducerLabels
<1>2. TypeOK
  <2>1. q \in Seq(Ops)
    BY DEF Init
  <2>2. op \in [Workers -> Ops \cup {NoOp}] /\ arg \in [Threads -> Ops \cup {NoOp}]
    BY DEF Init
  <2>3. joining \in 1 .. NumWorkers + 1
    BY WorkerFacts DEF Init
  <2>4. \A p \in Producers : pc[p] \in ProducerLabels
    BY <1>1 DEF ProducerLabels
  <2>5. \A w \in Workers : pc[w] \in WorkerLabels
    BY <1>1 DEF WorkerLabels
  <2> QED BY <1>1, <2>1, <2>2, <2>3, <2>4, <2>5 DEF TypeOK, Init, Labels
<1>3. \A t \in Threads : pc[t] \in {"constructing", "unborn", "idle"}
  BY <1>1, ThreadFacts
<1>4. LockInv
  BY <1>3, ThreadFacts DEF Init, LockInv
<1>5. OpInv /\ ArgInv
  BY <1>1, <1>3 DEF Init, OpInv, ArgInv
<1>6. OwnerInv /\ QuitInv
  BY <1>1 DEF Init, OwnerInv, QuitInv, Joining, Joined
<1>7. JoinInv
  BY <1>1, WorkerFacts DEF Init, JoinInv, Joining, Joined
<1>8. NoneStranded
  BY DEF Init, NoneStranded
<1> QED BY <1>2, <1>4, <1>5, <1>6, <1>7, <1>8 DEF IInv, Control

-----------------------------------------------------------------------------
(* Every action keeps the invariant.                                        *)

LEMMA SpawnInv ==
    ASSUME IInv, NEW w \in Workers, Spawn(w)
    PROVE  IInv'
<1>0. Control /\ NoneStranded
  BY DEF IInv
<1>1. /\ pc' \in [Threads -> Labels]
      /\ pc[w] = "unborn" /\ pc'[w] = "start"
      /\ \A s \in Threads \ {w} : pc'[s] = pc[s]
  BY <1>0, GotoEffect, ThreadFacts DEF Spawn, Control, Labels, WorkerLabels
<1>2. /\ UNCHANGED <<lock, flags, q, arg, fresh, op, finished, quit, joining>>
  BY <1>0, <1>1, ThreadFacts DEF Spawn, queueVars, workVars, quitVars
<1>3. TypeOK'
  BY <1>0, <1>1, <1>2, ThreadFacts
     DEF Control, TypeOK, Labels, WorkerLabels, ProducerLabels
<1>4. LockInv'
  BY <1>0, <1>1, <1>2, ThreadFacts DEF Control, LockInv
<1>5. OpInv' /\ ArgInv'
  BY <1>0, <1>1, <1>2, ThreadFacts DEF Control, OpInv, ArgInv
<1>6. OwnerInv'
  BY <1>0, <1>1, <1>2, ThreadFacts DEF Control, OwnerInv, Joining, Joined
<1>7. QuitInv'
  BY <1>0, <1>1, <1>2, ThreadFacts DEF Control, QuitInv, Joining, Joined
<1>8. JoinInv'
  BY <1>0, <1>1, <1>2, ThreadFacts, WorkerFacts
     DEF Control, JoinInv, Joining, Joined
<1>9. NoneStranded'
  BY <1>0, <1>1, <1>2, ThreadFacts DEF NoneStranded, Busy
<1> QED BY <1>3, <1>4, <1>5, <1>6, <1>7, <1>8, <1>9 DEF IInv, Control

LEMMA ConstructedInv ==
    ASSUME IInv, Constructed
    PROVE  IInv'
<1>0. Control /\ NoneStranded
  BY DEF IInv
<1>1. /\ pc' \in [Threads -> Labels]
      /\ pc[Owner] = "constructing" /\ pc'[Owner] = "idle"
      /\ \A s \in Threads \ {Owner} : pc'[s] = pc[s]
  BY <1>0, GotoEffect, ThreadFacts DEF Constructed, Control, Labels, ProducerLabels
<1>2. /\ UNCHANGED <<lock, flags, q, arg, fresh, op, finished, quit, joining>>
  BY <1>0, <1>1, ThreadFacts DEF Constructed, queueVars, workVars, quitVars
<1>3. TypeOK'
  BY <1>0, <1>1, <1>2, ThreadFacts
     DEF Control, TypeOK, Labels, WorkerLabels, ProducerLabels
<1>4. LockInv'
  BY <1>0, <1>1, <1>2, ThreadFacts DEF Control, LockInv
<1>5. OpInv' /\ ArgInv'
  BY <1>0, <1>1, <1>2, ThreadFacts DEF Control, OpInv, ArgInv
<1>6. OwnerInv'
  BY <1>0, <1>1, <1>2, ThreadFacts DEF Control, OwnerInv, Joining, Joined
<1>7. QuitInv'
  BY <1>0, <1>1, <1>2, ThreadFacts DEF Control, QuitInv, Joining, Joined
<1>8. JoinInv'
  BY <1>0, <1>1, <1>2, ThreadFacts, WorkerFacts
     DEF Control, JoinInv, Joining, Joined
<1>9. NoneStranded'
  BY <1>0, <1>1, <1>2, ThreadFacts DEF NoneStranded, Busy
<1> QED BY <1>3, <1>4, <1>5, <1>6, <1>7, <1>8, <1>9 DEF IInv, Control

\* The jump of a task that takes the mutex.
LEMMA AcquireEffect ==
    ASSUME Control, NEW t \in Threads, Acquire(t)
    PROVE  /\ pc' \in [Threads -> Labels]
           /\ \A s \in Threads \ {t} : pc'[s] = pc[s]
           /\ \/ t \in Workers /\ pc[t] \in {"start", "relock"} /\ pc'[t] = "check"
              \/ pc[t] = "dispatch" /\ pc'[t] = "push"
<1>1. pc[t] \in Wanting /\ Goto(t, IF pc[t] = "dispatch" THEN "push" ELSE "check")
  BY DEF Acquire
<1>2. CASE pc[t] \in {"start", "relock"}
  <2>1. t \in Workers
    BY <1>2, ThreadFacts DEF Control, TypeOK, ProducerLabels
  <2>2. Goto(t, "check")
    BY <1>1, <1>2
  <2> QED BY <1>2, <2>1, <2>2, GotoEffect DEF Control, Labels, WorkerLabels
<1>3. CASE pc[t] = "dispatch"
  <2>1. Goto(t, "push")
    BY <1>1, <1>3
  <2> QED BY <1>3, <2>1, GotoEffect DEF Control, Labels, WorkerLabels
<1> QED BY <1>1, <1>2, <1>3 DEF Wanting

LEMMA AcquireInv ==
    ASSUME IInv, NEW t \in Threads, Acquire(t)
    PROVE  IInv'
<1>0. Control /\ NoneStranded
  BY DEF IInv
<1>1. /\ pc' \in [Threads -> Labels]
      /\ \A s \in Threads \ {t} : pc'[s] = pc[s]
      /\ \/ t \in Workers /\ pc[t] \in {"start", "relock"} /\ pc'[t] = "check"
         \/ pc[t] = "dispatch" /\ pc'[t] = "push"
  BY <1>0, AcquireEffect DEF Control
<1>2. /\ lock = NoOne /\ lock' = t
      /\ UNCHANGED <<flags, q, arg, fresh, op, finished, quit, joining>>
  BY <1>0, <1>1, ThreadFacts DEF Acquire, queueVars, workVars, quitVars
<1>3. TypeOK'
  BY <1>0, <1>1, <1>2, ThreadFacts
     DEF Control, TypeOK, Labels, WorkerLabels, ProducerLabels
<1>4. LockInv'
  BY <1>0, <1>1, <1>2, ThreadFacts DEF Control, LockInv
<1>5. OpInv' /\ ArgInv'
  BY <1>0, <1>1, <1>2, ThreadFacts DEF Control, OpInv, ArgInv
<1>6. OwnerInv'
  BY <1>0, <1>1, <1>2, ThreadFacts DEF Control, OwnerInv, Joining, Joined
<1>7. QuitInv'
  BY <1>0, <1>1, <1>2, ThreadFacts DEF Control, QuitInv, Joining, Joined
<1>8. JoinInv'
  BY <1>0, <1>1, <1>2, ThreadFacts, WorkerFacts
     DEF Control, JoinInv, Joining, Joined
<1>9. NoneStranded'
  BY <1>0, <1>1, <1>2, ThreadFacts DEF NoneStranded, Busy
<1> QED BY <1>3, <1>4, <1>5, <1>6, <1>7, <1>8, <1>9 DEF IInv, Control

LEMMA DispatchInv ==
    ASSUME IInv, NEW t \in Threads, NEW f \in Ops, Dispatch(t, f)
    PROVE  IInv'
<1>0. Control /\ NoneStranded
  BY DEF IInv
<1>1. /\ pc' \in [Threads -> Labels]
      /\ pc'[t] = "dispatch"
      /\ \A s \in Threads \ {t} : pc'[s] = pc[s]
      /\ \/ t \in Workers /\ pc[t] = "running"
         \/ t \in Producers /\ pc[t] = "idle"
  BY <1>0, GotoEffect, ThreadFacts DEF Dispatch, Home, Control, Labels, WorkerLabels
<1>2. /\ fresh' \subseteq Ops
      /\ arg' \in [Threads -> Ops \cup {NoOp}]
      /\ arg'[t] = f /\ \A s \in Threads \ {t} : arg'[s] = arg[s]
      /\ UNCHANGED <<lock, flags, q, op, finished, quit, joining>>
  BY <1>0, <1>1, ThreadFacts DEF Dispatch, Control, TypeOK, workVars, quitVars
<1>3. TypeOK'
  BY <1>0, <1>1, <1>2, ThreadFacts
     DEF Control, TypeOK, Labels, WorkerLabels, ProducerLabels
<1>4. LockInv'
  BY <1>0, <1>1, <1>2, ThreadFacts DEF Control, LockInv
<1>5. OpInv' /\ ArgInv'
  BY <1>0, <1>1, <1>2, ThreadFacts DEF Control, OpInv, ArgInv
<1>6. OwnerInv'
  BY <1>0, <1>1, <1>2, ThreadFacts DEF Control, OwnerInv, Joining, Joined
<1>7. QuitInv'
  BY <1>0, <1>1, <1>2, ThreadFacts DEF Control, QuitInv, Joining, Joined
<1>8. JoinInv'
  BY <1>0, <1>1, <1>2, ThreadFacts, WorkerFacts
     DEF Control, JoinInv, Joining, Joined
<1>9. NoneStranded'
  BY <1>0, <1>1, <1>2, ThreadFacts DEF NoneStranded, Busy
<1> QED BY <1>3, <1>4, <1>5, <1>6, <1>7, <1>8, <1>9 DEF IInv, Control

LEMMA PushInv ==
    ASSUME IInv, NEW t \in Threads, Push(t)
    PROVE  IInv'
<1>0. Control /\ NoneStranded
  BY DEF IInv
<1>1. /\ pc' \in [Threads -> Labels]
      /\ pc[t] = "push" /\ pc'[t] = "set"
      /\ \A s \in Threads \ {t} : pc'[s] = pc[s]
  BY <1>0, GotoEffect, ThreadFacts DEF Push, Control, Labels, WorkerLabels
<1>2. /\ lock = t /\ lock' = NoOne
      /\ arg' \in [Threads -> Ops \cup {NoOp}]
      /\ \A s \in Threads \ {t} : arg'[s] = arg[s]
      /\ UNCHANGED <<flags, fresh, op, finished, quit, joining>>
  BY <1>0, <1>1, ThreadFacts DEF Push, Control, TypeOK, LockInv, workVars, quitVars
<1>3. q' \in Seq(Ops)
  BY <1>0, <1>1 DEF Push, Control, TypeOK, ArgInv
<1>4. TypeOK'
  BY <1>0, <1>1, <1>2, <1>3, ThreadFacts
     DEF Control, TypeOK, Labels, WorkerLabels, ProducerLabels
<1>5. LockInv'
  BY <1>0, <1>1, <1>2, <1>3, ThreadFacts DEF Control, LockInv
<1>6. OpInv' /\ ArgInv'
  BY <1>0, <1>1, <1>2, <1>3, ThreadFacts DEF Control, OpInv, ArgInv
<1>7. OwnerInv'
  BY <1>0, <1>1, <1>2, <1>3, ThreadFacts DEF Control, OwnerInv, Joining, Joined
<1>8. QuitInv'
  BY <1>0, <1>1, <1>2, <1>3, ThreadFacts DEF Control, QuitInv, Joining, Joined
<1>9. JoinInv'
  BY <1>0, <1>1, <1>2, <1>3, ThreadFacts, WorkerFacts
     DEF Control, JoinInv, Joining, Joined
<1>10. NoneStranded'
  BY <1>0, <1>1, <1>2, <1>3, ThreadFacts DEF NoneStranded, Busy
<1> QED BY <1>4, <1>5, <1>6, <1>7, <1>8, <1>9, <1>10 DEF IInv, Control

\* The bit that t sets wakes a worker, or stays for the next that waits.
LEMMA SetWakeInv ==
    ASSUME IInv, NEW t \in Threads, SetWake(t)
    PROVE  IInv'
<1>0. Control /\ NoneStranded
  BY DEF IInv
<1>1. /\ pc' \in [Threads -> Labels]
      /\ pc[t] = "set" /\ pc'[t] = Home(t)
      /\ \A s \in Threads \ {t} : pc'[s] = pc[s] \/ Woken(s)
      /\ flags' \subseteq {"WAKE", "EXIT"}
      /\ t \in Workers => Home(t) = "running"
      /\ t \in Producers => Home(t) = "idle"
  BY <1>0, SetBitEffect, ThreadFacts DEF SetWake, Home, Control, Labels, WorkerLabels,
         ProducerLabels
<1>2. /\ UNCHANGED <<lock, q, arg, fresh, op, finished, quit, joining>>
  BY <1>0, <1>1, ThreadFacts DEF SetWake, queueVars, workVars, quitVars
<1>3. TypeOK'
  BY <1>0, <1>1, <1>2, ThreadFacts
     DEF Control, TypeOK, Labels, WorkerLabels, ProducerLabels, Woken
<1>4. LockInv'
  BY <1>0, <1>1, <1>2, ThreadFacts DEF Control, LockInv, Woken
<1>5. OpInv' /\ ArgInv'
  BY <1>0, <1>1, <1>2, ThreadFacts DEF Control, OpInv, ArgInv, Woken
<1>6. OwnerInv'
  BY <1>0, <1>1, <1>2, ThreadFacts DEF Control, OwnerInv, Joining, Joined, Woken
<1>7. QuitInv'
  BY <1>0, <1>1, <1>2, ThreadFacts DEF Control, QuitInv, Joining, Joined, Woken
<1>8. JoinInv'
  BY <1>0, <1>1, <1>2, ThreadFacts, WorkerFacts
     DEF Control, JoinInv, Joining, Joined, Woken
<1>9. NoneStranded'
  <2> SUFFICES ASSUME ~quit PROVE NoneStranded'
    BY <1>2 DEF NoneStranded
  <2>1. pc[1] \in Busy \cup {"towait", "waiting"}
    BY <1>0, WorkerFacts DEF Control, TypeOK, QuitInv, WorkerLabels, Busy
  <2>2. CASE pc'[1] \in Busy
    BY <2>2, WorkerFacts DEF NoneStranded
  <2>3. CASE pc'[1] \notin Busy
    <3>1. 1 # t
      BY <1>1, <2>3, WorkerFacts DEF Busy
    <3>2. pc'[1] = pc[1]
      BY <1>1, <2>3, <3>1, ThreadFacts, WorkerFacts DEF Woken, Busy
    <3>3. pc[1] # "waiting"
      BY <3>1, <3>2, ThreadFacts, WorkerFacts DEF SetWake, SetBitAndGoto, Blocked, After
    <3>4. pc'[1] = "towait"
      BY <2>1, <2>3, <3>2, <3>3
    <3>5. CASE Blocked("WAKE") = {}
      <4>1. "WAKE" \in flags'
        BY <3>5 DEF SetWake, SetBitAndGoto
      <4> QED BY <3>4, <4>1, WorkerFacts DEF NoneStranded
    <3>6. CASE Blocked("WAKE") # {}
      <4>1. PICK w \in Workers : w \in Blocked("WAKE") /\ pc[w] = "waiting"
        BY <3>6 DEF Blocked
      <4>2. pc'[w] = "relock"
        BY <1>1, <4>1, ThreadFacts DEF SetWake, SetBitAndGoto, After
      <4> QED BY <4>1, <4>2 DEF NoneStranded, Busy
    <3> QED BY <3>5, <3>6
  <2> QED BY <2>2, <2>3
<1> QED BY <1>3, <1>4, <1>5, <1>6, <1>7, <1>8, <1>9 DEF IInv, Control

LEMMA DestroyInv ==
    ASSUME IInv, Destroy
    PROVE  IInv'
<1>0. Control /\ NoneStranded
  BY DEF IInv
<1>1. /\ \A p \in Producers : pc[p] = "idle"
      /\ pc'[Owner] = "wake"
      /\ \A p \in Producers \ {Owner} : pc'[p] = "done"
      /\ \A w \in Workers : pc'[w] = pc[w]
      /\ pc' \in [Threads -> Labels]
  BY <1>0, ThreadFacts DEF Destroy, Control, TypeOK, Labels, ProducerLabels
<1>2. /\ quit' = TRUE
      /\ UNCHANGED <<lock, flags, q, arg, fresh, op, finished, joining>>
  BY <1>0, <1>1, ThreadFacts DEF Destroy, queueVars, workVars
<1>3. TypeOK'
  BY <1>0, <1>1, <1>2, ThreadFacts
     DEF Control, TypeOK, Labels, WorkerLabels, ProducerLabels
<1>4. LockInv'
  BY <1>0, <1>1, <1>2, ThreadFacts DEF Control, LockInv
<1>5. OpInv' /\ ArgInv'
  BY <1>0, <1>1, <1>2, ThreadFacts DEF Control, OpInv, ArgInv
<1>6. OwnerInv'
  BY <1>0, <1>1, <1>2, ThreadFacts DEF Control, OwnerInv, Joining, Joined
<1>7. QuitInv'
  BY <1>0, <1>1, <1>2, ThreadFacts DEF Control, QuitInv, Joining, Joined
<1>8. JoinInv'
  BY <1>0, <1>1, <1>2, ThreadFacts, WorkerFacts
     DEF Control, JoinInv, Joining, Joined
<1>9. NoneStranded'
  BY <1>2 DEF NoneStranded
<1> QED BY <1>3, <1>4, <1>5, <1>6, <1>7, <1>8, <1>9 DEF IInv, Control

LEMMA WakeInv ==
    ASSUME IInv, Wake
    PROVE  IInv'
<1>0. Control /\ NoneStranded
  BY DEF IInv
<1>1. /\ pc' \in [Threads -> Labels]
      /\ pc[Owner] = "wake" /\ pc'[Owner] = "await"
      /\ \A s \in Threads \ {Owner} : pc'[s] = pc[s] \/ Woken(s)
      /\ flags' \subseteq {"WAKE", "EXIT"}
  BY <1>0, SetBitEffect, ThreadFacts DEF Wake, Control, Labels, ProducerLabels
<1>2. /\ UNCHANGED <<lock, q, arg, fresh, op, finished, quit, joining>>
  BY <1>0, <1>1, ThreadFacts DEF Wake, queueVars, workVars, quitVars
<1>3. TypeOK'
  BY <1>0, <1>1, <1>2, ThreadFacts
     DEF Control, TypeOK, Labels, WorkerLabels, ProducerLabels, Woken
<1>4. LockInv'
  BY <1>0, <1>1, <1>2, ThreadFacts DEF Control, LockInv, Woken
<1>5. OpInv' /\ ArgInv'
  BY <1>0, <1>1, <1>2, ThreadFacts DEF Control, OpInv, ArgInv, Woken
<1>6. OwnerInv'
  BY <1>0, <1>1, <1>2, ThreadFacts DEF Control, OwnerInv, Joining, Joined, Woken
<1>7. QuitInv'
  BY <1>0, <1>1, <1>2, ThreadFacts DEF Control, QuitInv, Joining, Joined, Woken
<1>8. JoinInv'
  BY <1>0, <1>1, <1>2, ThreadFacts, WorkerFacts
     DEF Control, JoinInv, Joining, Joined, Woken
<1>9. NoneStranded'
  BY <1>0, <1>1, <1>2 DEF NoneStranded, Control, QuitInv, Joining
<1> QED BY <1>3, <1>4, <1>5, <1>6, <1>7, <1>8, <1>9 DEF IInv, Control

\* The owner's wait for the exit of a worker begins, succeeds or times out.
LEMMA OwnerWaitInv ==
    ASSUME IInv, AwaitExit \/ Timeout
    PROVE  IInv'
<1>0. Control /\ NoneStranded
  BY DEF IInv
<1>1. /\ pc' \in [Threads -> Labels]
      /\ pc[Owner] \in {"await", "timed"} /\ pc'[Owner] \in {"timed", "poll"}
      /\ \A s \in Threads \ {Owner} : pc'[s] = pc[s]
      /\ flags' \subseteq {"WAKE", "EXIT"}
  BY <1>0, GotoEffect, ThreadFacts DEF AwaitExit, Timeout, WaitBit, After, Control, TypeOK,
         Labels, ProducerLabels
<1>2. /\ UNCHANGED <<lock, q, arg, fresh, op, finished, quit, joining>>
  BY <1>0, <1>1, ThreadFacts DEF AwaitExit, Timeout, queueVars, workVars, quitVars
<1>3. TypeOK'
  BY <1>0, <1>1, <1>2, ThreadFacts
     DEF Control, TypeOK, Labels, WorkerLabels, ProducerLabels
<1>4. LockInv'
  BY <1>0, <1>1, <1>2, ThreadFacts DEF Control, LockInv
<1>5. OpInv' /\ ArgInv'
  BY <1>0, <1>1, <1>2, ThreadFacts DEF Control, OpInv, ArgInv
<1>6. OwnerInv'
  BY <1>0, <1>1, <1>2, ThreadFacts DEF Control, OwnerInv, Joining, Joined
<1>7. QuitInv'
  BY <1>0, <1>1, <1>2, ThreadFacts DEF Control, QuitInv, Joining, Joined
<1>8. JoinInv'
  BY <1>0, <1>1, <1>2, ThreadFacts, WorkerFacts
     DEF Control, JoinInv, Joining, Joined
<1>9. NoneStranded'
  BY <1>0, <1>1, <1>2 DEF NoneStranded, Control, QuitInv, Joining
<1> QED BY <1>3, <1>4, <1>5, <1>6, <1>7, <1>8, <1>9 DEF IInv, Control

\* The state of worker joining decides whether the destructor goes on to the next.
LEMMA PollInv ==
    ASSUME IInv, Poll
    PROVE  IInv'
<1>0. Control /\ NoneStranded
  BY DEF IInv
<1>1. /\ pc' \in [Threads -> Labels]
      /\ \A s \in Threads \ {Owner} : pc'[s] = pc[s]
      /\ pc[Owner] = "poll"
      /\ \/ pc'[Owner] = "wake" /\ joining' = joining
         \/ /\ pc[joining] = "ended" /\ joining' = joining + 1
            /\ pc'[Owner] = IF joining = NumWorkers THEN "cleanup" ELSE "wake"
  BY <1>0, GotoEffect, ThreadFacts DEF Poll, NextJoin, Control, Labels, ProducerLabels
<1>2. /\ joining \in Nat /\ joining <= NumWorkers /\ joining' \in 1 .. NumWorkers + 1
      /\ UNCHANGED <<lock, flags, q, arg, fresh, op, finished, quit>>
  BY <1>0, <1>1, ThreadFacts, WorkerFacts DEF Poll, queueVars, workVars, Control, TypeOK, JoinInv,
         Joining
<1>3. TypeOK'
  BY <1>0, <1>1, <1>2, ThreadFacts
     DEF Control, TypeOK, Labels, WorkerLabels, ProducerLabels
<1>4. LockInv'
  BY <1>0, <1>1, <1>2, ThreadFacts DEF Control, LockInv
<1>5. OpInv' /\ ArgInv'
  BY <1>0, <1>1, <1>2, ThreadFacts DEF Control, OpInv, ArgInv
<1>6. OwnerInv'
  BY <1>0, <1>1, <1>2, ThreadFacts DEF Control, OwnerInv, Joining, Joined
<1>7. QuitInv'
  BY <1>0, <1>1, <1>2, ThreadFacts DEF Control, QuitInv, Joining, Joined
<1>8. JoinInv'
  BY <1>0, <1>1, <1>2, ThreadFacts, WorkerFacts
     DEF Control, JoinInv, Joining, Joined
<1>9. NoneStranded'
  BY <1>0, <1>1, <1>2 DEF NoneStranded, Control, QuitInv, Joining
<1> QED BY <1>3, <1>4, <1>5, <1>6, <1>7, <1>8, <1>9 DEF IInv, Control

LEMMA CleanupInv ==
    ASSUME IInv, Cleanup
    PROVE  IInv'
<1>0. Control /\ NoneStranded
  BY DEF IInv
<1>1. /\ pc' \in [Threads -> Labels]
      /\ pc[Owner] = "cleanup" /\ pc'[Owner] = "destroyed"
      /\ \A s \in Threads \ {Owner} : pc'[s] = pc[s]
  BY <1>0, GotoEffect, ThreadFacts DEF Cleanup, Control, Labels, ProducerLabels
<1>2. /\ UNCHANGED <<lock, flags, q, arg, fresh, op, finished, quit, joining>>
  BY <1>0, <1>1, ThreadFacts DEF Cleanup, queueVars, workVars, quitVars
<1>3. TypeOK'
  BY <1>0, <1>1, <1>2, ThreadFacts
     DEF Control, TypeOK, Labels, WorkerLabels, ProducerLabels
<1>4. LockInv'
  BY <1>0, <1>1, <1>2, ThreadFacts DEF Control, LockInv
<1>5. OpInv' /\ ArgInv'
  BY <1>0, <1>1, <1>2, ThreadFacts DEF Control, OpInv, ArgInv
<1>6. OwnerInv'
  BY <1>0, <1>1, <1>2, ThreadFacts DEF Control, OwnerInv, Joining, Joined
<1>7. QuitInv'
  BY <1>0, <1>1, <1>2, ThreadFacts DEF Control, QuitInv, Joining, Joined
<1>8. JoinInv'
  BY <1>0, <1>1, <1>2, ThreadFacts, WorkerFacts
     DEF Control, JoinInv, Joining, Joined
<1>9. NoneStranded'
  BY <1>0, <1>1, <1>2 DEF NoneStranded, Control, QuitInv, Joined
<1> QED BY <1>3, <1>4, <1>5, <1>6, <1>7, <1>8, <1>9 DEF IInv, Control

LEMMA GoWaitInv ==
    ASSUME IInv, NEW w \in Workers, GoWait(w)
    PROVE  IInv'
<1>0. Control /\ NoneStranded
  BY DEF IInv
<1>1. /\ pc' \in [Threads -> Labels]
      /\ pc[w] = "check" /\ pc'[w] = "towait"
      /\ \A s \in Threads \ {w} : pc'[s] = pc[s]
  BY <1>0, GotoEffect, ThreadFacts DEF GoWait, Control, Labels, WorkerLabels
<1>2. /\ lock = w /\ lock' = NoOne /\ q = <<>>
      /\ UNCHANGED <<flags, q, arg, fresh, op, finished, quit, joining>>
  BY <1>0, <1>1, ThreadFacts DEF GoWait, Control, LockInv, queueVars, workVars, quitVars
<1>3. TypeOK'
  BY <1>0, <1>1, <1>2, ThreadFacts
     DEF Control, TypeOK, Labels, WorkerLabels, ProducerLabels
<1>4. LockInv'
  BY <1>0, <1>1, <1>2, ThreadFacts DEF Control, LockInv
<1>5. OpInv' /\ ArgInv'
  BY <1>0, <1>1, <1>2, ThreadFacts DEF Control, OpInv, ArgInv
<1>6. OwnerInv'
  BY <1>0, <1>1, <1>2, ThreadFacts DEF Control, OwnerInv, Joining, Joined
<1>7. QuitInv'
  BY <1>0, <1>1, <1>2, ThreadFacts DEF Control, QuitInv, Joining, Joined
<1>8. JoinInv'
  BY <1>0, <1>1, <1>2, ThreadFacts, WorkerFacts
     DEF Control, JoinInv, Joining, Joined
<1>9. NoneStranded'
  BY <1>2 DEF NoneStranded
<1> QED BY <1>3, <1>4, <1>5, <1>6, <1>7, <1>8, <1>9 DEF IInv, Control

\* A worker that finds no bit to clear sleeps; whoever will look at the queue is another.
LEMMA AwaitWakeInv ==
    ASSUME IInv, NEW w \in Workers, AwaitWake(w)
    PROVE  IInv'
<1>0. Control /\ NoneStranded
  BY DEF IInv
<1>1. /\ pc' \in [Threads -> Labels]
      /\ pc[w] = "towait"
      /\ \A s \in Threads \ {w} : pc'[s] = pc[s]
      /\ \/ pc'[w] = "relock"
         \/ pc'[w] = "waiting" /\ "WAKE" \notin flags /\ flags' = flags
      /\ flags' \subseteq {"WAKE", "EXIT"}
  BY <1>0, GotoEffect, ThreadFacts DEF AwaitWake, WaitBit, After, Control, TypeOK, Labels,
         WorkerLabels
<1>2. /\ UNCHANGED <<lock, q, arg, fresh, op, finished, quit, joining>>
  BY <1>0, <1>1, ThreadFacts DEF AwaitWake, queueVars, workVars, quitVars
<1>3. TypeOK'
  BY <1>0, <1>1, <1>2, ThreadFacts
     DEF Control, TypeOK, Labels, WorkerLabels, ProducerLabels
<1>4. LockInv'
  BY <1>0, <1>1, <1>2, ThreadFacts DEF Control, LockInv
<1>5. OpInv' /\ ArgInv'
  BY <1>0, <1>1, <1>2, ThreadFacts DEF Control, OpInv, ArgInv
<1>6. OwnerInv'
  BY <1>0, <1>1, <1>2, ThreadFacts DEF Control, OwnerInv, Joining, Joined
<1>7. QuitInv'
  BY <1>0, <1>1, <1>2, ThreadFacts DEF Control, QuitInv, Joining, Joined
<1>8. JoinInv'
  BY <1>0, <1>1, <1>2, ThreadFacts, WorkerFacts
     DEF Control, JoinInv, Joining, Joined
<1>9. NoneStranded'
  BY <1>0, <1>1, <1>2, ThreadFacts DEF NoneStranded, Busy
<1> QED BY <1>3, <1>4, <1>5, <1>6, <1>7, <1>8, <1>9 DEF IInv, Control

LEMMA TakeInv ==
    ASSUME IInv, NEW w \in Workers, Take(w)
    PROVE  IInv'
<1>0. Control /\ NoneStranded
  BY DEF IInv
<1>1. /\ pc' \in [Threads -> Labels]
      /\ pc[w] = "check" /\ pc'[w] = "running"
      /\ \A s \in Threads \ {w} : pc'[s] = pc[s]
  BY <1>0, GotoEffect, ThreadFacts DEF Take, Control, Labels, WorkerLabels
<1>2. /\ lock = w /\ lock' = NoOne /\ ~quit
      /\ UNCHANGED <<flags, arg, fresh, finished, quit, joining>>
  BY <1>0, <1>1, ThreadFacts DEF Take, Control, LockInv, quitVars
<1>3. q' \in Seq(Ops) /\ Head(q) \in Ops
  BY <1>0, HeadTailProperties DEF Take, Control, TypeOK
<1>4. /\ op' \in [Workers -> Ops \cup {NoOp}]
      /\ op'[w] # NoOp /\ \A v \in Workers \ {w} : op'[v] = op[v]
  BY <1>0, <1>3, OpsAssumption DEF Take, Control, TypeOK
<1>5. TypeOK'
  BY <1>0, <1>1, <1>2, <1>3, <1>4, ThreadFacts
     DEF Control, TypeOK, Labels, WorkerLabels, ProducerLabels
<1>6. LockInv'
  BY <1>0, <1>1, <1>2, <1>3, <1>4, ThreadFacts DEF Control, LockInv
<1>7. OpInv' /\ ArgInv'
  BY <1>0, <1>1, <1>2, <1>3, <1>4, ThreadFacts DEF Control, OpInv, ArgInv
<1>8. OwnerInv'
  BY <1>0, <1>1, <1>2, <1>3, <1>4, ThreadFacts DEF Control, OwnerInv, Joining, Joined
<1>9. QuitInv'
  BY <1>0, <1>1, <1>2, <1>3, <1>4, ThreadFacts DEF Control, QuitInv, Joining, Joined
<1>10. JoinInv'
  BY <1>0, <1>1, <1>2, <1>3, <1>4, ThreadFacts, WorkerFacts
     DEF Control, JoinInv, Joining, Joined
<1>11. NoneStranded'
  BY <1>0, <1>1, <1>2, <1>3, <1>4, ThreadFacts DEF NoneStranded, Busy
<1> QED BY <1>5, <1>6, <1>7, <1>8, <1>9, <1>10, <1>11 DEF IInv, Control

LEMMA FinishInv ==
    ASSUME IInv, NEW w \in Workers, Finish(w)
    PROVE  IInv'
<1>0. Control /\ NoneStranded
  BY DEF IInv
<1>1. /\ pc' \in [Threads -> Labels]
      /\ pc[w] = "running" /\ pc'[w] = "relock"
      /\ \A s \in Threads \ {w} : pc'[s] = pc[s]
  BY <1>0, GotoEffect, ThreadFacts DEF Finish, Control, Labels, WorkerLabels
<1>2. /\ op' \in [Workers -> Ops \cup {NoOp}]
      /\ op'[w] = NoOp /\ \A v \in Workers \ {w} : op'[v] = op[v]
      /\ UNCHANGED <<lock, flags, q, arg, fresh, quit, joining>>
  BY <1>0, <1>1, ThreadFacts DEF Finish, Control, TypeOK, queueVars, quitVars
<1>3. finished' \subseteq Ops
  BY <1>0, <1>1 DEF Finish, Control, TypeOK, OpInv
<1>4. TypeOK'
  BY <1>0, <1>1, <1>2, <1>3, ThreadFacts
     DEF Control, TypeOK, Labels, WorkerLabels, ProducerLabels
<1>5. LockInv'
  BY <1>0, <1>1, <1>2, <1>3, ThreadFacts DEF Control, LockInv
<1>6. OpInv' /\ ArgInv'
  BY <1>0, <1>1, <1>2, <1>3, ThreadFacts DEF Control, OpInv, ArgInv
<1>7. OwnerInv'
  BY <1>0, <1>1, <1>2, <1>3, ThreadFacts DEF Control, OwnerInv, Joining, Joined
<1>8. QuitInv'
  BY <1>0, <1>1, <1>2, <1>3, ThreadFacts DEF Control, QuitInv, Joining, Joined
<1>9. JoinInv'
  BY <1>0, <1>1, <1>2, <1>3, ThreadFacts, WorkerFacts
     DEF Control, JoinInv, Joining, Joined
<1>10. NoneStranded'
  BY <1>0, <1>1, <1>2, <1>3, ThreadFacts DEF NoneStranded, Busy
<1> QED BY <1>4, <1>5, <1>6, <1>7, <1>8, <1>9, <1>10 DEF IInv, Control

LEMMA LeaveInv ==
    ASSUME IInv, NEW w \in Workers, Leave(w)
    PROVE  IInv'
<1>0. Control /\ NoneStranded
  BY DEF IInv
<1>1. /\ pc' \in [Threads -> Labels]
      /\ pc[w] = "check" /\ pc'[w] = "exit"
      /\ \A s \in Threads \ {w} : pc'[s] = pc[s]
  BY <1>0, GotoEffect, ThreadFacts DEF Leave, Control, Labels, WorkerLabels
<1>2. /\ lock = w /\ lock' = NoOne /\ quit
      /\ UNCHANGED <<flags, q, arg, fresh, op, finished, quit, joining>>
  BY <1>0, <1>1, ThreadFacts DEF Leave, Control, LockInv, queueVars, workVars, quitVars
<1>3. TypeOK'
  BY <1>0, <1>1, <1>2, ThreadFacts
     DEF Control, TypeOK, Labels, WorkerLabels, ProducerLabels
<1>4. LockInv'
  BY <1>0, <1>1, <1>2, ThreadFacts DEF Control, LockInv
<1>5. OpInv' /\ ArgInv'
  BY <1>0, <1>1, <1>2, ThreadFacts DEF Control, OpInv, ArgInv
<1>6. OwnerInv'
  BY <1>0, <1>1, <1>2, ThreadFacts DEF Control, OwnerInv, Joining, Joined
<1>7. QuitInv'
  BY <1>0, <1>1, <1>2, ThreadFacts DEF Control, QuitInv, Joining, Joined
<1>8. JoinInv'
  BY <1>0, <1>1, <1>2, ThreadFacts, WorkerFacts
     DEF Control, JoinInv, Joining, Joined
<1>9. NoneStranded'
  BY <1>2 DEF NoneStranded
<1> QED BY <1>3, <1>4, <1>5, <1>6, <1>7, <1>8, <1>9 DEF IInv, Control

LEMMA SetExitInv ==
    ASSUME IInv, NEW w \in Workers, SetExit(w)
    PROVE  IInv'
<1>0. Control /\ NoneStranded
  BY DEF IInv
<1>1. /\ pc' \in [Threads -> Labels]
      /\ pc[w] = "exit" /\ pc'[w] = "delete"
      /\ \A s \in Threads \ {w} : pc'[s] = pc[s] \/ Woken(s)
      /\ flags' \subseteq {"WAKE", "EXIT"}
  BY <1>0, SetBitEffect, ThreadFacts DEF SetExit, Control, Labels, WorkerLabels
<1>2. /\ UNCHANGED <<lock, q, arg, fresh, op, finished, quit, joining>>
      /\ quit
  BY <1>0, <1>1, ThreadFacts DEF SetExit, Control, QuitInv, queueVars, workVars, quitVars
<1>3. TypeOK'
  BY <1>0, <1>1, <1>2, ThreadFacts
     DEF Control, TypeOK, Labels, WorkerLabels, ProducerLabels, Woken
<1>4. LockInv'
  BY <1>0, <1>1, <1>2, ThreadFacts DEF Control, LockInv, Woken
<1>5. OpInv' /\ ArgInv'
  BY <1>0, <1>1, <1>2, ThreadFacts DEF Control, OpInv, ArgInv, Woken
<1>6. OwnerInv'
  BY <1>0, <1>1, <1>2, ThreadFacts DEF Control, OwnerInv, Joining, Joined, Woken
<1>7. QuitInv'
  BY <1>0, <1>1, <1>2, ThreadFacts DEF Control, QuitInv, Joining, Joined, Woken
<1>8. JoinInv'
  BY <1>0, <1>1, <1>2, ThreadFacts, WorkerFacts
     DEF Control, JoinInv, Joining, Joined, Woken
<1>9. NoneStranded'
  BY <1>2 DEF NoneStranded
<1> QED BY <1>3, <1>4, <1>5, <1>6, <1>7, <1>8, <1>9 DEF IInv, Control

LEMMA DeleteInv ==
    ASSUME IInv, NEW w \in Workers, Delete(w)
    PROVE  IInv'
<1>0. Control /\ NoneStranded
  BY DEF IInv
<1>1. /\ pc' \in [Threads -> Labels]
      /\ pc[w] = "delete" /\ pc'[w] = "ended"
      /\ \A s \in Threads \ {w} : pc'[s] = pc[s]
  BY <1>0, GotoEffect, ThreadFacts DEF Delete, Control, Labels, WorkerLabels
<1>2. /\ UNCHANGED <<lock, flags, q, arg, fresh, op, finished, quit, joining>>
      /\ quit
  BY <1>0, <1>1, ThreadFacts DEF Delete, Control, QuitInv, queueVars, workVars, quitVars
<1>3. TypeOK'
  BY <1>0, <1>1, <1>2, ThreadFacts
     DEF Control, TypeOK, Labels, WorkerLabels, ProducerLabels
<1>4. LockInv'
  BY <1>0, <1>1, <1>2, ThreadFacts DEF Control, LockInv
<1>5. OpInv' /\ ArgInv'
  BY <1>0, <1>1, <1>2, ThreadFacts DEF Control, OpInv, ArgInv
<1>6. OwnerInv'
  BY <1>0, <1>1, <1>2, ThreadFacts DEF Control, OwnerInv, Joining, Joined
<1>7. QuitInv'
  BY <1>0, <1>1, <1>2, ThreadFacts DEF Control, QuitInv, Joining, Joined
<1>8. JoinInv'
  BY <1>0, <1>1, <1>2, ThreadFacts, WorkerFacts
     DEF Control, JoinInv, Joining, Joined
<1>9. NoneStranded'
  BY <1>2 DEF NoneStranded
<1> QED BY <1>3, <1>4, <1>5, <1>6, <1>7, <1>8, <1>9 DEF IInv, Control

LEMMA StepInv == IInv /\ [Next]_vars => IInv'
<1> SUFFICES ASSUME IInv, [Next]_vars PROVE IInv'
  OBVIOUS
<1>1. CASE UNCHANGED vars
  BY <1>1 DEF vars, queueVars, workVars, quitVars, IInv, Control, TypeOK, LockInv, OpInv,
              ArgInv, OwnerInv, QuitInv, JoinInv, NoneStranded
<1> QED
  BY <1>1, SpawnInv, ConstructedInv, AcquireInv, DispatchInv, PushInv, SetWakeInv,
     DestroyInv, WakeInv, OwnerWaitInv, PollInv, CleanupInv, GoWaitInv, AwaitWakeInv,
     TakeInv, FinishInv, LeaveInv, SetExitInv, DeleteInv
     DEF Next, Step, Over

\* The inductive invariant holds in every reachable state.
THEOREM InductiveInvariant == Spec => []IInv
BY InitInv, StepInv, PTL DEF Spec

\* Every variable keeps its type (dispatch_freertos.cpp:63-215).
THEOREM TypeCorrect == Spec => []TypeOK
<1>1. IInv => TypeOK
  BY DEF IInv, Control
<1> QED BY <1>1, InductiveInvariant, PTL

\* With any number of workers, producers and operations, no queued operation is
\* left to sleeping workers (dispatch_freertos.cpp:142-201).
THEOREM NoOperationStranded == Spec => []NoneStranded
<1>1. IInv => NoneStranded
  BY DEF IInv
<1> QED BY <1>1, InductiveInvariant, PTL

\* The destructor deletes the mutex and the event group when every worker has
\* been deleted and nobody holds the mutex (dispatch_freertos.cpp:110-140).
THEOREM CleanupAlone == Spec => []QuietAtCleanup
<1>1. ASSUME IInv PROVE QuietAtCleanup
  <2> SUFFICES ASSUME pc[Owner] \in {"cleanup", "destroyed"}
               PROVE  /\ lock = NoOne
                      /\ \A t \in Threads \ {Owner} : pc[t] \in {"ended", "done"}
    BY DEF QuietAtCleanup
  <2>1. \A w \in Workers : pc[w] = "ended"
    BY <1>1, WorkerFacts DEF IInv, Control, JoinInv, Joined
  <2>2. \A p \in Producers \ {Owner} : pc[p] = "done"
    BY <1>1 DEF IInv, Control, OwnerInv, Joined
  <2>3. \A t \in Threads \ {Owner} : pc[t] \in {"ended", "done"}
    BY <2>1, <2>2, ThreadFacts
  <2>4. lock = NoOne
    BY <1>1, <2>3 DEF IInv, Control, TypeOK, LockInv
  <2> QED BY <2>3, <2>4
<1> QED BY <1>1, InductiveInvariant, PTL

-----------------------------------------------------------------------------
(* The refinement.                                                         *)

LEMMA InitMaps == Init => Pool!Init
<1> SUFFICES ASSUME Init PROVE Pool!Init
  OBVIOUS
<1>1. pc[Owner] = "constructing" /\ ~quit
  BY ThreadFacts DEF Init
<1> QED BY <1>1 DEF Init, Pool!Init, Phase

\* Steps that change neither queue nor what is running, nor pass a phase.
LEMMA AloofMaps ==
    ASSUME UNCHANGED <<q, op, finished, quit>>,
           pc'[Owner] = "destroyed" <=> pc[Owner] = "destroyed"
    PROVE  UNCHANGED Pool!vars
BY DEF Pool!vars, Phase

\* A dispatch takes effect when the operation is pushed, before the bit is set.
LEMMA PushMaps ==
    ASSUME IInv, NEW t \in Threads, Push(t)
    PROVE  Pool!Next
<1>1. /\ pc[t] = "push" /\ q' = Append(q, arg[t])
      /\ UNCHANGED <<op, finished, quit>>
  BY DEF Push, workVars, quitVars
<1>2. arg[t] \in Ops
  BY <1>1 DEF IInv, Control, ArgInv
<1>3. pc[Owner] # "destroyed"
  <2>1. CASE t \in Workers
    BY <1>1, <2>1, WorkerFacts DEF IInv, Control, JoinInv, Joined
  <2>2. CASE t \in Producers
    BY <1>1, <2>2 DEF IInv, Control, OwnerInv, Joined
  <2> QED BY <2>1, <2>2, ThreadFacts
<1>4. pc'[Owner] # "destroyed"
  BY <1>3, GotoEffect, ThreadFacts DEF Push, IInv, Control, Labels, WorkerLabels
<1>5. Phase' = Phase /\ Phase # "gone"
  BY <1>1, <1>3, <1>4 DEF Phase
<1>6. Pool!Submit(arg[t])
  BY <1>1, <1>5 DEF Pool!Submit
<1> QED BY <1>2, <1>6 DEF Pool!Next

LEMMA TakeMaps ==
    ASSUME IInv, NEW w \in Workers, Take(w)
    PROVE  Pool!Next
<1>1. /\ pc[w] = "check" /\ pc'[Owner] = pc[Owner]
      /\ ~quit /\ q # <<>>
  BY GotoEffect, ThreadFacts DEF Take, IInv, Control, Labels, WorkerLabels
<1>2. op[w] = NoOp
  BY <1>1 DEF IInv, Control, OpInv
<1>3. Phase = "open" /\ Phase' = Phase
  BY <1>1 DEF IInv, Control, QuitInv, Joined, Phase, Take, quitVars
<1>4. Pool!Start(w)
  BY <1>1, <1>2, <1>3 DEF Pool!Start, Take
<1> QED BY <1>4 DEF Pool!Next

LEMMA FinishMaps ==
    ASSUME IInv, NEW w \in Workers, Finish(w)
    PROVE  Pool!Next
<1>1. pc[w] = "running" /\ pc'[Owner] = pc[Owner]
  BY GotoEffect, ThreadFacts DEF Finish, IInv, Control, Labels, WorkerLabels
<1>2. op[w] # NoOp
  BY <1>1 DEF IInv, Control, OpInv
<1>3. Phase' = Phase
  BY <1>1 DEF Phase, Finish, quitVars
<1>4. Pool!Finish(w)
  BY <1>2, <1>3 DEF Pool!Finish, Finish, queueVars
<1> QED BY <1>4 DEF Pool!Next

LEMMA DestroyMaps ==
    ASSUME IInv, Destroy
    PROVE  Pool!Next
<1>1. pc[Owner] = "idle" /\ pc'[Owner] = "wake" /\ quit'
  BY ThreadFacts DEF Destroy
<1>2. ~quit
  BY <1>1 DEF IInv, Control, QuitInv, Joining, Joined
<1>3. Phase = "open" /\ Phase' = "closing"
  BY <1>1, <1>2 DEF Phase
<1>4. Pool!Close
  BY <1>3 DEF Pool!Close, Destroy, queueVars, workVars
<1> QED BY <1>4 DEF Pool!Next

LEMMA CleanupMaps ==
    ASSUME IInv, Cleanup
    PROVE  Pool!Next
<1>1. pc[Owner] = "cleanup" /\ pc'[Owner] = "destroyed"
  BY GotoEffect, ThreadFacts DEF Cleanup, IInv, Control, Labels, ProducerLabels
<1>2. quit /\ UNCHANGED <<q, op, finished, quit>>
  BY <1>1 DEF Cleanup, IInv, Control, QuitInv, Joined, queueVars, workVars, quitVars
<1>3. \A w \in Workers : op[w] = NoOp
  BY <1>1, WorkerFacts DEF IInv, Control, OpInv, JoinInv, Joined
<1>4. Phase = "closing" /\ Phase' = "gone"
  BY <1>1, <1>2 DEF Phase
<1>5. Pool!Vanish
  BY <1>2, <1>3, <1>4 DEF Pool!Vanish
<1> QED BY <1>5 DEF Pool!Next

\* The steps of a worker that neither touch the queue nor run an operation.
LEMMA WorkerAloof ==
    ASSUME IInv, NEW w \in Workers,
           \/ Spawn(w) \/ GoWait(w) \/ AwaitWake(w) \/ Leave(w)
           \/ SetExit(w) \/ Delete(w)
    PROVE  UNCHANGED Pool!vars
<1>0. TypeOK
  BY DEF IInv, Control
<1>1. pc'[Owner] = "destroyed" <=> pc[Owner] = "destroyed"
  <2>1. CASE SetExit(w)
    BY <1>0, <2>1, SetBitEffect, ThreadFacts DEF SetExit, Woken, Labels, WorkerLabels
  <2>2. CASE AwaitWake(w)
    BY <1>0, <2>2, GotoEffect, ThreadFacts
       DEF AwaitWake, WaitBit, After, Labels, WorkerLabels
  <2>3. CASE Spawn(w) \/ GoWait(w) \/ Leave(w) \/ Delete(w)
    <3>1. PICK l \in {"start", "towait", "exit", "ended"} : Goto(w, l)
      BY <2>3 DEF Spawn, GoWait, Leave, Delete
    <3> QED BY <1>0, <3>1, GotoEffect, ThreadFacts DEF Labels, WorkerLabels
  <2> QED BY <2>1, <2>2, <2>3
<1> QED
  BY <1>1, AloofMaps
     DEF Spawn, GoWait, AwaitWake, Leave, SetExit, Delete, queueVars, workVars, quitVars

\* The steps of the owner before the last.
LEMMA OwnerAloof ==
    ASSUME IInv, Constructed \/ Wake \/ AwaitExit \/ Timeout \/ Poll
    PROVE  UNCHANGED Pool!vars
<1>0. TypeOK
  BY DEF IInv, Control
<1>1. pc[Owner] # "destroyed"
  BY DEF Constructed, Wake, AwaitExit, Timeout, Poll
<1>2. pc'[Owner] # "destroyed"
  <2>1. CASE Wake
    BY <1>0, <2>1, SetBitEffect, ThreadFacts DEF Wake, Labels, ProducerLabels
  <2>2. CASE AwaitExit
    BY <1>0, <2>2, GotoEffect, ThreadFacts
       DEF AwaitExit, WaitBit, After, Labels, ProducerLabels
  <2>3. CASE Constructed \/ Timeout \/ Poll
    <3>1. PICK l \in {"idle", "poll", "wake", "cleanup"} : Goto(Owner, l)
      BY <2>3 DEF Constructed, Timeout, Poll, NextJoin
    <3> QED BY <1>0, <3>1, GotoEffect, ThreadFacts DEF Labels, ProducerLabels
  <2> QED BY <2>1, <2>2, <2>3
<1> QED
  BY <1>1, <1>2, AloofMaps
     DEF Constructed, Wake, AwaitExit, Timeout, Poll, queueVars, workVars, quitVars

\* The steps of any task on its way into and out of dispatch.
LEMMA CallAloof ==
    ASSUME IInv, NEW t \in Threads,
           Acquire(t) \/ SetWake(t) \/ \E f \in Ops : Dispatch(t, f)
    PROVE  UNCHANGED Pool!vars
<1>0. Control /\ TypeOK
  BY DEF IInv, Control
<1>1. pc'[Owner] = "destroyed" <=> pc[Owner] = "destroyed"
  <2>1. CASE Acquire(t)
    BY <1>0, <2>1, AcquireEffect, ThreadFacts
  <2>2. CASE SetWake(t)
    BY <1>0, <2>2, SetBitEffect, ThreadFacts
       DEF SetWake, Home, Woken, Labels, WorkerLabels, ProducerLabels
  <2>3. ASSUME NEW f \in Ops, Dispatch(t, f)
        PROVE  pc'[Owner] = "destroyed" <=> pc[Owner] = "destroyed"
    BY <1>0, <2>3, GotoEffect, ThreadFacts DEF Dispatch, Home, Labels, WorkerLabels
  <2> QED BY <2>1, <2>2, <2>3
<1> QED
  BY <1>1, AloofMaps DEF Acquire, SetWake, Dispatch, queueVars, workVars, quitVars

LEMMA StepMaps == IInv /\ [Next]_vars => [Pool!Next]_(Pool!vars)
<1> SUFFICES ASSUME IInv, [Next]_vars PROVE [Pool!Next]_(Pool!vars)
  OBVIOUS
<1>1. CASE UNCHANGED vars
  BY <1>1, AloofMaps DEF vars, queueVars, workVars, quitVars
<1> QED
  BY <1>1, PushMaps, TakeMaps, FinishMaps, DestroyMaps, CleanupMaps, WorkerAloof,
     OwnerAloof, CallAloof
     DEF Next, Step, Over

\* The queue on event flags is an executor too, for any number of workers and
\* operations: what it loses against the condition variable is concurrency, not
\* order, operations or the quiet end.
THEOREM Refinement == Spec => ImplementsExecutor
<1>1. Spec => Pool!Init /\ [][Pool!Next]_(Pool!vars)
  BY InitMaps, StepMaps, InductiveInvariant, PTL DEF Spec
<1> QED BY <1>1 DEF ImplementsExecutor, Pool!Spec

====

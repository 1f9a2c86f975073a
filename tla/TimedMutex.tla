----------------------------- MODULE TimedMutex -----------------------------
(***************************************************************************)
(* timed_mutex and recursive_timed_mutex: a lock made of a plain mutex     *)
(* that protects two words, and a condition variable on which the threads  *)
(* sleep that find it taken.  `holder' has the inner mutex __m_, `count'   *)
(* is __count_ (of timed_mutex: __locked_, as 0 or 1).                     *)
(*                                                                         *)
(* The callers are threads that lock and unlock as the standard allows:    *)
(* only the holder unlocks, only a recursive lock is taken twice, and a    *)
(* thread destroys it when nobody holds it and no call but an unlock() is  *)
(* still on its way out.                                                   *)
(***************************************************************************)
EXTENDS Callers, Integers, FiniteSets

CONSTANTS Limit,     \* numeric_limits<size_t>::max()
          MaxLocks   \* bound: calls that lock
ASSUME TimedMutexAssumption == Limit \in Nat \ {0} /\ MaxLocks \in Nat

VARIABLES recursive, \* which of the two classes
          pc, holder, count, id,
          waiting,   \* asleep in __cv_
          deadline,  \* of the current call: "none", "ahead" or "past"
          held,      \* what the callers have been told: locks each has
          gone,      \* destroyed
          locks      \* calls made that lock
tmvars == <<recursive, pc, holder, count, id, waiting, deadline, held, gone, locks>>

TMInit ==
  /\ recursive \in BOOLEAN
  /\ pc = [t \in Threads |-> "idle"] /\ holder = None
  /\ count = 0 /\ id = None /\ waiting = {}
  /\ deadline = [t \in Threads |-> "none"]
  /\ held = [t \in Threads |-> 0] /\ gone = FALSE /\ locks = 0

Goto(t, l) == pc' = [pc EXCEPT ![t] = l]
Take(t) == holder = None /\ holder' = t
NotifyOne == \/ waiting = {} /\ UNCHANGED waiting
             \/ \E w \in waiting : waiting' = waiting \ {w}
Gain(t) ==
  /\ count' = count + 1
  /\ id' = IF recursive THEN t ELSE id
  /\ held' = [held EXCEPT ![t] = @ + 1]

-----------------------------------------------------------------------------
(* lock(), try_lock_until() and try_lock()                                 *)

MayLock(t) == /\ ~gone /\ pc[t] = "idle" /\ locks < MaxLocks
              /\ recursive \/ held[t] = 0

Call(t) ==
  /\ MayLock(t) /\ locks' = locks + 1
  /\ \E d \in {"none", "ahead", "past"} : deadline' = [deadline EXCEPT ![t] = d]
  /\ Goto(t, "enter")
  /\ UNCHANGED <<recursive, holder, count, id, waiting, held, gone>>

\* at the start, and again when the wait is over
Enter(t) ==
  /\ pc[t] \in {"enter", "asleep"} /\ t \notin waiting
  /\ Take(t) /\ Goto(t, "check")
  /\ UNCHANGED <<recursive, count, id, waiting, deadline, held, gone, locks>>

Owned(t) == recursive /\ id = t

Sleeps(t) == count # 0 /\ ~Owned(t) /\ deadline[t] # "past"
BugGainsTaken(t) == TRUE   \* mutant: the wait's outcome is taken for the lock's
Gains(t) == count = 0 \/ (Owned(t) /\ count # Limit)

Check(t) ==
  /\ pc[t] = "check"
  /\ IF Sleeps(t)
     THEN /\ waiting' = waiting \cup {t} /\ holder' = None /\ Goto(t, "asleep")
          /\ UNCHANGED <<count, id, held>>
     ELSE /\ IF Gains(t) THEN Gain(t) ELSE UNCHANGED <<count, id, held>>
          /\ Goto(t, "answer") /\ UNCHANGED <<holder, waiting>>
  /\ UNCHANGED <<recursive, deadline, gone, locks>>

\* try_lock() that finds __m_ free; when it is not, it fails and changes nothing
TryLock(t) ==
  /\ MayLock(t) /\ locks' = locks + 1
  /\ Take(t) /\ Goto(t, "answer")
  /\ IF Gains(t) THEN Gain(t) ELSE UNCHANGED <<count, id, held>>
  /\ deadline' = [deadline EXCEPT ![t] = "none"]
  /\ UNCHANGED <<recursive, waiting, gone>>

-----------------------------------------------------------------------------
(* unlock()                                                                *)

CallUnlock(t) ==
  /\ ~gone /\ pc[t] = "idle" /\ held[t] > 0
  /\ Goto(t, "unlock")
  /\ deadline' = [deadline EXCEPT ![t] = "none"]
  /\ UNCHANGED <<recursive, holder, count, id, waiting, held, gone, locks>>

(***************************************************************************)
(* timed_mutex notifies while it has __m_, recursive_timed_mutex after it  *)
(* has given __m_ back.                                                    *)
(***************************************************************************)
BugUnlock(t) ==  \* mutant: nobody is notified
  /\ pc[t] = "unlock" /\ Take(t)
  /\ count' = count - 1 /\ held' = [held EXCEPT ![t] = @ - 1]
  /\ id' = (IF recursive /\ count = 1 THEN None ELSE id) /\ Goto(t, "leave")
  /\ UNCHANGED <<recursive, waiting, deadline, gone, locks>>
Unlock(t) ==
  /\ pc[t] = "unlock" /\ Take(t)
  /\ count' = count - 1 /\ held' = [held EXCEPT ![t] = @ - 1]
  /\ IF recursive
     THEN /\ IF count = 1 THEN id' = None /\ Goto(t, "leave to notify")
                          ELSE UNCHANGED id /\ Goto(t, "leave")
          /\ UNCHANGED waiting
     ELSE NotifyOne /\ UNCHANGED id /\ Goto(t, "leave")
  /\ UNCHANGED <<recursive, deadline, gone, locks>>

\* the guard's destructor gives __m_ back
Leave(t) ==
  /\ pc[t] \in {"answer", "leave", "leave to notify"}
  /\ holder' = None
  /\ Goto(t, IF pc[t] = "leave to notify" THEN "notify" ELSE "idle")
  /\ UNCHANGED <<recursive, count, id, waiting, deadline, held, gone, locks>>

Notify(t) ==
  /\ pc[t] = "notify" /\ NotifyOne /\ Goto(t, "idle")
  /\ UNCHANGED <<recursive, holder, count, id, deadline, held, gone, locks>>

-----------------------------------------------------------------------------
(* Time, the condition variable and the end.                               *)

Expire(t) ==
  /\ deadline[t] = "ahead" /\ pc[t] # "idle"
  /\ deadline' = [deadline EXCEPT ![t] = "past"]
  /\ UNCHANGED <<recursive, pc, holder, count, id, waiting, held, gone, locks>>

\* the wait ends at the deadline, or for no reason
WakeUp(t) ==
  /\ t \in waiting /\ waiting' = waiting \ {t}
  /\ UNCHANGED <<recursive, pc, holder, count, id, deadline, held, gone, locks>>

\* the destructor takes __m_ and gives it back before the members are destroyed
BugDestroys(t) == TRUE   \* mutant: an empty destructor
Destroys(t) == holder = None
Destroy(t) ==
  /\ ~gone /\ pc[t] = "idle" /\ \A u \in Threads : held[u] = 0
  /\ \A u \in Threads : pc[u] \in {"idle", "leave", "leave to notify", "notify"}
  /\ Destroys(t) /\ gone' = TRUE
  /\ UNCHANGED <<recursive, pc, holder, count, id, waiting, deadline, held, locks>>

Inside(t) == Enter(t) \/ Check(t) \/ Unlock(t) \/ Leave(t) \/ Notify(t)
TMNext == \E t \in Threads :
            \/ Call(t) \/ TryLock(t) \/ CallUnlock(t) \/ Inside(t)
            \/ Expire(t) \/ WakeUp(t) \/ Destroy(t)

(***************************************************************************)
(* Every thread that can go on does (a mutex that is free again and again  *)
(* is taken at last), time passes, and a wait ends after its deadline.     *)
(* Nothing makes a caller unlock.                                          *)
(***************************************************************************)
TMFairness ==
  \A t \in Threads :
    /\ SF_tmvars(Inside(t)) /\ WF_tmvars(Expire(t))
    /\ WF_tmvars(deadline[t] = "past" /\ WakeUp(t))
TMSpec == TMInit /\ [][TMNext]_tmvars /\ TMFairness
-----------------------------------------------------------------------------
(***************************************************************************)
(* Whatever the interleaving of unlocks, timeouts, wake-ups and barging    *)
(* try_lock()s, the callers see a lock: two threads are never told that    *)
(* they hold it, and a recursive one is free only after as many unlocks as *)
(* there were locks, at most Limit.                                        *)
(***************************************************************************)
Abstract == INSTANCE Lock
ImplementsLock == Abstract!Spec

(***************************************************************************)
(* Once the destructor is over no thread is inside a call, except that an  *)
(* unlock() of recursive_timed_mutex may still be about to notify.         *)
(***************************************************************************)
QuietAfterDestroy ==
  gone => \A t \in Threads : pc[t] = "idle" \/ (recursive /\ pc[t] = "notify")

(***************************************************************************)
(* A timed call returns although the holder never unlocks; every other     *)
(* call returns if the lock is free again and again: no unlock is lost, be *)
(* it that its notification went to a thread that timed out.               *)
(***************************************************************************)
LockCallsReturn ==
  \A t \in Threads :
    /\ (pc[t] # "idle" /\ deadline[t] # "none") ~> (pc[t] = "idle")
    /\ []<>(count = 0) => []<>(pc[t] = "idle")
=============================================================================

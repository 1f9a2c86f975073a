------------------------------ MODULE CallOnce ------------------------------
(***************************************************************************)
(* call_once: one mutex and one condition variable serve every flag of the *)
(* program.  A flag is 0, 1 while a thread runs its function, and ~0ul     *)
(* (Done) for ever after the function has returned; when it throws the     *)
(* flag is 0 again and another caller may try.                             *)
(*                                                                         *)
(* What is done under the mutex is one step; the function runs without it. *)
(***************************************************************************)
EXTENDS Callers, Integers, FiniteSets

CONSTANTS Flags,
          MaxOnces   \* bound: calls of call_once
ASSUME CallOnceAssumption == MaxOnces \in Nat

VARIABLES flag, at,
          on,        \* the flag of the thread's call
          asleepOn,  \* the threads asleep in cv
          completed, \* per flag, the times the function has returned
          returned,  \* <<t, f>>: a call of t on f has returned without an exception
          onces      \* calls made
covars == <<flag, at, on, asleepOn, completed, returned, onces>>

Done == -1  \* ~0ul

COInit ==
  /\ flag = [f \in Flags |-> 0] /\ at = [t \in Threads |-> "out"]
  /\ on = [t \in Threads |-> CHOOSE f \in Flags : TRUE]
  /\ asleepOn = {} /\ completed = [f \in Flags |-> 0]
  /\ returned = {} /\ onces = 0

At(t, l) == at' = [at EXCEPT ![t] = l]
Return(t, f) == At(t, "out") /\ returned' = returned \cup {<<t, f>>}

\* the flag is looked at without the mutex; a function that is done is not waited for
BugSkips(f) == flag[f] # 0  \* mutant: a function that has begun is not waited for
Skips(f) == flag[f] = Done
OnceCall(t, f) ==
  /\ at[t] = "out" /\ onces < MaxOnces /\ onces' = onces + 1
  /\ on' = [on EXCEPT ![t] = f]
  /\ IF Skips(f) THEN Return(t, f) ELSE At(t, "enter") /\ UNCHANGED returned
  /\ UNCHANGED <<flag, asleepOn, completed>>

\* under the mutex, at the start and after each wake-up
OnceEnter(t) ==
  LET f == on[t] IN
  /\ at[t] \in {"enter", "asleep"} /\ t \notin asleepOn
  /\ \/ flag[f] = 1 /\ asleepOn' = asleepOn \cup {t} /\ At(t, "asleep") /\ UNCHANGED <<flag, returned>>
     \/ flag[f] = 0 /\ flag' = [flag EXCEPT ![f] = 1] /\ At(t, "run") /\ UNCHANGED <<asleepOn, returned>>
     \/ flag[f] = Done /\ Return(t, f) /\ UNCHANGED <<flag, asleepOn>>
  /\ UNCHANGED <<on, completed, onces>>

\* the function returns or throws
OnceRun(t) ==
  /\ at[t] = "run"
  /\ \/ At(t, "ran") /\ completed' = [completed EXCEPT ![on[t]] = @ + 1]
     \/ At(t, "threw") /\ UNCHANGED completed
  /\ UNCHANGED <<flag, on, asleepOn, returned, onces>>

OnceStore(t) ==
  /\ \/ at[t] = "ran" /\ flag' = [flag EXCEPT ![on[t]] = Done] /\ At(t, "wake")
     \/ at[t] = "threw" /\ flag' = [flag EXCEPT ![on[t]] = 0] /\ At(t, "wake and throw")
  /\ UNCHANGED <<on, asleepOn, completed, returned, onces>>

\* mutant: one thread is woken, perhaps one that waits for another flag
BugWakes == IF asleepOn = {} THEN UNCHANGED asleepOn
                             ELSE \E t \in asleepOn : asleepOn' = asleepOn \ {t}
Wakes == asleepOn' = {}
OnceWake(t) ==
  /\ \/ at[t] = "wake" /\ Return(t, on[t])
     \/ at[t] = "wake and throw" /\ At(t, "out") /\ UNCHANGED returned
  /\ Wakes
  /\ UNCHANGED <<flag, on, completed, onces>>

OnceSpurious(t) ==
  /\ t \in asleepOn /\ asleepOn' = asleepOn \ {t}
  /\ UNCHANGED <<flag, at, on, completed, returned, onces>>

OnceInside(t) == OnceEnter(t) \/ OnceRun(t) \/ OnceStore(t) \/ OnceWake(t)
CONext == \E t \in Threads :
            (\E f \in Flags : OnceCall(t, f)) \/ OnceInside(t) \/ OnceSpurious(t)

\* a thread inside goes on, and the function comes to an end
COFairness == \A t \in Threads : WF_covars(OnceInside(t))
COSpec == COInit /\ [][CONext]_covars /\ COFairness
-----------------------------------------------------------------------------
(***************************************************************************)
(* However the callers race, however often the function throws first, and  *)
(* whichever caller takes the shortcut: a function returns at most once,   *)
(* two threads are never in it, and nobody's call_once has returned before *)
(* it did.                                                                 *)
(***************************************************************************)
OnlyOnce ==
  \A f \in Flags :
    LET inside == {t \in Threads : on[t] = f /\ at[t] \in {"run", "ran", "threw"}}
    IN  /\ completed[f] <= 1
        /\ Cardinality(inside) <= 1 /\ (completed[f] = 1 => \A t \in inside : at[t] = "ran")
        /\ \A t \in Threads : <<t, f>> \in returned => completed[f] = 1

(***************************************************************************)
(* Every call of call_once comes back, also the one that sleeps in the     *)
(* condition variable among callers that wait for other flags, and when    *)
(* the function it waits for ends with an exception.                       *)
(***************************************************************************)
OnceCallsReturn == \A t \in Threads : []<>(at[t] = "out")
=============================================================================

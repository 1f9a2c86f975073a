------------------------------ MODULE LockAll ------------------------------
(***************************************************************************)
(* std::lock of two or more locks: block on one, try the others in turn,   *)
(* and when one refuses give back what was taken and block on that one     *)
(* next.  Threads lock the same locks in different orders, some of them    *)
(* more locks than others.                                                 *)
(***************************************************************************)
EXTENDS Callers, Integers, Sequences, FiniteSets, SequencesExt

CONSTANT Wants    \* per thread, the arguments of its calls, without duplicates

VARIABLES owner, \* of each lock
          args,  \* of the thread's call, in the order of __lock_first's parameters
          i,     \* __i: which of the first two to block on
          k,     \* the locks taken in this round
          refused \* the lock that refused the last round, or None
lavars == <<owner, args, i, k, refused>>

Locks == UNION {ToSet(Wants[t]) : t \in Threads}

ASSUME WantsAssumption == Wants \in [Threads -> Seq(Locks)]

LAInit ==
  /\ owner = [l \in Locks |-> None]
  /\ args = [t \in Threads |-> <<>>] /\ i = [t \in Threads |-> 0]
  /\ k = [t \in Threads |-> 0] /\ refused = [t \in Threads |-> None]

Rotated(s, n) == SubSeq(s, n + 1, Len(s)) \o SubSeq(s, 1, n)
\* the order of this round: the case's own lock first
Round(t) == Rotated(args[t], i[t])
Set(f, t, v) == [f EXCEPT ![t] = v]

LockCall(t) ==
  /\ args[t] = <<>>
  /\ args' = Set(args, t, Wants[t])
  /\ i' = Set(i, t, 0) /\ k' = Set(k, t, 0) /\ refused' = Set(refused, t, None)
  /\ UNCHANGED owner

\* the unique_lock's lock() of the first, then try_lock of the others
LockNext(t) ==
  /\ args[t] # <<>> /\ k[t] < Len(args[t])
  /\ owner[Round(t)[k[t] + 1]] = None
  /\ owner' = Set(owner, Round(t)[k[t] + 1], t)
  /\ k' = Set(k, t, k[t] + 1)
  /\ UNCHANGED <<args, i, refused>>

(***************************************************************************)
(* Refused by the lock of index r of those that were tried, the thread     *)
(* gives its locks back and goes on with what __lock_first goes on with:   *)
(* the same arguments and a new __i, or, when that is not 0 or 1, itself   *)
(* with the arguments rotated by two until it is.  The lock() of two locks *)
(* is the same with two arguments.                                         *)
(***************************************************************************)
BugNext(t, r) == r + 1  \* mutant: case 1 counts as case 0 does
NextI(t, r) ==
  IF i[t] = 0 THEN r + 1
  ELSE IF r = Len(args[t]) - 2 THEN 0 ELSE r + 2

GivenBack(t) == {l \in ToSet(args[t]) : owner[l] = t}

LockRefused(t) ==
  /\ args[t] # <<>> /\ k[t] \in 1 .. Len(args[t]) - 1
  /\ owner[Round(t)[k[t] + 1]] # None
  /\ owner' = [l \in Locks |-> IF l \in GivenBack(t) THEN None ELSE owner[l]]
  /\ LET n == NextI(t, k[t] - 1)
     IN  /\ args' = Set(args, t, Rotated(args[t], 2 * (n \div 2)))
         /\ i' = Set(i, t, n % 2)
  /\ refused' = Set(refused, t, Round(t)[k[t] + 1])
  /\ k' = Set(k, t, 0)

\* the caller gives its locks back one by one
LockDone(t) == args[t] # <<>> /\ k[t] = Len(args[t])
UnlockOne(t) ==
  /\ LockDone(t)
  /\ \E l \in Locks :
       /\ owner[l] = t /\ owner' = Set(owner, l, None)
       /\ IF \E m \in Locks \ {l} : owner[m] = t THEN UNCHANGED args
                                                 ELSE args' = Set(args, t, <<>>)
  /\ UNCHANGED <<i, k, refused>>

LANext == \E t \in Threads : LockCall(t) \/ LockNext(t) \/ LockRefused(t) \/ UnlockOne(t)
LASpec == LAInit /\ [][LANext]_lavars
-----------------------------------------------------------------------------
(***************************************************************************)
(* What keeps std::lock from deadlock: a thread that blocks holds nothing, *)
(* so however the argument lists cross, no cycle of threads waits; and it  *)
(* blocks on the lock that refused it, whichever case and however many     *)
(* rotations brought it there, instead of spinning on a free one.          *)
(***************************************************************************)
BlocksEmptyHanded ==
  \A t \in Threads :
    args[t] # <<>> /\ k[t] = 0 =>
      /\ \A l \in Locks : owner[l] # t
      /\ refused[t] # None => Round(t)[1] = refused[t]

(***************************************************************************)
(* Once std::lock has returned the caller had all its locks; until then it *)
(* holds exactly those taken in this round, nobody else's.                 *)
(***************************************************************************)
HoldsItsRound ==
  \A t \in Threads :
    /\ args[t] # <<>> /\ ~LockDone(t) =>
         {l \in Locks : owner[l] = t} = {Round(t)[j] : j \in 1 .. k[t]}
    /\ args[t] = <<>> => \A l \in Locks : owner[l] # t

\* std::lock neither deadlocks nor leaves a lock behind, as BlocksEmptyHanded and
\* HoldsItsRound say.
LocksSafely == BlocksEmptyHanded /\ HoldsItsRound
=============================================================================

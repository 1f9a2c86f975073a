------------------------------ MODULE MCLibcpp ------------------------------
(* The three facilities of libcpp's mutex, one of them in each behaviour. *)
EXTENDS TimedMutex, CallOnce, LockAll

CONSTANTS t1, t2, t3, a, b, c, d
MCThreads == {t1, t2, t3}
\* lists that cross, of four, three and two locks
MCWants == [t \in MCThreads |-> CASE t = t1 -> <<a, b, c, d>>
                                  [] t = t2 -> <<d, b, a>>
                                  [] t = t3 -> <<c, a>>]

VARIABLE facility
mcvars == <<facility, tmvars, covars, lavars>>

MCInit ==
  /\ facility \in {"timed mutex", "call_once", "lock"}
  /\ TMInit /\ COInit /\ LAInit
  /\ facility = "timed mutex" \/ ~recursive

MCNext ==
  /\ UNCHANGED facility
  /\ \/ facility = "timed mutex" /\ TMNext /\ UNCHANGED <<covars, lavars>>
     \/ facility = "call_once" /\ CONext /\ UNCHANGED <<tmvars, lavars>>
     \/ facility = "lock" /\ LANext /\ UNCHANGED <<tmvars, covars>>

MCSpec == MCInit /\ [][MCNext]_mcvars /\ TMFairness /\ COFairness
-----------------------------------------------------------------------------
\* Nobody is left inside: every call of lock(), try_lock_until() and call_once
\* comes back, as LockCallsReturn and OnceCallsReturn say.
CallsReturn == LockCallsReturn /\ OnceCallsReturn
=============================================================================

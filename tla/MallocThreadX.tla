---- MODULE MallocThreadX ----
(***************************************************************************)
(* c/malloc/malloc_threadx.c: malloc and free over a ThreadX byte pool.    *)
(* `malloc` is a pointer that starts at init_malloc; the first caller is   *)
(* to swap it for do_malloc and create the pool, the others to wait in     *)
(* do_malloc until that is done.  The pool is ThreadX's, modelled from the *)
(* calls made here: it hands out one unit of memory per allocation, and an *)
(* allocation waits while there is none (TX_WAIT_FOREVER).                 *)
(***************************************************************************)
EXTENDS Callers, Naturals, FiniteSets

CONSTANTS Units,     \* the heap, in units of one allocation
          MaxOwned,  \* bound on what a thread holds at a time
          Checked    \* ThreadX is built with its error checking (the default)

ASSUME BoundAssumption == MaxOwned \in Nat \ {0}
ASSUME CheckedAssumption == Checked \in BOOLEAN

VARIABLES malloc,       \* which function the pointer points to
          initialized,  \* initialized_
          created,      \* whether malloc_pool_ is a pool
          pool,         \* the units the pool has to give
          owned,        \* the units each thread was given and has not freed
          stage,        \* where each thread stands in its call of malloc
          halted        \* an assertion has stopped the program

mxvars == <<malloc, initialized, created, pool, owned, stage, halted>>

Proceed(t, l) == stage' = [stage EXCEPT ![t] = l]

MXInit ==
    /\ malloc = "init"
    /\ initialized = FALSE
    /\ created = FALSE
    /\ pool = {}
    /\ owned = [t \in Threads |-> {}]
    /\ stage = [t \in Threads |-> "idle"]
    /\ halted = FALSE

\* malloc(size), size > 0, through the pointer as it is when it is read.
CallMalloc(t) ==
    /\ stage[t] = "idle"
    /\ Cardinality(owned[t]) < MaxOwned
    /\ Proceed(t, IF malloc = "init" THEN "swap" ELSE "wait")
    /\ UNCHANGED <<malloc, initialized, created, pool, owned, halted>>

\* __sync_val_compare_and_swap returns the pointer it found: init_malloc or
\* do_malloc, neither of which is null, so the test always succeeds.
BugSwap(t) ==
    /\ stage[t] = "swap"
    /\ malloc' = "do"
    /\ Proceed(t, "wait")
    /\ UNCHANGED <<initialized, created, pool, owned, halted>>
Swap(t) ==
    /\ stage[t] = "swap"
    /\ malloc' = "do"
    /\ Proceed(t, "create")
    /\ UNCHANGED <<initialized, created, pool, owned, halted>>

\* tx_byte_pool_create: given a pool that exists already, it reports an error
\* or, without error checking, makes all of the memory available once more.
BugCreate(t) ==
    /\ stage[t] = "create"
    /\ created' = TRUE
    /\ pool' = Units
    /\ Proceed(t, "signal")
    /\ UNCHANGED <<malloc, initialized, owned, halted>>
Create(t) ==
    /\ stage[t] = "create"
    /\ IF created /\ Checked
       THEN /\ halted' = TRUE
            /\ UNCHANGED <<created, pool, stage>>
       ELSE /\ created' = TRUE
            /\ pool' = Units
            /\ Proceed(t, "signal")
            /\ UNCHANGED halted
    /\ UNCHANGED <<malloc, initialized, owned>>

Signal(t) ==
    /\ stage[t] = "signal"
    /\ initialized' = TRUE
    /\ Proceed(t, "wait")
    /\ UNCHANGED <<malloc, created, pool, owned, halted>>

\* do_malloc: sleep until initialized_, then allocate.
BugWait(t) ==
    /\ stage[t] = "wait"
    /\ Proceed(t, "allocate")
    /\ UNCHANGED <<malloc, initialized, created, pool, owned, halted>>
Wait(t) ==
    /\ stage[t] = "wait"
    /\ initialized
    /\ Proceed(t, "allocate")
    /\ UNCHANGED <<malloc, initialized, created, pool, owned, halted>>

Allocate(t) ==
    /\ stage[t] = "allocate"
    /\ \E u \in pool :
          /\ pool' = pool \ {u}
          /\ owned' = [owned EXCEPT ![t] = @ \cup {u}]
    /\ Proceed(t, "idle")
    /\ UNCHANGED <<malloc, initialized, created, halted>>

\* free(ptr), with a pointer that malloc returned to the same thread.
CallFree(t) ==
    /\ stage[t] = "idle"
    /\ \E u \in owned[t] :
          IF initialized
          THEN /\ pool' = pool \cup {u}
               /\ owned' = [owned EXCEPT ![t] = @ \ {u}]
               /\ UNCHANGED halted
          ELSE /\ halted' = TRUE
               /\ UNCHANGED <<pool, owned>>
    /\ UNCHANGED <<malloc, initialized, created, stage>>

\* What a thread does inside malloc.
Work(t) ==
    /\ ~halted
    /\ Swap(t) \/ Create(t) \/ Signal(t) \/ Wait(t) \/ Allocate(t)

MXNext ==
    \/ \E t \in Threads : Work(t) \/ (~halted /\ (CallMalloc(t) \/ CallFree(t)))
    \/ halted /\ UNCHANGED mxvars

MXSpec == MXInit /\ [][MXNext]_mxvars

\* Every thread inside malloc is scheduled.
MXFairSpec == MXSpec /\ \A t \in Threads : WF_mxvars(Work(t))

-----------------------------------------------------------------------------
(* Properties.                                                             *)

MXTypeOK ==
    /\ malloc \in {"init", "do"}
    /\ initialized \in BOOLEAN /\ created \in BOOLEAN /\ halted \in BOOLEAN
    /\ pool \subseteq Units
    /\ owned \in [Threads -> SUBSET Units]
    /\ stage \in [Threads -> {"idle", "swap", "create", "signal", "wait", "allocate"}]

\* Nobody allocates from the pool, or holds memory it could free, before the
\* pool has been created and announced: losing the race to do_malloc is safe.
PoolBeforeUse ==
    \A t \in Threads :
        stage[t] = "allocate" \/ owned[t] # {} => created /\ initialized

\* With ThreadX's error checking, no memory is handed out twice: the second
\* creation of the pool, which would do that, stops the program instead.
HandedOutOnce ==
    Checked =>
        /\ \A t \in Threads : owned[t] \cap pool = {}
        /\ \A t, u \in Threads : t # u => owned[t] \cap owned[u] = {}

\* The threads that lose the race do not wait for ever.
WaitEnds == \A t \in Threads : stage[t] = "wait" ~> (stage[t] = "allocate" \/ halted)

====

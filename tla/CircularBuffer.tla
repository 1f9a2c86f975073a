---- MODULE CircularBuffer ----
(***************************************************************************)
(* The circular buffer of src/examples/c/circular_buffer with a `full`     *)
(* flag, used by one caller: circular_buffer.c and, with Modulo = FALSE,   *)
(* circular_buffer_no_modulo.c, whose only difference is how an index      *)
(* advances.  Each API call is one action; `reply` is what it returned.    *)
(***************************************************************************)
EXTENDS Ring

CONSTANTS Data,    \* the bytes that are stored
          Slots,   \* me->max: the size of the storage
          Modulo   \* which of the two files is built

\* circular_buf_init asserts size > 0.
ASSUME SlotsAssumption  == Slots \in Nat \ {0}
ASSUME ModuloAssumption == Modulo \in BOOLEAN

VARIABLES buffer,  \* the caller's storage, 0 .. Slots-1
          head,    \* me->head: where the next element goes
          tail,    \* me->tail: where the oldest element is
          full,    \* me->full
          live,    \* whether the caller holds a handle
          reply    \* the latest call: its answer, the bytes it stored or got

vars == <<buffer, head, tail, full, live, reply>>

Index == 0 .. Slots - 1

Calls == {"none", "init", "free", "reset", "put", "try_put", "get", "peek", "size",
          "empty", "full"}
Replies == [op : Calls, ret : Int, data : Seq(Data)]
Reply(op, ret, data) == [op |-> op, ret |-> ret, data |-> data]

TypeOK ==
    /\ buffer \in Storage(Data, Slots)
    /\ head \in Index
    /\ tail \in Index
    /\ full \in BOOLEAN
    /\ live \in BOOLEAN
    /\ reply \in Replies

-----------------------------------------------------------------------------
(* The private helpers.                                                    *)

Advance(v) == IF Modulo THEN StepModulo(v, Slots) ELSE StepCompare(v, Slots)

IsEmpty == ~full /\ head = tail

Size == IF full THEN Slots ELSE Distance(head, tail, Slots)

\* advance_head_pointer: on a full buffer the oldest element is dropped.
BugAdvanceHead ==
    /\ tail' = tail
    /\ head' = Advance(head)
    /\ full' = (head' = tail')
AdvanceHead ==
    /\ tail' = IF full THEN Advance(tail) ELSE tail
    /\ head' = Advance(head)
    /\ full' = (head' = tail')

-----------------------------------------------------------------------------
(* The API.                                                                *)

Init ==
    /\ buffer \in Storage(Data, Slots)
    /\ head = 0 /\ tail = 0 /\ full = FALSE
    /\ live = FALSE
    /\ reply = Reply("none", 0, <<>>)

ResetFields == head' = 0 /\ tail' = 0 /\ full' = FALSE

CircularBufInit ==
    /\ ~live
    /\ live' = TRUE
    /\ ResetFields
    /\ reply' = Reply("init", 0, <<>>)
    /\ UNCHANGED buffer

\* The struct is released; the storage stays with its owner, as it is, and may
\* be handed to circular_buf_init again.  The released fields are left alone.
Free ==
    /\ live
    /\ live' = FALSE
    /\ reply' = Reply("free", 0, <<>>)
    /\ UNCHANGED <<buffer, head, tail, full>>

Reset ==
    /\ live
    /\ ResetFields
    /\ reply' = Reply("reset", 0, <<>>)
    /\ UNCHANGED <<buffer, live>>

Put(d) ==
    /\ live
    /\ buffer' = [buffer EXCEPT ![head] = d]
    /\ AdvanceHead
    /\ reply' = Reply("put", 0, <<d>>)
    /\ UNCHANGED live

TryPut(d) ==
    /\ live
    /\ IF full
       THEN /\ reply' = Reply("try_put", -1, <<>>)
            /\ UNCHANGED <<buffer, head, tail, full>>
       ELSE /\ buffer' = [buffer EXCEPT ![head] = d]
            /\ AdvanceHead
            /\ reply' = Reply("try_put", 0, <<d>>)
    /\ UNCHANGED live

Get ==
    /\ live
    /\ IF IsEmpty
       THEN /\ reply' = Reply("get", -1, <<>>)
            /\ UNCHANGED <<tail, full>>
       ELSE /\ reply' = Reply("get", 0, <<buffer[tail]>>)
            /\ tail' = Advance(tail)
            /\ full' = FALSE
    /\ UNCHANGED <<buffer, head, live>>

\* peek copies n elements from the tail on, advancing a local position.
Peek(n) ==
    /\ live
    /\ reply' = IF IsEmpty \/ n > Size
                THEN Reply("peek", -1, <<>>)
                ELSE Reply("peek", 0, Segment(buffer, tail, n, Slots))
    /\ UNCHANGED <<buffer, head, tail, full, live>>

AskSize ==
    /\ live
    /\ reply' = Reply("size", Size, <<>>)
    /\ UNCHANGED <<buffer, head, tail, full, live>>

\* circular_buf_empty and circular_buf_full.
AskEmpty ==
    /\ live
    /\ reply' = Reply("empty", IF IsEmpty THEN 1 ELSE 0, <<>>)
    /\ UNCHANGED <<buffer, head, tail, full, live>>

AskFull ==
    /\ live
    /\ reply' = Reply("full", IF full THEN 1 ELSE 0, <<>>)
    /\ UNCHANGED <<buffer, head, tail, full, live>>

\* The caller peeks at most one element beyond what the storage can hold.
Next ==
    \/ CircularBufInit \/ Free \/ Reset \/ Get \/ AskSize \/ AskEmpty \/ AskFull
    \/ \E d \in Data : Put(d) \/ TryPut(d)
    \/ \E n \in 0 .. Slots + 1 : Peek(n)

Spec == Init /\ [][Next]_vars

-----------------------------------------------------------------------------
(* Properties.                                                             *)

\* head = tail is ambiguous, and the flag is what resolves it: the flag is set
\* only where head and tail coincide, so that a full buffer is never taken for
\* one with free slots (circular_buf_full, circular_buf_size).
FullMeansCoincide == full => head = tail

\* The elements, oldest first, as the fields encode them.
Contents == IF live THEN Segment(buffer, tail, Size, Slots) ELSE <<>>

Fifo == INSTANCE BoundedFifo WITH
            Capacity <- Slots, Clients <- {"owner"},
            items <- Contents, reply <- [c \in {"owner"} |-> reply]

\* Every sequence of calls, across wrap-around, overwriting put, reset, free
\* and re-init on used storage, gets the answers of a FIFO of Slots elements.
ImplementsFifo == Fifo!Spec

====

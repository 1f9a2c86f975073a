---- MODULE SpscCircularBuffer ----
(***************************************************************************)
(* circular_buffer_no_modulo_threadsafe.c: the circular buffer without a   *)
(* `full` flag, one slot of which stays empty, used without any lock by    *)
(* one producer thread (try_put, full, size) and one consumer thread (get, *)
(* empty, size, peek).                                                     *)
(*                                                                         *)
(* The two threads interleave between accesses to shared memory.  head is  *)
(* written by the producer alone and tail by the consumer alone, so a step *)
(* may read any number of the caller's own index but reads the other       *)
(* thread's index, or a slot, once.  circular_buf_put and _reset, which    *)
(* the comments exclude from concurrent use, happen while no call is in    *)
(* progress.  Stores take effect in program order.                         *)
(***************************************************************************)
EXTENDS Ring

CONSTANTS Data,     \* the bytes that are stored
          Slots,    \* me->max
          WordSize  \* 2^w for a size_t of w bits

\* circular_buf_init asserts size > 1.
ASSUME SlotsAssumption == Slots \in Nat \ {0, 1}
ASSUME WordAssumption  == WordSize \in Nat /\ WordSize > 2 * Slots

VARIABLES buffer, head, tail,  \* the fields of circular_buf_t
          pc,     \* where each thread stands in the call it is in
          pval,   \* <<the byte the producer is storing>>, or <<>>
          cval,   \* <<the byte the consumer has read>>, or <<>>
          want,   \* look_ahead_counter of the consumer's peek; 0 in other calls
          reply,  \* each thread's latest call: its answer, what it stored or got
          due     \* history: what the peek in progress is entitled to

vars == <<buffer, head, tail, pc, pval, cval, want, reply, due>>

Clients == {"producer", "consumer"}
Index   == 0 .. Slots - 1

Calls == {"none", "put", "try_put", "get", "full", "empty", "reset", "size", "peek"}
Replies == [op : Calls, ret : Int, data : Seq(Data)]
Reply(op, ret, data) == [op |-> op, ret |-> ret, data |-> data]

Answer(c, op, ret, data) == reply' = [reply EXCEPT ![c] = Reply(op, ret, data)]

At(c, l)   == pc[c] = l
Goto(c, l) == pc' = [pc EXCEPT ![c] = l]

Fields == <<buffer, head, tail>>
Locals == <<pval, cval, want>>

-----------------------------------------------------------------------------

Advance(v) == StepCompare(v, Slots)

IsFull  == Advance(head) = tail
IsEmpty == head = tail

Capacity == Slots - 1

\* The elements, oldest first.
Used     == Distance(head, tail, Slots)
Contents == Segment(buffer, tail, Used, Slots)

Init ==
    /\ buffer \in Storage(Data, Slots)
    /\ head = 0 /\ tail = 0
    /\ pc = [c \in Clients |-> "idle"]
    /\ pval = <<>> /\ cval = <<>>
    /\ want = 0
    /\ reply = [c \in Clients |-> Reply("none", 0, <<>>)]
    /\ due = <<>>

-----------------------------------------------------------------------------
(* circular_buf_try_put, by the producer.                                  *)

TryPutRefused ==
    /\ At("producer", "idle")
    /\ IsFull
    /\ Answer("producer", "try_put", -1, <<>>)
    /\ UNCHANGED <<Fields, pc, Locals, due>>

BugTryPutStart(d) ==
    /\ At("producer", "idle")
    /\ pval' = <<d>>
    /\ Goto("producer", "write")
    /\ UNCHANGED <<Fields, cval, want, reply, due>>
TryPutStart(d) ==
    /\ At("producer", "idle")
    /\ ~IsFull
    /\ pval' = <<d>>
    /\ Goto("producer", "write")
    /\ UNCHANGED <<Fields, cval, want, reply, due>>

BugTryPutWrite ==
    /\ At("producer", "write")
    /\ buffer' = [buffer EXCEPT ![Advance(head)] = pval[1]]
    /\ Goto("producer", "publish")
    /\ UNCHANGED <<head, tail, Locals, reply, due>>
TryPutWrite ==
    /\ At("producer", "write")
    /\ buffer' = [buffer EXCEPT ![head] = pval[1]]
    /\ Goto("producer", "publish")
    /\ UNCHANGED <<head, tail, Locals, reply, due>>

TryPutPublish ==
    /\ At("producer", "publish")
    /\ head' = Advance(head)
    /\ Goto("producer", "idle")
    /\ Answer("producer", "try_put", 0, pval)
    /\ pval' = <<>>
    /\ UNCHANGED <<buffer, tail, cval, want, due>>

(* circular_buf_full, by the producer.                                     *)
AskFull ==
    /\ At("producer", "idle")
    /\ Answer("producer", "full", IF IsFull THEN 1 ELSE 0, <<>>)
    /\ UNCHANGED <<Fields, pc, Locals, due>>

-----------------------------------------------------------------------------
(* circular_buf_get, by the consumer.                                      *)

GetNothing ==
    /\ At("consumer", "idle")
    /\ IsEmpty
    /\ Answer("consumer", "get", -1, <<>>)
    /\ UNCHANGED <<Fields, pc, Locals, due>>

GetStart ==
    /\ At("consumer", "idle")
    /\ ~IsEmpty
    /\ Goto("consumer", "read")
    /\ UNCHANGED <<Fields, Locals, reply, due>>

GetRead ==
    /\ At("consumer", "read")
    /\ cval' = <<buffer[tail]>>
    /\ Goto("consumer", "advance")
    /\ UNCHANGED <<Fields, pval, want, reply, due>>

GetAdvance ==
    /\ At("consumer", "advance")
    /\ tail' = Advance(tail)
    /\ Goto("consumer", "idle")
    /\ Answer("consumer", "get", 0, cval)
    /\ cval' = <<>>
    /\ UNCHANGED <<buffer, head, pval, want, due>>

(* circular_buf_empty, by the consumer.                                    *)
AskEmpty ==
    /\ At("consumer", "idle")
    /\ Answer("consumer", "empty", IF IsEmpty THEN 1 ELSE 0, <<>>)
    /\ UNCHANGED <<Fields, pc, Locals, due>>

-----------------------------------------------------------------------------
(* circular_buf_size, by either thread, and the circular_buf_peek of the   *)
(* consumer, which calls it.  size looks at the other thread's index up to *)
(* three times: to tell a full buffer, to compare, and to subtract.        *)

Peeking(c) == c = "consumer" /\ want # 0

Return(c, op, ret, data) ==
    /\ Answer(c, op, ret, data)
    /\ Goto(c, "idle")

PeekReturns(ret, data) ==
    /\ Return("consumer", "peek", ret, data)
    /\ want' = 0 /\ due' = <<>>

\* size returns v: to its caller, or to the peek that goes on with it.
SizeReturns(c, v) ==
    /\ \/ /\ ~Peeking(c)
          /\ Return(c, "size", v, <<>>)
          /\ UNCHANGED <<want, due>>
       \/ /\ Peeking(c) /\ want > v
          /\ PeekReturns(-1, <<>>)
       \/ /\ Peeking(c) /\ want <= v
          /\ Goto(c, "copy")
          /\ UNCHANGED <<want, reply, due>>
    /\ UNCHANGED <<Fields, pval, cval>>

SizeStart(c) ==
    /\ At(c, "idle")
    /\ Goto(c, "size")
    /\ UNCHANGED <<Fields, Locals, reply, due>>

SizeOfFull(c) ==
    /\ At(c, "size")
    /\ IsFull
    /\ SizeReturns(c, Capacity)

SizeNotFull(c) ==
    /\ At(c, "size")
    /\ ~IsFull
    /\ Goto(c, "compare")
    /\ UNCHANGED <<Fields, Locals, reply, due>>

SizeCompare(c) ==
    /\ At(c, "compare")
    /\ Goto(c, IF head >= tail THEN "ahead" ELSE "behind")
    /\ UNCHANGED <<Fields, Locals, reply, due>>

BugSizeAhead(c) ==
    /\ At(c, "ahead")
    /\ SizeReturns(c, (head - tail - 1) % WordSize)
SizeAhead(c) ==
    /\ At(c, "ahead")
    /\ SizeReturns(c, (head - tail) % WordSize)

SizeBehind(c) ==
    /\ At(c, "behind")
    /\ SizeReturns(c, (Slots + head - tail) % WordSize)

\* peek(n), n > 0.  A caller that keeps to the header asks for no more
\* elements than there are; the history variable remembers what those are.
PeekEmpty ==
    /\ At("consumer", "idle")
    /\ IsEmpty
    /\ PeekReturns(-1, <<>>)
    /\ UNCHANGED <<Fields, pval, cval>>

PeekStart(n) ==
    /\ At("consumer", "idle")
    /\ ~IsEmpty
    /\ want' = n
    /\ due' = IF n <= Used THEN SubSeq(Contents, 1, n) ELSE <<>>
    /\ Goto("consumer", "size")
    /\ UNCHANGED <<Fields, pval, cval, reply>>

PeekCopy ==
    /\ At("consumer", "copy")
    /\ PeekReturns(0, Segment(buffer, tail, want, Slots))
    /\ UNCHANGED <<Fields, pval, cval>>

-----------------------------------------------------------------------------
(* The calls that are not made concurrently with any other.                *)

Quiet == \A c \in Clients : At(c, "idle")

\* circular_buf_put overwrites the oldest element of a full buffer.
Put(d) ==
    /\ Quiet
    /\ buffer' = [buffer EXCEPT ![head] = d]
    /\ tail' = IF IsFull THEN Advance(tail) ELSE tail
    /\ head' = Advance(head)
    /\ Answer("producer", "put", 0, <<d>>)
    /\ UNCHANGED <<pc, Locals, due>>

Reset ==
    /\ Quiet
    /\ head' = 0 /\ tail' = 0
    /\ Answer("consumer", "reset", 0, <<>>)
    /\ UNCHANGED <<buffer, pc, Locals, due>>

-----------------------------------------------------------------------------

Producer ==
    \/ TryPutRefused \/ TryPutWrite \/ TryPutPublish \/ AskFull
    \/ \E d \in Data : TryPutStart(d)

Consumer ==
    \/ GetNothing \/ GetStart \/ GetRead \/ GetAdvance \/ AskEmpty
    \/ PeekEmpty \/ PeekCopy
    \/ \E n \in 1 .. Slots : PeekStart(n)

Sizing(c) ==
    \/ SizeStart(c) \/ SizeOfFull(c) \/ SizeNotFull(c) \/ SizeCompare(c)
    \/ SizeAhead(c) \/ SizeBehind(c)

Alone == Reset \/ \E d \in Data : Put(d)

Next == Producer \/ Consumer \/ Alone \/ \E c \in Clients : Sizing(c)

Spec == Init /\ [][Next]_vars

\* The calls the file allows to be concurrent, alone.
ConcurrentNext == Producer \/ Consumer \/ \E c \in Clients : Sizing(c)
ConcurrentSpec == Init /\ [][ConcurrentNext]_vars

-----------------------------------------------------------------------------
(* Properties.                                                             *)

Bytes == {<<>>} \cup {<<d>> : d \in Data}

Labels == {"idle", "write", "publish", "read", "advance", "copy",
           "size", "compare", "ahead", "behind"}

TypeOK ==
    /\ buffer \in Storage(Data, Slots)
    /\ head \in Index
    /\ tail \in Index
    /\ pc \in [Clients -> Labels]
    /\ pval \in Bytes /\ cval \in Bytes
    /\ due \in Seq(Data)
    /\ want \in 0 .. Slots
    /\ reply \in [Clients -> Replies]

\* The data races the design must exclude: the slot the producer is about to
\* write is not one the consumer may be reading, in get or in a peek that asks
\* for no more than there is (try_put, get and peek share no lock).
NoSlotRace ==
    At("producer", "write") =>
        /\ At("consumer", "read") => tail # head
        /\ At("consumer", "copy") /\ Len(due) = want =>
              \A i \in 0 .. want - 1 : Wrap(tail + i, Slots) # head

\* What a thread was told stays true until it acts on it: a producer that was
\* told there is room finds room in its next try_put, and a consumer that was
\* told there is an element finds one in its next get, whatever the other
\* thread does in between (circular_buf_full, circular_buf_empty).
AnswersStayTrue ==
    /\ reply["producer"].op = "full" /\ reply["producer"].ret = 0 => ~IsFull
    /\ reply["consumer"].op = "empty" /\ reply["consumer"].ret = 0 => ~IsEmpty

\* A peek for no more elements than there were when it was called succeeds, and
\* copies exactly the oldest ones, even though the size it checks against may
\* have been computed from two different values of head.
PeekFaithful ==
    [][At("consumer", "idle")' /\ due # <<>> =>
          reply'["consumer"] = Reply("peek", 0, due)]_vars

\* circular_buf_size: the number of elements is never more than the capacity.
SizeWithinCapacity ==
    \A c \in Clients : reply[c].op = "size" => reply[c].ret \in 0 .. Capacity

\* The lock-free buffer is a FIFO of Slots - 1 elements: a try_put takes effect
\* when it stores head, a get when it stores tail.  What a concurrent size or
\* peek answers is left out.
Specified(r) == IF r.op \in {"size", "peek"} THEN Reply("none", 0, <<>>) ELSE r

Fifo == INSTANCE BoundedFifo WITH
            items <- Contents,
            reply <- [c \in Clients |-> Specified(reply[c])]

ImplementsFifo == Fifo!Spec

====

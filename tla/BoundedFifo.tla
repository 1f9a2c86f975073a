---- MODULE BoundedFifo ----
(***************************************************************************)
(* What every circular buffer of the repository promises its users: a      *)
(* first-in first-out queue of at most Capacity elements.  `items` holds   *)
(* the elements, oldest first; reply[c] is client c's latest call, its     *)
(* answer and the elements it stored or got.  The calls and their return   *)
(* codes are those documented in                                           *)
(* src/examples/c/circular_buffer/circular_buffer.h; there is no index, no *)
(* storage and no wrap-around here, and a call happens at one instant.     *)
(***************************************************************************)
EXTENDS Integers, Sequences

CONSTANTS Data,      \* the bytes that are stored
          Capacity,  \* the number of elements the queue holds
          Clients    \* whoever calls the operations

VARIABLES items, reply

vars == <<items, reply>>

Reply(op, ret, data) == [op |-> op, ret |-> ret, data |-> data]

\* The answer of a client that has not called anything yet.
NoReply == Reply("none", 0, <<>>)

Answer(c, op, ret, data) == reply' = [reply EXCEPT ![c] = Reply(op, ret, data)]

Init ==
    /\ items = <<>>
    /\ reply = [c \in Clients |-> NoReply]

\* put: always succeeds; on a full queue the oldest element makes room.
Overwrite(c, d) ==
    /\ items' = IF Len(items) < Capacity THEN Append(items, d)
                                         ELSE Append(Tail(items), d)
    /\ Answer(c, "put", 0, <<d>>)

\* try_put: succeeds on a queue with room, refuses on a full one.
Push(c, d) ==
    /\ Len(items) < Capacity
    /\ items' = Append(items, d)
    /\ Answer(c, "try_put", 0, <<d>>)

Refuse(c) ==
    /\ Len(items) = Capacity
    /\ Answer(c, "try_put", -1, <<>>)
    /\ UNCHANGED items

\* get: hands out and removes the oldest element, or says there is none.
Pop(c) ==
    /\ items # <<>>
    /\ items' = Tail(items)
    /\ Answer(c, "get", 0, <<Head(items)>>)

Miss(c) ==
    /\ items = <<>>
    /\ Answer(c, "get", -1, <<>>)
    /\ UNCHANGED items

\* peek(n): the n oldest elements, if there are that many and the queue is not
\* empty.  Next asks for at most one element too many: more is refused alike.
Look(c, n) ==
    /\ IF items # <<>> /\ n <= Len(items)
       THEN Answer(c, "peek", 0, SubSeq(items, 1, n))
       ELSE Answer(c, "peek", -1, <<>>)
    /\ UNCHANGED items

\* size, empty and full: the number of elements, and its two extremes.
Count(c) ==
    /\ Answer(c, "size", Len(items), <<>>)
    /\ UNCHANGED items

AskEmpty(c) ==
    /\ Answer(c, "empty", IF items = <<>> THEN 1 ELSE 0, <<>>)
    /\ UNCHANGED items

AskFull(c) ==
    /\ Answer(c, "full", IF Len(items) = Capacity THEN 1 ELSE 0, <<>>)
    /\ UNCHANGED items

\* init, reset and free leave nothing stored.
Clear(c, op) ==
    /\ items' = <<>>
    /\ Answer(c, op, 0, <<>>)

\* A query this specification says nothing about; it changes nothing.
Unspecified(c) ==
    /\ reply' = [reply EXCEPT ![c] = NoReply]
    /\ UNCHANGED items

Next ==
    \E c \in Clients :
        \/ \E d \in Data : Overwrite(c, d) \/ Push(c, d)
        \/ Refuse(c) \/ Pop(c) \/ Miss(c)
        \/ Count(c) \/ AskEmpty(c) \/ AskFull(c) \/ Unspecified(c)
        \/ \E n \in 0 .. Capacity + 1 : Look(c, n)
        \/ \E op \in {"init", "reset", "free"} : Clear(c, op)

Spec == Init /\ [][Next]_vars

====

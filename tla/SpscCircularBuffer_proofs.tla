---- MODULE SpscCircularBuffer_proofs ----
(***************************************************************************)
(* The lock-free buffer, for every storage size and set of bytes: no slot  *)
(* is raced for by try_put and get, what a thread is told stays true, and  *)
(* the buffer implements a FIFO of Slots - 1 elements.                     *)
(***************************************************************************)
EXTENDS SpscCircularBuffer, Data_proofs

\* Each thread runs only its own calls; want and due belong to a peek.
Roles ==
    /\ pc["producer"] \in {"idle", "write", "publish", "size", "compare",
                           "ahead", "behind"}
    /\ pc["consumer"] \in {"idle", "read", "advance", "copy", "size", "compare",
                           "ahead", "behind"}
    /\ pc["producer"] \in {"write", "publish"} => \E d \in Data : pval = <<d>>

\* The claim on which no lock is needed: between its test and its store a
\* thread's index stays where the test found it, and the other thread's index
\* can only move away from it.
RoomKept    == pc["producer"] \in {"write", "publish"} => ~IsFull
ElementKept == pc["consumer"] \in {"read", "advance"} => ~IsEmpty

\* What is stored and what was read agree with the slots they are for.
SlotWritten == pc["producer"] = "publish" => pval = <<buffer[head]>>
SlotRead    == pc["consumer"] = "advance" => cval = <<buffer[tail]>>

\* A peek that asked for no more than there was is still entitled to the same
\* elements: they stay where they are until the consumer itself moves on.
DueHeld ==
    due # <<>> =>
        /\ pc["consumer"] \in {"size", "compare", "ahead", "behind", "copy"}
        /\ want \in 1 .. Used
        /\ due = Segment(buffer, tail, want, Slots)

\* Once head was seen behind tail it stays behind: it cannot catch up.
StaysBehind == pc["consumer"] = "behind" => head < tail

IInv ==
    /\ TypeOK /\ Roles
    /\ RoomKept /\ ElementKept /\ SlotWritten /\ SlotRead
    /\ DueHeld /\ StaysBehind
    /\ AnswersStayTrue

-----------------------------------------------------------------------------
(* Arithmetic of the two indices.                                          *)

LEMMA AdvanceType ==
    ASSUME NEW v \in Index
    PROVE  Advance(v) \in Index /\ Advance(v) # v
BY SlotsAssumption DEF Advance, StepCompare, Index

LEMMA AdvanceInjective ==
    ASSUME NEW v \in Index, NEW w \in Index, Advance(v) = Advance(w)
    PROVE  v = w
BY SlotsAssumption DEF Advance, StepCompare, Index

\* How many elements there are, and the slot behind the newest one.
LEMMA UsedRange ==
    ASSUME TypeOK
    PROVE  /\ Used \in 0 .. Slots - 1
           /\ IsEmpty <=> Used = 0
           /\ IsFull <=> Used = Slots - 1
           /\ head = Wrap(tail + Used, Slots)
BY SlotsAssumption
   DEF TypeOK, Used, Distance, IsEmpty, IsFull, Advance, StepCompare, Wrap, Index

\* Storing head adds an element, storing tail takes one away.
LEMMA UsedGrows ==
    ASSUME TypeOK, ~IsFull, head' = Advance(head), tail' = tail
    PROVE  Used' = Used + 1
BY SlotsAssumption
   DEF TypeOK, Used, Distance, IsFull, Advance, StepCompare, Index

LEMMA UsedShrinks ==
    ASSUME TypeOK, ~IsEmpty, tail' = Advance(tail), head' = head
    PROVE  Used' = Used - 1
BY SlotsAssumption
   DEF TypeOK, Used, Distance, IsEmpty, Advance, StepCompare, Index

\* The slot at head is none of those that hold elements.
LEMMA HeadOutside ==
    ASSUME TypeOK, NEW i \in 0 .. Used - 1
    PROVE  Wrap(tail + i, Slots) # head
BY SlotsAssumption, UsedRange DEF TypeOK, Used, Distance, Wrap, Index

LEMMA ReplyType ==
    ASSUME NEW op \in Calls, NEW ret \in Int, NEW data \in Seq(Data)
    PROVE  Reply(op, ret, data) \in Replies
BY DEF Reply, Replies

LEMMA BareReplyType ==
    ASSUME NEW op \in Calls, NEW ret \in Int
    PROVE  Reply(op, ret, <<>>) \in Replies
<1>1. <<>> \in Seq(Data)
  OBVIOUS
<1> QED BY <1>1, ReplyType

\* What an answer does to the replies of the two threads.
LEMMA AnswerEffect ==
    ASSUME TypeOK, NEW c \in Clients,
           NEW op \in Calls, NEW ret \in Int, NEW data \in Seq(Data),
           Answer(c, op, ret, data)
    PROVE  /\ reply' \in [Clients -> Replies]
           /\ reply'[c] = Reply(op, ret, data)
           /\ reply'[c].op = op /\ reply'[c].ret = ret /\ reply'[c].data = data
           /\ \A d \in Clients \ {c} : reply'[d] = reply[d]
<1>1. Reply(op, ret, data) \in Replies
  BY ReplyType
<1>2. reply' = [reply EXCEPT ![c] = Reply(op, ret, data)]
  BY DEF Answer
<1>3. reply' \in [Clients -> Replies] /\ reply'[c] = Reply(op, ret, data)
  BY <1>1, <1>2 DEF TypeOK
<1>4. \A d \in Clients \ {c} : reply'[d] = reply[d]
  BY <1>2 DEF TypeOK
<1> QED
  BY <1>3, <1>4 DEF Reply

\* Most answers carry no data.
LEMMA BareAnswerEffect ==
    ASSUME TypeOK, NEW c \in Clients, NEW op \in Calls, NEW ret \in Int,
           Answer(c, op, ret, <<>>)
    PROVE  /\ reply' \in [Clients -> Replies]
           /\ reply'[c].op = op /\ reply'[c].ret = ret
           /\ \A d \in Clients \ {c} : reply'[d] = reply[d]
<1>1. Reply(op, ret, <<>>) \in Replies
  BY BareReplyType
<1>2. reply' = [reply EXCEPT ![c] = Reply(op, ret, <<>>)]
  BY DEF Answer
<1>3. reply' \in [Clients -> Replies] /\ reply'[c] = Reply(op, ret, <<>>)
  BY <1>1, <1>2 DEF TypeOK
<1>4. \A d \in Clients \ {c} : reply'[d] = reply[d]
  BY <1>2 DEF TypeOK
<1> QED
  BY <1>3, <1>4 DEF Reply

\* ... or one byte.
LEMMA ByteAnswerEffect ==
    ASSUME TypeOK, NEW c \in Clients, NEW op \in Calls, NEW ret \in Int,
           NEW d \in Data, Answer(c, op, ret, <<d>>)
    PROVE  /\ reply' \in [Clients -> Replies]
           /\ reply'[c].op = op
           /\ \A e \in Clients \ {c} : reply'[e] = reply[e]
<1>1. <<d>> \in Seq(Data)
  OBVIOUS
<1>2. Reply(op, ret, <<d>>) \in Replies
  BY <1>1 DEF Reply, Replies
<1>3. reply' = [reply EXCEPT ![c] = Reply(op, ret, <<d>>)]
  BY DEF Answer
<1>4. reply' \in [Clients -> Replies] /\ reply'[c] = Reply(op, ret, <<d>>)
  BY <1>2, <1>3 DEF TypeOK
<1>5. \A e \in Clients \ {c} : reply'[e] = reply[e]
  BY <1>3 DEF TypeOK
<1> QED
  BY <1>4, <1>5 DEF Reply

\* What a jump does to the labels of the two threads.
LEMMA GotoEffect ==
    ASSUME TypeOK, NEW c \in Clients, NEW l \in Labels, Goto(c, l)
    PROVE  /\ pc' \in [Clients -> Labels]
           /\ pc'[c] = l
           /\ \A d \in Clients \ {c} : pc'[d] = pc[d]
BY DEF Goto, TypeOK

LEMMA Threads ==
    /\ "producer" \in Clients /\ "consumer" \in Clients
    /\ "producer" \in Clients \ {"consumer"} /\ "consumer" \in Clients \ {"producer"}
    /\ Clients = {"producer", "consumer"}
BY DEF Clients

-----------------------------------------------------------------------------
(* The inductive invariant.                                                *)

LEMMA InitInv == Init => IInv
<1> SUFFICES ASSUME Init PROVE IInv
  OBVIOUS
<1>1. TypeOK
  <2>1. /\ head \in Index /\ tail \in Index /\ want \in 0 .. Slots
        /\ pval \in Bytes /\ cval \in Bytes /\ due \in Seq(Data)
        /\ buffer \in Storage(Data, Slots)
    BY SlotsAssumption DEF Init, Index, Bytes
  <2>2. pc \in [Clients -> Labels]
    BY DEF Init, Labels
  <2>3. reply \in [Clients -> Replies]
    <3>1. Reply("none", 0, <<>>) \in Replies
      BY BareReplyType DEF Calls
    <3> QED BY <3>1 DEF Init
  <2> QED BY <2>1, <2>2, <2>3 DEF TypeOK
<1>2. pc["producer"] = "idle" /\ pc["consumer"] = "idle"
  BY Threads DEF Init
<1>3. reply["producer"].op = "none" /\ reply["consumer"].op = "none"
  BY Threads DEF Init, Reply
<1> QED
  BY <1>1, <1>2, <1>3
     DEF IInv, Roles, RoomKept, ElementKept, SlotWritten, SlotRead, DueHeld,
         StaysBehind, AnswersStayTrue, Init

\* Steps that only answer: the tests that refuse, full and empty.
LEMMA AnswerKeepsInv ==
    ASSUME IInv, NEW c \in Clients,
           NEW op \in Calls, NEW ret \in Int, Answer(c, op, ret, <<>>),
           UNCHANGED <<buffer, head, tail, pc, pval, cval, want, due>>,
           c = "producer" /\ op = "full" /\ ret = 0 => ~IsFull,
           c = "consumer" /\ op = "empty" /\ ret = 0 => ~IsEmpty
    PROVE  IInv'
<1>1. /\ reply' \in [Clients -> Replies]
      /\ reply'[c].op = op /\ reply'[c].ret = ret
      /\ \A d \in Clients \ {c} : reply'[d] = reply[d]
  BY BareAnswerEffect DEF IInv
<1>2. TypeOK'
  BY <1>1 DEF IInv, TypeOK
<1>3. AnswersStayTrue'
  <2>1. CASE c = "producer"
    BY <1>1, <2>1, Threads DEF IInv, AnswersStayTrue, IsFull, IsEmpty
  <2>2. CASE c = "consumer"
    BY <1>1, <2>2, Threads DEF IInv, AnswersStayTrue, IsFull, IsEmpty
  <2> QED BY <2>1, <2>2 DEF Clients
<1>4. /\ Roles' /\ RoomKept' /\ ElementKept' /\ SlotWritten' /\ SlotRead'
      /\ DueHeld' /\ StaysBehind'
  BY DEF IInv, Roles, RoomKept, ElementKept, SlotWritten, SlotRead, DueHeld,
         StaysBehind, IsFull, IsEmpty, Used
<1> QED
  BY <1>2, <1>3, <1>4 DEF IInv

LEMMA QuestionsKeepInv ==
    ASSUME IInv, TryPutRefused \/ AskFull \/ GetNothing \/ AskEmpty
    PROVE  IInv'
<1>0. -1 \in Int /\ 0 \in Int /\ 1 \in Int
  OBVIOUS
<1>1. CASE TryPutRefused
  <2>1. /\ Answer("producer", "try_put", -1, <<>>) /\ "try_put" \in Calls
        /\ UNCHANGED <<buffer, head, tail, pc, pval, cval, want, due>>
    BY <1>1 DEF TryPutRefused, Fields, Locals, Calls
  <2> QED BY <1>0, <2>1, AnswerKeepsInv, Threads
<1>2. CASE AskFull
  <2>1. /\ Answer("producer", "full", IF IsFull THEN 1 ELSE 0, <<>>)
        /\ "full" \in Calls
        /\ UNCHANGED <<buffer, head, tail, pc, pval, cval, want, due>>
    BY <1>2 DEF AskFull, Fields, Locals, Calls
  <2>2. CASE IsFull
    <3>1. Answer("producer", "full", 1, <<>>)
      BY <2>1, <2>2
    <3> QED BY <1>0, <2>1, <2>2, <3>1, AnswerKeepsInv, Threads
  <2>3. CASE ~IsFull
    <3>1. Answer("producer", "full", 0, <<>>)
      BY <2>1, <2>3
    <3> QED BY <1>0, <2>1, <2>3, <3>1, AnswerKeepsInv, Threads
  <2> QED BY <2>2, <2>3
<1>3. CASE GetNothing
  <2>1. /\ Answer("consumer", "get", -1, <<>>) /\ "get" \in Calls
        /\ UNCHANGED <<buffer, head, tail, pc, pval, cval, want, due>>
    BY <1>3 DEF GetNothing, Fields, Locals, Calls
  <2> QED BY <1>0, <2>1, AnswerKeepsInv, Threads
<1>4. CASE AskEmpty
  <2>1. /\ Answer("consumer", "empty", IF IsEmpty THEN 1 ELSE 0, <<>>)
        /\ "empty" \in Calls
        /\ UNCHANGED <<buffer, head, tail, pc, pval, cval, want, due>>
    BY <1>4 DEF AskEmpty, Fields, Locals, Calls
  <2>2. CASE IsEmpty
    <3>1. Answer("consumer", "empty", 1, <<>>)
      BY <2>1, <2>2
    <3> QED BY <1>0, <2>1, <2>2, <3>1, AnswerKeepsInv, Threads
  <2>3. CASE ~IsEmpty
    <3>1. Answer("consumer", "empty", 0, <<>>)
      BY <2>1, <2>3
    <3> QED BY <1>0, <2>1, <2>3, <3>1, AnswerKeepsInv, Threads
  <2> QED BY <2>2, <2>3
<1> QED BY <1>1, <1>2, <1>3, <1>4

LEMMA TryPutStartInv ==
    ASSUME IInv, NEW d \in Data, TryPutStart(d)
    PROVE  IInv'
<1>1. /\ pc' \in [Clients -> Labels]
      /\ pc'["producer"] = "write" /\ pc'["consumer"] = pc["consumer"]
  BY GotoEffect, Threads DEF TryPutStart, IInv, Labels
<1>2. TypeOK'
  BY <1>1 DEF TryPutStart, IInv, TypeOK, Fields, Bytes
<1>3. Roles'
  BY <1>1 DEF TryPutStart, IInv, Roles
<1>4. RoomKept' /\ ElementKept' /\ SlotWritten' /\ SlotRead'
  BY <1>1 DEF TryPutStart, IInv, RoomKept, ElementKept, SlotWritten, SlotRead,
              IsFull, IsEmpty, Fields
<1>5. DueHeld' /\ StaysBehind' /\ AnswersStayTrue'
  BY <1>1 DEF TryPutStart, IInv, DueHeld, StaysBehind, AnswersStayTrue, Used,
              IsFull, IsEmpty, Fields
<1> QED
  BY <1>2, <1>3, <1>4, <1>5 DEF IInv

LEMMA TryPutWriteInv ==
    ASSUME IInv, TryPutWrite
    PROVE  IInv'
<1>1. /\ pc' \in [Clients -> Labels]
      /\ pc["producer"] = "write"
      /\ pc'["producer"] = "publish" /\ pc'["consumer"] = pc["consumer"]
  BY GotoEffect, Threads DEF TryPutWrite, IInv, Labels, At
<1>2. PICK d \in Data : pval = <<d>>
  BY <1>1 DEF IInv, Roles
<1>3. /\ buffer' = [buffer EXCEPT ![head] = d]
      /\ UNCHANGED <<head, tail, pval, cval, want, reply, due>>
  BY <1>2 DEF TryPutWrite, Locals
<1>4. /\ buffer' \in Storage(Data, Slots)
      /\ buffer'[head] = d
      /\ \A j \in (0 .. Slots - 1) \ {head} : buffer'[j] = buffer[j]
  BY <1>3 DEF IInv, TypeOK, Index, Storage
<1>5. TypeOK'
  BY <1>1, <1>3, <1>4 DEF IInv, TypeOK
<1>6. Roles' /\ RoomKept' /\ ElementKept' /\ StaysBehind' /\ AnswersStayTrue'
  BY <1>1, <1>3 DEF IInv, Roles, RoomKept, ElementKept, StaysBehind,
                    AnswersStayTrue, IsFull, IsEmpty
<1>7. SlotWritten'
  BY <1>2, <1>3, <1>4 DEF SlotWritten
<1>8. SlotRead'
  <2> SUFFICES ASSUME pc'["consumer"] = "advance"
               PROVE  cval' = <<buffer'[tail']>>
    BY DEF SlotRead
  <2>1. tail # head
    BY <1>1 DEF IInv, ElementKept, IsEmpty
  <2>2. buffer'[tail] = buffer[tail]
    BY <1>4, <2>1 DEF IInv, TypeOK, Index
  <2> QED BY <1>1, <1>3, <2>2 DEF IInv, SlotRead
<1>9. DueHeld'
  <2> SUFFICES ASSUME due # <<>>
               PROVE  /\ want \in 1 .. Used'
                      /\ due = Segment(buffer', tail, want, Slots)
    BY <1>1, <1>3 DEF IInv, DueHeld
  <2>1. want \in 1 .. Used /\ due = Segment(buffer, tail, want, Slots)
    BY DEF IInv, DueHeld
  <2>2. Used' = Used
    BY <1>3 DEF Used
  <2>3. \A i \in 1 .. want : buffer'[Wrap(tail + i - 1, Slots)]
                               = buffer[Wrap(tail + i - 1, Slots)]
    <3> TAKE i \in 1 .. want
    <3>1. i - 1 \in 0 .. Used - 1 /\ i - 1 \in 0 .. Slots - 1
      BY <2>1, UsedRange, SlotsAssumption DEF IInv
    <3>2. Wrap(tail + (i - 1), Slots) # head
      BY <3>1, HeadOutside DEF IInv
    <3>3. tail + i - 1 = tail + (i - 1)
      BY DEF IInv, TypeOK, Index
    <3>4. Wrap(tail + (i - 1), Slots) \in 0 .. Slots - 1
      BY <3>1, SlotsAssumption DEF Wrap, IInv, TypeOK, Index
    <3> QED BY <1>4, <3>2, <3>3, <3>4
  <2> QED BY <2>1, <2>2, <2>3 DEF Segment
<1> QED
  BY <1>5, <1>6, <1>7, <1>8, <1>9 DEF IInv

LEMMA TryPutPublishInv ==
    ASSUME IInv, TryPutPublish
    PROVE  IInv'
<1>1. /\ pc' \in [Clients -> Labels]
      /\ pc["producer"] = "publish"
      /\ pc'["producer"] = "idle" /\ pc'["consumer"] = pc["consumer"]
  BY GotoEffect, Threads DEF TryPutPublish, IInv, Labels, At
<1>2. /\ reply' \in [Clients -> Replies]
      /\ reply'["producer"].op = "try_put" /\ reply'["consumer"] = reply["consumer"]
  <2>1. PICK d \in Data : pval = <<d>>
    BY <1>1 DEF IInv, Roles
  <2> QED BY <2>1, ByteAnswerEffect, Threads DEF TryPutPublish, IInv, Calls
<1>3. /\ ~IsFull /\ head' = Advance(head) /\ head' \in Index
      /\ UNCHANGED <<buffer, tail, cval, want, due>> /\ pval' = <<>>
  BY <1>1, AdvanceType DEF TryPutPublish, IInv, RoomKept, TypeOK
<1>4. TypeOK'
  BY <1>1, <1>2, <1>3 DEF IInv, TypeOK, Bytes
<1>5. Used' = Used + 1
  BY <1>3, UsedGrows DEF IInv
<1>6. head' # tail'
  BY <1>3 DEF IsFull
<1>7. Roles' /\ RoomKept' /\ SlotWritten' /\ SlotRead'
  BY <1>1, <1>3 DEF IInv, Roles, RoomKept, SlotWritten, SlotRead
<1>8. ElementKept' /\ AnswersStayTrue'
  BY <1>1, <1>2, <1>6 DEF ElementKept, AnswersStayTrue, IsEmpty
<1>9. StaysBehind'
  BY <1>1, <1>3, SlotsAssumption
     DEF IInv, TypeOK, StaysBehind, IsFull, Advance, StepCompare, Index
<1>10. DueHeld'
  BY <1>1, <1>3, <1>5, UsedRange DEF IInv, DueHeld
<1> QED
  BY <1>4, <1>7, <1>8, <1>9, <1>10 DEF IInv

\* Outside a peek nothing is due.
LEMMA NothingDue ==
    ASSUME IInv, pc["consumer"] \in {"idle", "read", "advance"}
    PROVE  due = <<>>
BY DEF IInv, DueHeld

LEMMA SlotData ==
    ASSUME IInv
    PROVE  buffer[tail] \in Data
BY DEF IInv, TypeOK, Storage, Index

LEMMA GetStartInv ==
    ASSUME IInv, GetStart
    PROVE  IInv'
<1>1. /\ pc' \in [Clients -> Labels]
      /\ pc["consumer"] = "idle"
      /\ pc'["consumer"] = "read" /\ pc'["producer"] = pc["producer"]
  BY GotoEffect, Threads DEF GetStart, IInv, Labels, At
<1>2. ~IsEmpty /\ UNCHANGED <<buffer, head, tail, pval, cval, want, reply, due>>
  BY DEF GetStart, Fields, Locals
<1>3. TypeOK'
  BY <1>1, <1>2 DEF IInv, TypeOK
<1>4. due' = <<>>
  BY <1>1, <1>2, NothingDue
<1>5. Roles' /\ RoomKept' /\ ElementKept' /\ SlotWritten' /\ SlotRead'
  BY <1>1, <1>2 DEF IInv, Roles, RoomKept, ElementKept, SlotWritten, SlotRead,
                    IsFull, IsEmpty
<1>6. DueHeld' /\ StaysBehind' /\ AnswersStayTrue'
  BY <1>1, <1>2, <1>4 DEF IInv, DueHeld, StaysBehind, AnswersStayTrue, IsFull, IsEmpty
<1> QED
  BY <1>3, <1>5, <1>6 DEF IInv

LEMMA GetReadInv ==
    ASSUME IInv, GetRead
    PROVE  IInv'
<1>1. /\ pc' \in [Clients -> Labels]
      /\ pc["consumer"] = "read"
      /\ pc'["consumer"] = "advance" /\ pc'["producer"] = pc["producer"]
  BY GotoEffect, Threads DEF GetRead, IInv, Labels, At
<1>2. cval' = <<buffer[tail]>> /\ UNCHANGED <<buffer, head, tail, pval, want, reply, due>>
  BY DEF GetRead, Fields
<1>3. TypeOK'
  BY <1>1, <1>2, SlotData DEF IInv, TypeOK, Bytes
<1>4. due' = <<>>
  BY <1>1, <1>2, NothingDue
<1>5. Roles' /\ RoomKept' /\ ElementKept' /\ SlotWritten' /\ SlotRead'
  BY <1>1, <1>2 DEF IInv, Roles, RoomKept, ElementKept, SlotWritten, SlotRead,
                    IsFull, IsEmpty
<1>6. DueHeld' /\ StaysBehind' /\ AnswersStayTrue'
  BY <1>1, <1>2, <1>4 DEF IInv, DueHeld, StaysBehind, AnswersStayTrue, IsFull, IsEmpty
<1> QED
  BY <1>3, <1>5, <1>6 DEF IInv

LEMMA GetAdvanceInv ==
    ASSUME IInv, GetAdvance
    PROVE  IInv'
<1>1. /\ pc' \in [Clients -> Labels]
      /\ pc["consumer"] = "advance"
      /\ pc'["consumer"] = "idle" /\ pc'["producer"] = pc["producer"]
  BY GotoEffect, Threads DEF GetAdvance, IInv, Labels, At
<1>2. /\ reply' \in [Clients -> Replies]
      /\ reply'["consumer"].op = "get" /\ reply'["producer"] = reply["producer"]
  <2>1. cval = <<buffer[tail]>>
    BY <1>1 DEF IInv, SlotRead
  <2>2. cval \in Seq(Data)
    BY <2>1, SlotData
  <2> QED BY <2>2, AnswerEffect, Threads DEF GetAdvance, IInv, Calls
<1>3. /\ ~IsEmpty /\ tail' = Advance(tail) /\ tail' \in Index
      /\ UNCHANGED <<buffer, head, pval, want, due>> /\ cval' = <<>>
  BY <1>1, AdvanceType DEF GetAdvance, IInv, ElementKept, TypeOK
<1>4. TypeOK'
  BY <1>1, <1>2, <1>3 DEF IInv, TypeOK, Bytes
<1>5. ~IsFull'
  <2>1. head \in Index /\ tail \in Index /\ head # tail
    BY <1>3 DEF IInv, TypeOK, IsEmpty
  <2>2. Advance(head) # Advance(tail)
    BY <2>1, AdvanceInjective
  <2> QED BY <1>3, <2>2 DEF IsFull
<1>6. due' = <<>>
  BY <1>1, <1>3, NothingDue
<1>7. Roles' /\ RoomKept' /\ ElementKept' /\ SlotWritten' /\ SlotRead'
  BY <1>1, <1>3, <1>5 DEF IInv, Roles, RoomKept, ElementKept, SlotWritten, SlotRead
<1>8. DueHeld' /\ StaysBehind' /\ AnswersStayTrue'
  BY <1>1, <1>2, <1>5, <1>6 DEF DueHeld, StaysBehind, AnswersStayTrue
<1> QED
  BY <1>4, <1>7, <1>8 DEF IInv

-----------------------------------------------------------------------------
(* size and peek.                                                          *)

\* A peek for no more than there was when it started is not refused: whatever
\* two values of head its size was computed from, the size is large enough.
\* (A difference that went below zero wrapped to a value near WordSize.)
LEMMA SizeEnough ==
    ASSUME IInv, due # <<>>
    PROVE  /\ Capacity \in Int /\ (head - tail) % WordSize \in Int
           /\ (Slots + head - tail) % WordSize \in Int
           /\ want <= Capacity
           /\ want <= (head - tail) % WordSize
           /\ pc["consumer"] = "behind" => want <= (Slots + head - tail) % WordSize
<1>1. /\ want \in 1 .. Used
      /\ head \in 0 .. Slots - 1 /\ tail \in 0 .. Slots - 1
      /\ Used = IF head >= tail THEN head - tail ELSE Slots + head - tail
      /\ Used \in 0 .. Slots - 1
      /\ Slots \in Nat /\ WordSize \in Nat /\ WordSize > 2 * Slots
  BY SlotsAssumption, WordAssumption, UsedRange
     DEF IInv, DueHeld, TypeOK, Index, Used, Distance
<1>2. want <= Capacity
  BY <1>1 DEF Capacity
<1>3. want <= (head - tail) % WordSize
  <2>1. CASE head >= tail
    <3>1. head - tail \in 0 .. WordSize - 1
      BY <1>1, <2>1
    <3>2. (head - tail) % WordSize = head - tail
      BY <1>1, <3>1
    <3> QED BY <1>1, <2>1, <3>2
  <2>2. CASE head < tail
    <3>1. WordSize + (head - tail) \in 0 .. WordSize - 1
      BY <1>1, <2>2
    <3>2. (head - tail) % WordSize = WordSize + (head - tail)
      BY <1>1, <3>1
    <3> QED BY <1>1, <2>2, <3>2
  <2> QED BY <1>1, <2>1, <2>2
<1>4. ASSUME pc["consumer"] = "behind"
      PROVE  want <= (Slots + head - tail) % WordSize
  <2>1. head < tail
    BY <1>4 DEF IInv, StaysBehind
  <2>2. Slots + head - tail = Used /\ Used \in 0 .. WordSize - 1
    BY <1>1, <2>1
  <2>3. (Slots + head - tail) % WordSize = Used
    BY <1>1, <2>2
  <2> QED BY <1>1, <2>3
<1>5. /\ Capacity \in Int /\ (head - tail) % WordSize \in Int
      /\ (Slots + head - tail) % WordSize \in Int
  BY <1>1 DEF Capacity
<1> QED BY <1>2, <1>3, <1>4, <1>5

\* A jump from one point of size to another changes nothing else.
LEMMA SizeMoveInv ==
    ASSUME IInv, NEW c \in Clients,
           pc[c] \in {"idle", "size", "compare"},
           NEW l \in {"size", "compare", "ahead", "behind"}, Goto(c, l),
           l = "behind" => head < tail,
           UNCHANGED <<buffer, head, tail, pval, cval, want, reply, due>>
    PROVE  IInv'
<1>1. /\ pc' \in [Clients -> Labels]
      /\ pc'[c] = l
      /\ \A d \in Clients \ {c} : pc'[d] = pc[d]
  BY GotoEffect DEF IInv, Labels
<1>2. TypeOK'
  BY <1>1 DEF IInv, TypeOK
<1>3. CASE c = "producer"
  <2>1. pc'["producer"] = l /\ pc'["consumer"] = pc["consumer"]
    BY <1>1, <1>3, Threads
  <2>2. Roles' /\ RoomKept' /\ ElementKept' /\ SlotWritten' /\ SlotRead'
    BY <2>1 DEF IInv, Roles, RoomKept, ElementKept, SlotWritten, SlotRead,
                IsFull, IsEmpty
  <2>3. DueHeld' /\ StaysBehind' /\ AnswersStayTrue'
    BY <2>1 DEF IInv, DueHeld, StaysBehind, AnswersStayTrue, IsFull, IsEmpty, Used
  <2> QED BY <1>2, <2>2, <2>3 DEF IInv
<1>4. CASE c = "consumer"
  <2>1. pc'["consumer"] = l /\ pc'["producer"] = pc["producer"]
    BY <1>1, <1>4, Threads
  <2>2. Roles' /\ RoomKept' /\ ElementKept' /\ SlotWritten' /\ SlotRead'
    BY <2>1 DEF IInv, Roles, RoomKept, ElementKept, SlotWritten, SlotRead,
                IsFull, IsEmpty
  <2>3. DueHeld' /\ StaysBehind' /\ AnswersStayTrue'
    BY <2>1 DEF IInv, DueHeld, StaysBehind, AnswersStayTrue, IsFull, IsEmpty, Used
  <2> QED BY <1>2, <2>2, <2>3 DEF IInv
<1> QED BY <1>3, <1>4 DEF Clients

\* A call that returns without having changed a field, after which nothing is due.
LEMMA ReturnKeepsInv ==
    ASSUME IInv, NEW c \in Clients, NEW r \in Replies,
           NEW p, p = [pc EXCEPT ![c] = "idle"], pc' = p,
           NEW q, q = [reply EXCEPT ![c] = r], reply' = q,
           r.op \in {"size", "peek"},
           UNCHANGED <<buffer, head, tail, pval, cval>>,
           want' \in 0 .. Slots,
           \/ due' = <<>>
           \/ c = "producer" /\ due' = due /\ want' = want
    PROVE  IInv'
<1>1. /\ pc' \in [Clients -> Labels]
      /\ pc'[c] = "idle"
      /\ \A d \in Clients \ {c} : pc'[d] = pc[d]
  BY DEF IInv, TypeOK, Labels
<1>2. /\ reply' \in [Clients -> Replies]
      /\ reply'[c] = r
      /\ \A d \in Clients \ {c} : reply'[d] = reply[d]
  BY DEF IInv, TypeOK
<1>3. TypeOK'
  <2>1. <<>> \in Seq(Data)
    OBVIOUS
  <2>2. due' \in Seq(Data)
    BY <2>1 DEF IInv, TypeOK
  <2> QED BY <1>1, <1>2, <2>2 DEF IInv, TypeOK
<1>4. CASE c = "producer"
  <2>1. pc'["producer"] = "idle" /\ pc'["consumer"] = pc["consumer"]
    BY <1>1, <1>4, Threads
  <2>2. reply'["producer"] = r /\ reply'["consumer"] = reply["consumer"]
    BY <1>2, <1>4, Threads
  <2>3. Roles' /\ RoomKept' /\ ElementKept' /\ SlotWritten' /\ SlotRead'
    BY <2>1 DEF IInv, Roles, RoomKept, ElementKept, SlotWritten, SlotRead,
                IsFull, IsEmpty
  <2>4. DueHeld' /\ StaysBehind' /\ AnswersStayTrue'
    BY <2>1, <2>2 DEF IInv, DueHeld, StaysBehind, AnswersStayTrue, IsEmpty, Used
  <2> QED BY <1>3, <2>3, <2>4 DEF IInv
<1>5. CASE c = "consumer"
  <2>1. pc'["consumer"] = "idle" /\ pc'["producer"] = pc["producer"]
    BY <1>1, <1>5, Threads
  <2>2. reply'["consumer"] = r /\ reply'["producer"] = reply["producer"]
    BY <1>2, <1>5, Threads
  <2>3. due' = <<>>
    BY <1>5
  <2>4. Roles' /\ RoomKept' /\ ElementKept' /\ SlotWritten' /\ SlotRead'
    BY <2>1 DEF IInv, Roles, RoomKept, ElementKept, SlotWritten, SlotRead,
                IsFull, IsEmpty
  <2>5. DueHeld' /\ StaysBehind' /\ AnswersStayTrue'
    BY <2>1, <2>2, <2>3 DEF IInv, DueHeld, StaysBehind, AnswersStayTrue, IsFull
  <2> QED BY <1>3, <2>4, <2>5 DEF IInv
<1> QED BY <1>4, <1>5 DEF Clients

LEMMA SizeReturnsInv ==
    ASSUME IInv, NEW c \in Clients, NEW v \in Int,
           pc[c] \in {"size", "ahead", "behind"}, SizeReturns(c, v)
    PROVE  IInv'
<1>1. UNCHANGED <<buffer, head, tail, pval, cval>>
  BY DEF SizeReturns, Fields
<1>2. CASE ~Peeking(c) /\ Return(c, "size", v, <<>>) /\ UNCHANGED <<want, due>>
  <2>1. Reply("size", v, <<>>) \in Replies /\ Reply("size", v, <<>>).op = "size"
    BY BareReplyType DEF Calls, Reply
  <2>2. /\ pc' = [pc EXCEPT ![c] = "idle"]
        /\ reply' = [reply EXCEPT ![c] = Reply("size", v, <<>>)]
    BY <1>2 DEF Return, Answer, Goto
  <2>3. due' = <<>> \/ (c = "producer" /\ due' = due /\ want' = want)
    <3>1. CASE c = "producer"
      BY <1>2, <3>1
    <3>2. CASE c = "consumer"
      BY <1>2, <3>2 DEF Peeking, IInv, DueHeld
    <3> QED BY <3>1, <3>2 DEF Clients
  <2>4. want' \in 0 .. Slots
    BY <1>2 DEF IInv, TypeOK
  <2> QED BY <1>1, <2>1, <2>2, <2>3, <2>4, ReturnKeepsInv
<1>3. CASE Peeking(c) /\ want > v /\ PeekReturns(-1, <<>>)
  <2>1. Reply("peek", -1, <<>>) \in Replies /\ Reply("peek", -1, <<>>).op = "peek"
    BY BareReplyType DEF Calls, Reply
  <2>2. /\ pc' = [pc EXCEPT !["consumer"] = "idle"]
        /\ reply' = [reply EXCEPT !["consumer"] = Reply("peek", -1, <<>>)]
        /\ due' = <<>> /\ want' = 0
    BY <1>3 DEF PeekReturns, Return, Answer, Goto
  <2>3. want' \in 0 .. Slots
    BY <2>2, SlotsAssumption
  <2> QED BY <1>1, <2>1, <2>2, <2>3, Threads, ReturnKeepsInv
<1>4. CASE Peeking(c) /\ want <= v /\ Goto(c, "copy") /\ UNCHANGED <<want, reply, due>>
  <2>1. c = "consumer"
    BY <1>4 DEF Peeking
  <2>2. /\ pc' \in [Clients -> Labels]
        /\ pc'["consumer"] = "copy" /\ pc'["producer"] = pc["producer"]
    BY <1>4, <2>1, GotoEffect, Threads DEF IInv, Labels
  <2>3. TypeOK'
    BY <1>1, <1>4, <2>2 DEF IInv, TypeOK
  <2>4. Roles' /\ RoomKept' /\ ElementKept' /\ SlotWritten' /\ SlotRead'
    BY <1>1, <2>2 DEF IInv, Roles, RoomKept, ElementKept, SlotWritten, SlotRead,
                      IsFull, IsEmpty
  <2>5. DueHeld' /\ StaysBehind' /\ AnswersStayTrue'
    BY <1>1, <1>4, <2>2
       DEF IInv, DueHeld, StaysBehind, AnswersStayTrue, IsFull, IsEmpty, Used
  <2> QED BY <2>3, <2>4, <2>5 DEF IInv
<1> QED BY <1>2, <1>3, <1>4 DEF SizeReturns

LEMMA SizingInv ==
    ASSUME IInv, NEW c \in Clients, Sizing(c)
    PROVE  IInv'
<1>1. CASE SizeStart(c)
  BY <1>1, SizeMoveInv DEF SizeStart, At, Fields, Locals
<1>2. CASE SizeOfFull(c)
  <2>1. Capacity \in Int
    BY SlotsAssumption DEF Capacity
  <2> QED BY <1>2, <2>1, SizeReturnsInv DEF SizeOfFull, At
<1>3. CASE SizeNotFull(c)
  BY <1>3, SizeMoveInv DEF SizeNotFull, At, Fields, Locals
<1>4. CASE SizeCompare(c)
  <2>1. /\ pc[c] = "compare"
        /\ UNCHANGED <<buffer, head, tail, pval, cval, want, reply, due>>
    BY <1>4 DEF SizeCompare, At, Fields, Locals
  <2>2. CASE head >= tail
    <3>1. Goto(c, "ahead")
      BY <1>4, <2>2 DEF SizeCompare
    <3> QED BY <2>1, <3>1, SizeMoveInv
  <2>3. CASE ~(head >= tail)
    <3>1. Goto(c, "behind")
      BY <1>4, <2>3 DEF SizeCompare
    <3>2. head < tail
      BY <2>3 DEF IInv, TypeOK, Index
    <3> QED BY <2>1, <3>1, <3>2, SizeMoveInv
  <2> QED BY <2>2, <2>3
<1>5. CASE SizeAhead(c)
  <2>1. (head - tail) % WordSize \in Int
    BY WordAssumption, SlotsAssumption DEF IInv, TypeOK, Index
  <2> QED BY <1>5, <2>1, SizeReturnsInv DEF SizeAhead, At
<1>6. CASE SizeBehind(c)
  <2>1. (Slots + head - tail) % WordSize \in Int
    BY WordAssumption, SlotsAssumption DEF IInv, TypeOK, Index
  <2> QED BY <1>6, <2>1, SizeReturnsInv DEF SizeBehind, At
<1> QED BY <1>1, <1>2, <1>3, <1>4, <1>5, <1>6 DEF Sizing

LEMMA PeekEmptyInv ==
    ASSUME IInv, PeekEmpty
    PROVE  IInv'
<1>1. Reply("peek", -1, <<>>) \in Replies /\ Reply("peek", -1, <<>>).op = "peek"
  BY BareReplyType DEF Calls, Reply
<1>2. /\ pc' = [pc EXCEPT !["consumer"] = "idle"]
      /\ reply' = [reply EXCEPT !["consumer"] = Reply("peek", -1, <<>>)]
      /\ due' = <<>> /\ want' = 0
      /\ UNCHANGED <<buffer, head, tail, pval, cval>>
  BY DEF PeekEmpty, PeekReturns, Return, Answer, Goto, Fields
<1>3. want' \in 0 .. Slots
  BY <1>2, SlotsAssumption
<1> QED BY <1>1, <1>2, <1>3, Threads, ReturnKeepsInv

LEMMA PeekStartInv ==
    ASSUME IInv, NEW n \in 1 .. Slots, PeekStart(n)
    PROVE  IInv'
<1>1. /\ pc' \in [Clients -> Labels]
      /\ pc["consumer"] = "idle"
      /\ pc'["consumer"] = "size" /\ pc'["producer"] = pc["producer"]
  BY GotoEffect, Threads DEF PeekStart, IInv, Labels, At
<1>2. /\ want' = n /\ UNCHANGED <<buffer, head, tail, pval, cval, reply>>
      /\ due' = IF n <= Used THEN SubSeq(Contents, 1, n) ELSE <<>>
  BY DEF PeekStart, Fields
<1>3. \/ due' = <<>>
      \/ n \in 1 .. Used /\ due' = Segment(buffer, tail, n, Slots)
  <2>1. CASE n <= Used
    <3>1. Used \in 0 .. Slots /\ n \in 1 .. Used /\ n \in 0 .. Used
      BY <2>1, UsedRange, SlotsAssumption DEF IInv
    <3>2. /\ buffer \in Storage(Data, Slots) /\ tail \in 0 .. Slots - 1
          /\ Slots \in Nat \ {0}
      BY SlotsAssumption DEF IInv, TypeOK, Index
    <3>3. Segment(buffer, tail, n, Slots)
            = SubSeq(Segment(buffer, tail, Used, Slots), 1, n)
      BY <3>1, <3>2, SegmentPrefix
    <3> QED BY <1>2, <2>1, <3>1, <3>3 DEF Contents
  <2>2. CASE ~(n <= Used)
    BY <1>2, <2>2
  <2> QED BY <2>1, <2>2
<1>4. due' \in Seq(Data)
  <2>1. CASE due' = <<>>
    <3>1. <<>> \in Seq(Data)
      OBVIOUS
    <3> QED BY <2>1, <3>1
  <2>2. CASE due' = Segment(buffer, tail, n, Slots)
    <3>1. /\ buffer \in Storage(Data, Slots) /\ tail \in 0 .. Slots - 1
          /\ Slots \in Nat \ {0} /\ n \in 0 .. Slots
      BY SlotsAssumption DEF IInv, TypeOK, Index
    <3> QED BY <2>2, <3>1, SegmentType
  <2> QED BY <1>3, <2>1, <2>2
<1>5. TypeOK'
  BY <1>1, <1>2, <1>4, SlotsAssumption DEF IInv, TypeOK
<1>6. Roles' /\ RoomKept' /\ ElementKept' /\ SlotWritten' /\ SlotRead'
  BY <1>1, <1>2 DEF IInv, Roles, RoomKept, ElementKept, SlotWritten, SlotRead,
                    IsFull, IsEmpty
<1>7. DueHeld'
  BY <1>1, <1>2, <1>3 DEF DueHeld, Used
<1>8. StaysBehind' /\ AnswersStayTrue'
  BY <1>1, <1>2 DEF IInv, StaysBehind, AnswersStayTrue, IsFull, IsEmpty
<1> QED
  BY <1>5, <1>6, <1>7, <1>8 DEF IInv

LEMMA PeekCopyInv ==
    ASSUME IInv, PeekCopy
    PROVE  IInv'
<1> DEFINE found == Segment(buffer, tail, want, Slots)
<1>1. Reply("peek", 0, found) \in Replies /\ Reply("peek", 0, found).op = "peek"
  <2>1. /\ buffer \in Storage(Data, Slots) /\ tail \in 0 .. Slots - 1
        /\ Slots \in Nat \ {0} /\ want \in 0 .. Slots
    BY SlotsAssumption DEF IInv, TypeOK, Index
  <2>2. found \in Seq(Data)
    BY <2>1, SegmentType
  <2>3. Reply("peek", 0, found) \in Replies
    BY <2>2, ReplyType DEF Calls
  <2> QED BY <2>3 DEF Reply
<1>2. /\ pc' = [pc EXCEPT !["consumer"] = "idle"]
      /\ reply' = [reply EXCEPT !["consumer"] = Reply("peek", 0, found)]
      /\ due' = <<>> /\ want' = 0
      /\ UNCHANGED <<buffer, head, tail, pval, cval>>
  BY DEF PeekCopy, PeekReturns, Return, Answer, Goto, Fields
<1>3. want' \in 0 .. Slots
  BY <1>2, SlotsAssumption
<1> HIDE DEF found
<1> QED BY <1>1, <1>2, <1>3, Threads, ReturnKeepsInv

-----------------------------------------------------------------------------
(* The calls that are made alone.                                          *)

LEMMA AloneTypes ==
    ASSUME IInv, Quiet
    PROVE  /\ pc["producer"] = "idle" /\ pc["consumer"] = "idle"
           /\ due = <<>>
BY Threads, NothingDue DEF Quiet, At

LEMMA PutInv ==
    ASSUME IInv, NEW d \in Data, Put(d)
    PROVE  IInv'
<1>1. /\ pc["producer"] = "idle" /\ pc["consumer"] = "idle" /\ due = <<>>
      /\ UNCHANGED <<pc, pval, cval, want, due>>
  BY AloneTypes DEF Put, Locals
<1>2. /\ reply' \in [Clients -> Replies]
      /\ reply'["producer"].op = "put" /\ reply'["consumer"] = reply["consumer"]
  BY ByteAnswerEffect, Threads DEF Put, IInv, Calls
<1>3. buffer' \in Storage(Data, Slots)
  BY DEF Put, IInv, TypeOK, Storage, Index
<1>4. /\ head' = Advance(head) /\ head' \in Index
      /\ tail' = IF IsFull THEN Advance(tail) ELSE tail
      /\ tail' \in Index
  BY AdvanceType DEF Put, IInv, TypeOK
<1>5. TypeOK'
  BY <1>1, <1>2, <1>3, <1>4 DEF IInv, TypeOK
<1>6. head' # tail'
  <2>1. CASE IsFull
    BY <1>4, <2>1, AdvanceType DEF IsFull, IInv, TypeOK
  <2>2. CASE ~IsFull
    BY <1>4, <2>2 DEF IsFull
  <2> QED BY <2>1, <2>2
<1>7. Roles' /\ RoomKept' /\ ElementKept' /\ SlotWritten' /\ SlotRead'
  BY <1>1 DEF IInv, Roles, RoomKept, ElementKept, SlotWritten, SlotRead
<1>8. DueHeld' /\ StaysBehind' /\ AnswersStayTrue'
  BY <1>1, <1>2, <1>6 DEF DueHeld, StaysBehind, AnswersStayTrue, IsEmpty
<1> QED
  BY <1>5, <1>7, <1>8 DEF IInv

LEMMA ResetInv ==
    ASSUME IInv, Reset
    PROVE  IInv'
<1>1. /\ pc["producer"] = "idle" /\ pc["consumer"] = "idle" /\ due = <<>>
      /\ UNCHANGED <<buffer, pc, pval, cval, want, due>>
  BY AloneTypes DEF Reset, Locals
<1>2. /\ reply' \in [Clients -> Replies]
      /\ reply'["consumer"].op = "reset" /\ reply'["producer"] = reply["producer"]
  BY BareAnswerEffect, Threads DEF Reset, IInv, Calls
<1>3. head' = 0 /\ tail' = 0 /\ 0 \in Index
  BY SlotsAssumption DEF Reset, Index
<1>4. TypeOK'
  BY <1>1, <1>2, <1>3 DEF IInv, TypeOK
<1>5. ~IsFull'
  BY <1>3, AdvanceType DEF IsFull, Advance
<1>6. Roles' /\ RoomKept' /\ ElementKept' /\ SlotWritten' /\ SlotRead'
  BY <1>1 DEF IInv, Roles, RoomKept, ElementKept, SlotWritten, SlotRead
<1>7. DueHeld' /\ StaysBehind' /\ AnswersStayTrue'
  BY <1>1, <1>2, <1>5 DEF DueHeld, StaysBehind, AnswersStayTrue
<1> QED
  BY <1>4, <1>6, <1>7 DEF IInv

LEMMA StepInv == IInv /\ [Next]_vars => IInv'
<1> SUFFICES ASSUME IInv, [Next]_vars PROVE IInv'
  OBVIOUS
<1>1. CASE Producer
  BY <1>1, QuestionsKeepInv, TryPutStartInv, TryPutWriteInv, TryPutPublishInv DEF Producer
<1>2. CASE Consumer
  BY <1>2, QuestionsKeepInv, GetStartInv, GetReadInv, GetAdvanceInv,
     PeekEmptyInv, PeekStartInv, PeekCopyInv DEF Consumer
<1>3. CASE Alone
  BY <1>3, PutInv, ResetInv DEF Alone
<1>4. CASE \E c \in Clients : Sizing(c)
  BY <1>4, SizingInv
<1>5. CASE UNCHANGED vars
  BY <1>5 DEF vars, IInv, TypeOK, Roles, RoomKept, ElementKept, SlotWritten,
              SlotRead, DueHeld, StaysBehind, AnswersStayTrue, IsFull, IsEmpty, Used
<1> QED BY <1>1, <1>2, <1>3, <1>4, <1>5 DEF Next

\* The inductive invariant holds in every reachable state.
THEOREM InductiveInvariant == Spec => []IInv
BY InitInv, StepInv, PTL DEF Spec

\* Indices stay inside the storage and answers are well-formed, for any number
\* of slots (circular_buffer_no_modulo_threadsafe.c:21-176).
THEOREM TypeCorrect == Spec => []TypeOK
<1>1. IInv => TypeOK
  BY DEF IInv
<1> QED BY <1>1, InductiveInvariant, PTL

\* Without any lock, what circular_buf_full told the producer and
\* circular_buf_empty told the consumer is still true when the thread acts on it.
THEOREM AnswersKept == Spec => []AnswersStayTrue
<1>1. IInv => AnswersStayTrue
  BY DEF IInv
<1> QED BY <1>1, InductiveInvariant, PTL

\* circular_buf_try_put never writes a slot that circular_buf_get or a
\* circular_buf_peek may be reading.
THEOREM RaceFree == Spec => []NoSlotRace
<1>1. ASSUME IInv PROVE NoSlotRace
  <2>1. ASSUME pc["producer"] = "write", pc["consumer"] = "read" PROVE tail # head
    BY <1>1, <2>1 DEF IInv, ElementKept, IsEmpty
  <2>2. ASSUME pc["producer"] = "write", pc["consumer"] = "copy", Len(due) = want,
               NEW i \in 0 .. want - 1
        PROVE  Wrap(tail + i, Slots) # head
    <3>1. CASE due = <<>>
      <4>1. want = 0
        BY <2>2, <3>1
      <4> QED BY <4>1
    <3>2. CASE due # <<>>
      <4>1. want \in 1 .. Used
        BY <1>1, <3>2 DEF IInv, DueHeld
      <4>2. i \in 0 .. Used - 1
        BY <4>1, <1>1, UsedRange, SlotsAssumption DEF IInv
      <4> QED BY <1>1, <4>2, HeadOutside DEF IInv
    <3> QED BY <3>1, <3>2
  <2> QED BY <2>1, <2>2 DEF NoSlotRace, At
<1> QED BY <1>1, InductiveInvariant, PTL

\* A circular_buf_peek for no more elements than there were when it was called
\* succeeds and copies exactly the oldest ones, whatever the producer stores
\* while the peek computes the size it checks against.
THEOREM PeeksAreFaithful == Spec => PeekFaithful
<1>1. ASSUME IInv, Next, pc'["consumer"] = "idle", due # <<>>
      PROVE  reply'["consumer"] = Reply("peek", 0, due)
  <2>1. /\ pc["consumer"] \in {"size", "compare", "ahead", "behind", "copy"}
        /\ want \in 1 .. Used /\ due = Segment(buffer, tail, want, Slots)
        /\ pc \in [Clients -> Labels] /\ reply \in [Clients -> Replies]
    BY <1>1 DEF IInv, DueHeld, TypeOK
  <2>2. Peeking("consumer") /\ ~Quiet
    BY <2>1, Threads DEF Peeking, Quiet, At
  <2>3. ~(pc'["consumer"] = pc["consumer"])
    BY <1>1, <2>1
  <2>4. ASSUME NEW v \in Int, SizeReturns("consumer", v), want <= v PROVE FALSE
    <3>1. want \in Int
      BY <1>1 DEF IInv, TypeOK
    <3>2. ~(want > v)
      BY <2>4, <3>1
    <3>3. Goto("consumer", "copy")
      BY <2>2, <2>4, <3>2 DEF SizeReturns
    <3>4. pc'["consumer"] = "copy"
      BY <2>1, <3>3, Threads DEF Goto
    <3> QED BY <1>1, <3>4
  <2>5. CASE Producer
    BY <2>1, <2>3, <2>5, Threads
       DEF Producer, TryPutRefused, TryPutWrite, TryPutPublish, AskFull,
           TryPutStart, Goto
  <2>6. CASE Alone
    BY <2>2, <2>6 DEF Alone, Put, Reset
  <2>7. CASE Consumer
    <3>1. PeekCopy
      BY <2>1, <2>7 DEF Consumer, GetNothing, GetStart, GetRead, GetAdvance,
                        AskEmpty, PeekEmpty, PeekStart, At
    <3> QED
      BY <2>1, <3>1, Threads DEF PeekCopy, PeekReturns, Return, Answer
  <2>8. CASE Sizing("producer")
    <3>1. SUFFICES pc'["consumer"] = pc["consumer"]
      BY <2>3
    <3>2. ~Peeking("producer")
      BY DEF Peeking
    <3> QED
      BY <2>1, <2>8, <3>2, Threads
         DEF Sizing, SizeStart, SizeOfFull, SizeNotFull, SizeCompare, SizeAhead,
             SizeBehind, SizeReturns, Return, Goto
  <2>9. CASE Sizing("consumer")
    <3>1. CASE SizeStart("consumer")
      BY <2>1, <3>1 DEF SizeStart, At
    <3>2. CASE SizeOfFull("consumer")
      BY <1>1, <2>4, <3>2, SizeEnough DEF SizeOfFull
    <3>3. CASE SizeNotFull("consumer")
      BY <1>1, <2>1, <3>3, Threads DEF SizeNotFull, Goto
    <3>4. CASE SizeCompare("consumer")
      BY <1>1, <2>1, <3>4, Threads DEF SizeCompare, Goto
    <3>5. CASE SizeAhead("consumer")
      BY <1>1, <2>4, <3>5, SizeEnough DEF SizeAhead
    <3>6. CASE SizeBehind("consumer")
      BY <1>1, <2>4, <3>6, SizeEnough DEF SizeBehind, At
    <3> QED BY <2>9, <3>1, <3>2, <3>3, <3>4, <3>5, <3>6 DEF Sizing
  <2> QED BY <1>1, <2>5, <2>6, <2>7, <2>8, <2>9 DEF Next, Clients
<1>2. ASSUME IInv, [Next]_vars
      PROVE  [At("consumer", "idle")' /\ due # <<>>
                => reply'["consumer"] = Reply("peek", 0, due)]_vars
  BY <1>1, <1>2 DEF At
<1> QED BY <1>2, InductiveInvariant, PTL DEF Spec, PeekFaithful

-----------------------------------------------------------------------------
(* The refinement.                                                         *)

LEMMA AnswerMaps ==
    ASSUME TypeOK, NEW c \in Clients, NEW op, NEW ret, NEW data,
           op \notin {"size", "peek"}, Answer(c, op, ret, data)
    PROVE  Fifo!Answer(c, op, ret, data)
<1>1. /\ reply'[c] = Reply(op, ret, data)
      /\ \A d \in Clients \ {c} : reply'[d] = reply[d]
  BY DEF Answer, TypeOK
<1>2. Specified(reply'[c]) = Reply(op, ret, data)
  BY <1>1 DEF Specified, Reply
<1>3. Fifo!Reply(op, ret, data) = Reply(op, ret, data)
  BY DEF Fifo!Reply, Reply
<1>4. \A d \in Clients \ {c} : Specified(reply'[d]) = Specified(reply[d])
  BY <1>1
<1> QED
  BY <1>2, <1>3, <1>4 DEF Fifo!Answer

\* A size or a peek that returns is an answer the FIFO does not specify.
LEMMA UnspecifiedMaps ==
    ASSUME TypeOK, NEW c \in Clients, NEW op, NEW ret, NEW data,
           op \in {"size", "peek"}, Answer(c, op, ret, data),
           UNCHANGED <<buffer, head, tail>>
    PROVE  Fifo!Next
<1>1. /\ reply'[c] = Reply(op, ret, data)
      /\ \A d \in Clients \ {c} : reply'[d] = reply[d]
  BY DEF Answer, TypeOK
<1>2. Specified(reply'[c]) = Reply("none", 0, <<>>)
  BY <1>1 DEF Specified, Reply
<1>3. Fifo!NoReply = Reply("none", 0, <<>>)
  BY DEF Fifo!NoReply, Fifo!Reply, Reply
<1>4. \A d \in Clients \ {c} : Specified(reply'[d]) = Specified(reply[d])
  BY <1>1
<1>5. Contents' = Contents
  BY DEF Contents, Used
<1>6. Fifo!Unspecified(c)
  BY <1>2, <1>3, <1>4, <1>5 DEF Fifo!Unspecified
<1> QED BY <1>6 DEF Fifo!Next

LEMMA ContentsShape ==
    ASSUME TypeOK
    PROVE  /\ Contents = Segment(buffer, tail, Used, Slots)
           /\ Contents \in Seq(Data)
           /\ Len(Contents) = Used
           /\ Contents = <<>> <=> IsEmpty
           /\ Len(Contents) = Capacity <=> IsFull
           /\ Len(Contents) < Capacity <=> ~IsFull
<1>1. /\ Used \in 0 .. Slots /\ buffer \in Storage(Data, Slots)
      /\ tail \in 0 .. Slots - 1 /\ Slots \in Nat \ {0} /\ Used \in Nat
  BY UsedRange, SlotsAssumption DEF TypeOK, Index
<1>2. Contents = Segment(buffer, tail, Used, Slots)
  BY DEF Contents
<1>3. Contents \in Seq(Data)
  BY <1>1, <1>2, SegmentType
<1>4. Len(Contents) = Used
  BY <1>1, <1>2, SegmentLen
<1>5. Contents = <<>> <=> Used = 0
  BY <1>3, <1>4, EmptySeq
<1> QED
  BY <1>2, <1>3, <1>4, <1>5, UsedRange, SlotsAssumption DEF Capacity

LEMMA InitMaps == Init => Fifo!Init
<1> SUFFICES ASSUME Init PROVE Fifo!Init
  OBVIOUS
<1>1. Used = 0
  BY DEF Init, Used, Distance
<1>2. Contents = <<>>
  BY <1>1 DEF Contents, Segment
<1>3. Specified(Reply("none", 0, <<>>)) = Fifo!NoReply
  BY DEF Specified, Reply, Fifo!NoReply, Fifo!Reply
<1> QED
  BY <1>2, <1>3 DEF Init, Fifo!Init

LEMMA UnchangedMaps ==
    ASSUME UNCHANGED <<buffer, head, tail, reply>>
    PROVE  UNCHANGED Fifo!vars
BY DEF Fifo!vars, Contents, Used

\* What the producer stores next to head is not part of the contents yet.
LEMMA WriteStutters ==
    ASSUME IInv, TryPutWrite
    PROVE  UNCHANGED Fifo!vars
<1>1. /\ UNCHANGED <<head, tail, reply>>
      /\ buffer' = [buffer EXCEPT ![head] = pval[1]]
  BY DEF TryPutWrite, Locals
<1>2. Used' = Used
  BY <1>1 DEF Used
<1>3. ASSUME NEW i \in 1 .. Used
      PROVE  buffer'[Wrap(tail + i - 1, Slots)] = buffer[Wrap(tail + i - 1, Slots)]
  <2>1. i - 1 \in 0 .. Used - 1 /\ i - 1 \in 0 .. Slots - 1
    BY UsedRange, SlotsAssumption DEF IInv
  <2>2. Wrap(tail + (i - 1), Slots) # head
    BY <2>1, HeadOutside DEF IInv
  <2>3. tail + i - 1 = tail + (i - 1)
    BY DEF IInv, TypeOK, Index
  <2>4. Wrap(tail + (i - 1), Slots) \in 0 .. Slots - 1
    BY <2>1, SlotsAssumption DEF Wrap, IInv, TypeOK, Index
  <2> QED BY <1>1, <2>2, <2>3, <2>4 DEF IInv, TypeOK, Storage, Index
<1>4. Contents' = Contents
  BY <1>1, <1>2, <1>3 DEF Contents, Segment
<1> QED
  BY <1>1, <1>4 DEF Fifo!vars

\* Storing head makes the byte that was written the newest element.
LEMMA PublishMaps ==
    ASSUME IInv, TryPutPublish
    PROVE  Fifo!Next
<1>1. /\ pc["producer"] = "publish" /\ UNCHANGED <<buffer, tail>>
      /\ head' = Advance(head) /\ Answer("producer", "try_put", 0, pval)
  BY DEF TryPutPublish, At
<1>2. ~IsFull
  BY <1>1 DEF IInv, RoomKept
<1>3. PICK d \in Data : pval = <<d>>
  BY <1>1 DEF IInv, Roles
<1>4. buffer[head] = d
  BY <1>1, <1>3 DEF IInv, SlotWritten
<1>5. Used' = Used + 1 /\ Used \in 0 .. Slots - 1
  BY <1>1, <1>2, UsedGrows, UsedRange, SlotsAssumption DEF IInv
<1>6. Segment(buffer, tail, Used', Slots)
        = AppendTo(Segment(buffer, tail, Used, Slots), d)
  <2>1. /\ buffer \in Storage(Data, Slots) /\ tail \in 0 .. Slots - 1
        /\ Slots \in Nat \ {0} /\ head = Wrap(tail + Used, Slots)
    BY UsedRange, SlotsAssumption DEF IInv, TypeOK, Index
  <2>2. \A j \in (0 .. Slots - 1) \ {head} : buffer[j] = buffer[j]
    OBVIOUS
  <2> QED BY <1>4, <1>5, <2>1, <2>2, SegmentAppend
<1>7. Contents' = Append(Contents, d)
  BY <1>1, <1>6 DEF Contents, AppendTo
<1>8. Len(Contents) < Capacity
  BY <1>2, ContentsShape DEF IInv
<1>9. Fifo!Answer("producer", "try_put", 0, pval)
  BY <1>1, AnswerMaps, Threads DEF IInv
<1>10. Fifo!Push("producer", d)
  BY <1>3, <1>7, <1>8, <1>9 DEF Fifo!Push
<1> QED BY <1>10, Threads DEF Fifo!Next

\* Storing tail removes the oldest element, which is the one that was read.
LEMMA GetAdvanceMaps ==
    ASSUME IInv, GetAdvance
    PROVE  Fifo!Next
<1>1. /\ pc["consumer"] = "advance" /\ UNCHANGED <<buffer, head>>
      /\ tail' = Advance(tail) /\ Answer("consumer", "get", 0, cval)
  BY DEF GetAdvance, At
<1>2. ~IsEmpty /\ cval = <<buffer[tail]>>
  BY <1>1 DEF IInv, ElementKept, SlotRead
<1>3. Used' = Used - 1 /\ Used \in 1 .. Slots
  BY <1>1, <1>2, UsedShrinks, UsedRange, SlotsAssumption DEF IInv
<1>4. /\ Segment(buffer, tail, Used, Slots) # <<>>
      /\ Head(Segment(buffer, tail, Used, Slots)) = buffer[tail]
      /\ Segment(buffer, tail', Used', Slots)
            = Tail(Segment(buffer, tail, Used, Slots))
  <2>1. /\ buffer \in Storage(Data, Slots) /\ tail \in 0 .. Slots - 1
        /\ Slots \in Nat \ {0} /\ tail' = StepCompare(tail, Slots)
    BY <1>1, SlotsAssumption DEF IInv, TypeOK, Index, Advance
  <2> QED BY <1>3, <2>1, SegmentTail
<1>5. Contents # <<>> /\ Head(Contents) = buffer[tail] /\ Contents' = Tail(Contents)
  BY <1>1, <1>4 DEF Contents
<1>6. Fifo!Answer("consumer", "get", 0, cval)
  BY <1>1, AnswerMaps, Threads DEF IInv
<1>7. Fifo!Pop("consumer")
  BY <1>2, <1>5, <1>6 DEF Fifo!Pop
<1> QED BY <1>7, Threads DEF Fifo!Next

\* The two tests that refuse, and the two questions.
LEMMA QuestionsMap ==
    ASSUME IInv, TryPutRefused \/ AskFull \/ GetNothing \/ AskEmpty
    PROVE  Fifo!Next
<1>1. Contents' = Contents
  BY DEF TryPutRefused, AskFull, GetNothing, AskEmpty, Fields, Contents, Used
<1>2. CASE TryPutRefused
  <2>1. Fifo!Answer("producer", "try_put", -1, <<>>)
    BY <1>2, AnswerMaps, Threads DEF IInv, TryPutRefused
  <2>2. Fifo!Refuse("producer")
    BY <1>1, <1>2, <2>1, ContentsShape DEF IInv, TryPutRefused, Fifo!Refuse
  <2> QED BY <2>2, Threads DEF Fifo!Next
<1>3. CASE AskFull
  <2>1. Fifo!Answer("producer", "full", IF IsFull THEN 1 ELSE 0, <<>>)
    BY <1>3, AnswerMaps, Threads DEF IInv, AskFull
  <2>2. (Len(Contents) = Capacity) <=> IsFull
    BY ContentsShape DEF IInv
  <2>3. (IF Len(Contents) = Capacity THEN 1 ELSE 0) = IF IsFull THEN 1 ELSE 0
    BY <2>2
  <2>4. Fifo!AskFull("producer")
    BY <1>1, <2>1, <2>3 DEF Fifo!AskFull
  <2> QED BY <2>4, Threads DEF Fifo!Next
<1>4. CASE GetNothing
  <2>1. Fifo!Answer("consumer", "get", -1, <<>>)
    BY <1>4, AnswerMaps, Threads DEF IInv, GetNothing
  <2>2. Fifo!Miss("consumer")
    BY <1>1, <1>4, <2>1, ContentsShape DEF IInv, GetNothing, Fifo!Miss
  <2> QED BY <2>2, Threads DEF Fifo!Next
<1>5. CASE AskEmpty
  <2>1. Fifo!Answer("consumer", "empty", IF IsEmpty THEN 1 ELSE 0, <<>>)
    BY <1>5, AnswerMaps, Threads DEF IInv, AskEmpty
  <2>2. (Contents = <<>>) <=> IsEmpty
    BY ContentsShape DEF IInv
  <2>3. (IF Contents = <<>> THEN 1 ELSE 0) = IF IsEmpty THEN 1 ELSE 0
    BY <2>2
  <2>4. Fifo!AskEmpty("consumer")
    BY <1>1, <2>1, <2>3 DEF Fifo!AskEmpty
  <2> QED BY <2>4, Threads DEF Fifo!Next
<1> QED BY <1>2, <1>3, <1>4, <1>5

\* circular_buf_put, with room and without.
LEMMA PutMaps ==
    ASSUME IInv, NEW d \in Data, Put(d)
    PROVE  Fifo!Next
<1>1. /\ buffer' \in Storage(Data, Slots)
      /\ buffer'[head] = d
      /\ \A j \in (0 .. Slots - 1) \ {head} : buffer'[j] = buffer[j]
  BY DEF Put, IInv, TypeOK, Storage, Index
<1>2. /\ tail' = IF IsFull THEN Advance(tail) ELSE tail
      /\ head' = Advance(head)
      /\ Answer("producer", "put", 0, <<d>>)
  BY DEF Put
<1>3. /\ buffer \in Storage(Data, Slots) /\ tail \in 0 .. Slots - 1
      /\ Slots \in Nat \ {0} /\ head = Wrap(tail + Used, Slots)
      /\ Used \in 0 .. Slots - 1
  BY UsedRange, SlotsAssumption DEF IInv, TypeOK, Index
<1>4. CASE ~IsFull
  <2>1. Used' = Used + 1 /\ tail' = tail
    BY <1>2, <1>4, UsedGrows DEF IInv
  <2>2. Segment(buffer', tail, Used', Slots)
          = AppendTo(Segment(buffer, tail, Used, Slots), d)
    BY <1>1, <1>3, <2>1, SegmentAppend
  <2>3. Contents' = Append(Contents, d)
    BY <2>1, <2>2 DEF Contents, AppendTo
  <2>4. Len(Contents) < Capacity
    BY <1>4, ContentsShape DEF IInv
  <2>5. Fifo!Answer("producer", "put", 0, <<d>>)
    BY <1>2, AnswerMaps, Threads DEF IInv
  <2>6. Fifo!Overwrite("producer", d)
    BY <2>3, <2>4, <2>5 DEF Fifo!Overwrite
  <2> QED BY <2>6, Threads DEF Fifo!Next
<1>5. CASE IsFull
  <2>1. PICK m \in 0 .. Slots - 1 : m = Slots - 2
    BY SlotsAssumption
  <2>2. Used = Slots - 1 /\ Used \in 1 .. Slots /\ m = Used - 1
    BY <1>5, <2>1, UsedRange, SlotsAssumption DEF IInv
  <2>3. tail' = StepCompare(tail, Slots) /\ tail' \in 0 .. Slots - 1
    BY <1>2, <1>3, <1>5, SlotsAssumption DEF Advance, StepCompare
  <2>4. head = Wrap(tail' + m, Slots)
    BY <1>3, <2>1, <2>2, <2>3, SlotsAssumption DEF Wrap, StepCompare
  <2>5. Used' = m + 1
    BY <1>2, <1>3, <1>5, <2>1, <2>3, SlotsAssumption
       DEF IsFull, Used, Distance, Advance, StepCompare, IInv, TypeOK, Index
  <2>6. /\ Segment(buffer, tail', m, Slots)
             = Tail(Segment(buffer, tail, Used, Slots))
        /\ Segment(buffer', tail', Used', Slots)
             = AppendTo(Segment(buffer, tail', m, Slots), d)
    <3>1. Segment(buffer, tail', m, Slots)
             = Tail(Segment(buffer, tail, Used, Slots))
      <4>1. /\ buffer \in Storage(Data, Slots) /\ tail \in 0 .. Slots - 1
            /\ Slots \in Nat \ {0}
        BY <1>3
      <4>2. tail' = StepCompare(tail, Slots) /\ Used \in 1 .. Slots /\ m = Used - 1
        BY <2>2, <2>3
      <4>3. \A x \in 0 .. Slots - 1, y \in 1 .. Slots :
              Segment(buffer, StepCompare(x, Slots), y - 1, Slots) = Tail(Segment(buffer, x, y, Slots))
        BY <4>1, SegmentTail
      <4> QED BY <4>1, <4>2, <4>3
    <3>2. Segment(buffer', tail', Used', Slots)
             = AppendTo(Segment(buffer, tail', m, Slots), d)
      BY <1>1, <1>3, <2>1, <2>3, <2>4, <2>5, SegmentAppend
    <3> QED BY <3>1, <3>2
  <2>7. Contents' = Append(Tail(Contents), d)
    BY <2>6 DEF Contents, AppendTo
  <2>8. ~(Len(Contents) < Capacity)
    BY <1>5, ContentsShape DEF IInv
  <2>9. Fifo!Answer("producer", "put", 0, <<d>>)
    BY <1>2, AnswerMaps, Threads DEF IInv
  <2>10. Fifo!Overwrite("producer", d)
    BY <2>7, <2>8, <2>9 DEF Fifo!Overwrite
  <2> QED BY <2>10, Threads DEF Fifo!Next
<1> QED BY <1>4, <1>5

LEMMA ResetMaps ==
    ASSUME IInv, Reset
    PROVE  Fifo!Next
<1>1. Used' = 0
  BY DEF Reset, Used, Distance
<1>2. Contents' = <<>>
  BY <1>1 DEF Contents, Segment
<1>3. Fifo!Answer("consumer", "reset", 0, <<>>)
  BY AnswerMaps, Threads DEF IInv, Reset
<1>4. Fifo!Clear("consumer", "reset")
  BY <1>2, <1>3 DEF Fifo!Clear
<1> QED BY <1>4, Threads DEF Fifo!Next

\* A size or peek that moves on is invisible; one that returns is unspecified.
LEMMA SizeReturnsMaps ==
    ASSUME IInv, NEW c \in Clients, NEW v, SizeReturns(c, v)
    PROVE  [Fifo!Next]_(Fifo!vars)
<1>1. UNCHANGED <<buffer, head, tail>>
  BY DEF SizeReturns, Fields
<1>2. CASE Return(c, "size", v, <<>>)
  BY <1>1, <1>2, UnspecifiedMaps DEF IInv, Return
<1>3. CASE PeekReturns(-1, <<>>)
  BY <1>1, <1>3, UnspecifiedMaps, Threads DEF IInv, PeekReturns, Return
<1>4. CASE reply' = reply
  BY <1>1, <1>4, UnchangedMaps
<1> QED BY <1>2, <1>3, <1>4 DEF SizeReturns

LEMMA SizingMaps ==
    ASSUME IInv, NEW c \in Clients, Sizing(c)
    PROVE  [Fifo!Next]_(Fifo!vars)
<1>1. CASE SizeStart(c) \/ SizeNotFull(c) \/ SizeCompare(c)
  BY <1>1, UnchangedMaps DEF SizeStart, SizeNotFull, SizeCompare, Fields, Locals
<1>2. CASE SizeOfFull(c) \/ SizeAhead(c) \/ SizeBehind(c)
  BY <1>2, SizeReturnsMaps DEF SizeOfFull, SizeAhead, SizeBehind
<1> QED BY <1>1, <1>2 DEF Sizing

LEMMA StepMaps == IInv /\ [Next]_vars => [Fifo!Next]_(Fifo!vars)
<1> SUFFICES ASSUME IInv, [Next]_vars PROVE [Fifo!Next]_(Fifo!vars)
  OBVIOUS
<1>1. CASE Producer
  <2>1. ASSUME NEW d \in Data, TryPutStart(d) PROVE UNCHANGED Fifo!vars
    BY <2>1, UnchangedMaps DEF TryPutStart, Fields
  <2> QED BY <1>1, <2>1, QuestionsMap, WriteStutters, PublishMaps DEF Producer
<1>2. CASE Consumer
  <2>1. ASSUME GetStart \/ GetRead PROVE UNCHANGED Fifo!vars
    BY <2>1, UnchangedMaps DEF GetStart, GetRead, Fields, Locals
  <2>2. ASSUME NEW n \in 1 .. Slots, PeekStart(n) PROVE UNCHANGED Fifo!vars
    BY <2>2, UnchangedMaps DEF PeekStart, Fields
  <2>3. ASSUME PeekEmpty PROVE Fifo!Next
    BY <2>3, UnspecifiedMaps, Threads DEF IInv, PeekEmpty, PeekReturns, Return, Fields
  <2>4. ASSUME PeekCopy PROVE Fifo!Next
    BY <2>4, UnspecifiedMaps, Threads DEF IInv, PeekCopy, PeekReturns, Return, Fields
  <2> QED
    BY <1>2, <2>1, <2>2, <2>3, <2>4, QuestionsMap, GetAdvanceMaps DEF Consumer
<1>3. CASE Alone
  BY <1>3, PutMaps, ResetMaps DEF Alone
<1>4. CASE \E c \in Clients : Sizing(c)
  BY <1>4, SizingMaps
<1>5. CASE UNCHANGED vars
  BY <1>5, UnchangedMaps DEF vars
<1> QED BY <1>1, <1>2, <1>3, <1>4, <1>5 DEF Next

\* The lock-free buffer is a FIFO of Slots - 1 elements, for every number of
\* slots, set of bytes and interleaving of one producer and one consumer: no
\* element is lost, duplicated, reordered or read before it is written.
THEOREM Refinement == Spec => ImplementsFifo
<1>1. Spec => Fifo!Init /\ [][Fifo!Next]_(Fifo!vars)
  BY InitMaps, StepMaps, InductiveInvariant, PTL DEF Spec
<1> QED BY <1>1 DEF ImplementsFifo, Fifo!Spec

====

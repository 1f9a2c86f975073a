---- MODULE CircularBuffer_proofs ----
(***************************************************************************)
(* The single-caller circular buffer implements a bounded FIFO, for every  *)
(* set of bytes, every storage size and both ways of advancing an index.   *)
(***************************************************************************)
EXTENDS CircularBuffer, Data_proofs

\* Whatever the variant, an index advances by the comparison of the no-modulo
\* version: the rest of the proof needs no reasoning about remainders.
LEMMA AdvanceIsStep ==
    ASSUME NEW v \in Index
    PROVE  /\ Advance(v) = StepCompare(v, Slots)
           /\ Advance(v) \in Index
BY SlotsAssumption, ModuloAssumption, StepsAgree, StepType DEF Advance, Index

\* advance_head_pointer keeps the indices in range and the flag truthful.
LEMMA AdvanceHeadInv ==
    ASSUME TypeOK, FullMeansCoincide, AdvanceHead
    PROVE  /\ head' \in Index /\ tail' \in Index /\ full' \in BOOLEAN
           /\ FullMeansCoincide'
BY AdvanceIsStep DEF TypeOK, AdvanceHead, FullMeansCoincide

IInv == TypeOK /\ FullMeansCoincide

\* What Size computes is between 0 and Slots, and is 0 exactly when IsEmpty.
LEMMA SizeRange ==
    ASSUME IInv
    PROVE  /\ Size \in 0 .. Slots
           /\ IsEmpty <=> Size = 0
           /\ full <=> Size = Slots
BY SlotsAssumption DEF IInv, TypeOK, FullMeansCoincide, Size, IsEmpty, Distance, Index

\* Answers are well-formed; most carry no data.
LEMMA ReplyType ==
    ASSUME NEW op \in Calls, NEW ret \in Int, NEW data \in Seq(Data)
    PROVE  Reply(op, ret, data) \in Replies
BY DEF Reply, Replies

LEMMA BareReplyType ==
    ASSUME NEW op \in Calls, NEW ret \in Int
    PROVE  Reply(op, ret, <<>>) \in Replies
<1>1. <<>> \in Seq(Data)
  OBVIOUS
<1> QED BY <1>1, ReplyType

\* ... or one byte.
LEMMA ByteReplyType ==
    ASSUME NEW op \in Calls, NEW ret \in Int, NEW d \in Data
    PROVE  Reply(op, ret, <<d>>) \in Replies
<1>1. <<d>> \in Seq(Data)
  OBVIOUS
<1> QED BY <1>1 DEF Reply, Replies

LEMMA ZeroIndex == 0 \in Index
BY SlotsAssumption DEF Index

LEMMA InitInv == Init => IInv
<1>1. Reply("none", 0, <<>>) \in Replies
  BY BareReplyType DEF Calls
<1> QED
  BY <1>1, ZeroIndex DEF Init, IInv, TypeOK, FullMeansCoincide

LEMMA SegmentData ==
    ASSUME IInv, NEW k \in 0 .. Slots
    PROVE  Segment(buffer, tail, k, Slots) \in Seq(Data)
BY SlotsAssumption, SegmentType DEF IInv, TypeOK, Index

LEMMA StepInv == IInv /\ [Next]_vars => IInv'
<1> SUFFICES ASSUME IInv, [Next]_vars PROVE IInv'
  OBVIOUS
<1> USE DEF IInv
<1>1. CASE CircularBufInit
  <2>1. reply' \in Replies
    BY <1>1, BareReplyType DEF Calls, CircularBufInit
  <2> QED
    BY <1>1, <2>1, ZeroIndex
       DEF CircularBufInit, ResetFields, TypeOK, FullMeansCoincide
<1>2. CASE Free
  <2>1. reply' \in Replies
    BY <1>2, BareReplyType DEF Calls, Free
  <2> QED BY <1>2, <2>1 DEF Free, TypeOK, FullMeansCoincide
<1>3. CASE Reset
  <2>1. reply' \in Replies
    BY <1>3, BareReplyType DEF Calls, Reset
  <2> QED
    BY <1>3, <2>1, ZeroIndex DEF Reset, ResetFields, TypeOK, FullMeansCoincide
<1>4. CASE Get
  <2>1. Advance(tail) \in Index
    BY AdvanceIsStep DEF TypeOK
  <2>2. buffer[tail] \in Data
    BY DEF TypeOK, Storage, Index
  <2>3. reply' \in Replies
    <3>1. CASE IsEmpty
      BY <1>4, <3>1, BareReplyType DEF Calls, Get
    <3>2. CASE ~IsEmpty
      <4>1. <<buffer[tail]>> \in Seq(Data)
        BY <2>2
      <4>2. Reply("get", 0, <<buffer[tail]>>) \in Replies
        BY <4>1, ReplyType DEF Calls
      <4> QED BY <1>4, <3>2, <4>2 DEF Get
    <3> QED BY <3>1, <3>2
  <2> QED BY <1>4, <2>1, <2>3 DEF Get, TypeOK, FullMeansCoincide
<1>5. CASE AskSize
  BY <1>5, SizeRange, BareReplyType, SlotsAssumption DEF Calls, AskSize, TypeOK, FullMeansCoincide
<1>6. ASSUME NEW d \in Data, Put(d) PROVE IInv'
  <2>1. reply' \in Replies
    BY <1>6, ByteReplyType DEF Calls, Put
  <2>2. buffer' \in Storage(Data, Slots)
    BY <1>6 DEF Put, Storage, TypeOK
  <2> QED BY <1>6, <2>1, <2>2, AdvanceHeadInv DEF Put, TypeOK
<1>7. ASSUME NEW d \in Data, TryPut(d) PROVE IInv'
  <2>1. CASE full
    BY <1>7, <2>1, BareReplyType DEF Calls, TryPut, TypeOK, FullMeansCoincide
  <2>2. CASE ~full
    <3>1. reply' \in Replies
      BY <1>7, <2>2, ByteReplyType DEF Calls, TryPut
    <3>2. buffer' \in Storage(Data, Slots)
      BY <1>7, <2>2 DEF TryPut, Storage, TypeOK
    <3> QED BY <1>7, <2>2, <3>1, <3>2, AdvanceHeadInv DEF TryPut, TypeOK
  <2> QED BY <2>1, <2>2
<1>8. ASSUME NEW n \in 0 .. Slots + 1, Peek(n) PROVE IInv'
  <2>1. reply' \in Replies
    <3>1. CASE IsEmpty \/ n > Size
      BY <1>8, <3>1, BareReplyType DEF Calls, Peek
    <3>2. CASE ~(IsEmpty \/ n > Size)
      <4>1. n \in 0 .. Slots
        BY <1>8, <3>2, SizeRange, SlotsAssumption
      <4>2. Segment(buffer, tail, n, Slots) \in Seq(Data)
        BY <4>1, SegmentData
      <4> QED BY <1>8, <3>2, <4>2, ReplyType DEF Calls, Peek
    <3> QED BY <3>1, <3>2
  <2> QED BY <1>8, <2>1 DEF Peek, TypeOK, FullMeansCoincide
<1>9. CASE AskEmpty
  <2>1. reply' \in Replies
    BY <1>9, BareReplyType DEF Calls, AskEmpty
  <2> QED BY <1>9, <2>1 DEF AskEmpty, TypeOK, FullMeansCoincide
<1>10. CASE AskFull
  <2>1. reply' \in Replies
    BY <1>10, BareReplyType DEF Calls, AskFull
  <2> QED BY <1>10, <2>1 DEF AskFull, TypeOK, FullMeansCoincide
<1>11. CASE UNCHANGED vars
  BY <1>11 DEF vars, TypeOK, FullMeansCoincide
<1> QED
  BY <1>1, <1>2, <1>3, <1>4, <1>5, <1>6, <1>7, <1>8, <1>9, <1>10, <1>11 DEF Next

THEOREM InductiveInvariant == Spec => []IInv
BY InitInv, StepInv, PTL DEF Spec

\* Every field of the buffer, and every reply, keeps its type: in particular no
\* call sequence moves an index outside the storage (circular_buffer.c:20-36).
THEOREM TypeCorrect == Spec => []TypeOK
BY InductiveInvariant, PTL DEF IInv

\* The full flag is only ever set where head and tail coincide
\* (circular_buffer.c:25-36, 124-139).
THEOREM FlagTruthful == Spec => []FullMeansCoincide
BY InductiveInvariant, PTL DEF IInv

-----------------------------------------------------------------------------
(* The refinement.                                                         *)

LEMMA AnswerMaps ==
    ASSUME NEW op, NEW ret, NEW data, reply' = Reply(op, ret, data)
    PROVE  Fifo!Answer("owner", op, ret, data)
BY DEF Fifo!Answer, Fifo!Reply, Reply

\* The elements of a live buffer, and the slot after the newest one.
LEMMA LiveContents ==
    ASSUME IInv, live
    PROVE  /\ Contents = Segment(buffer, tail, Size, Slots)
           /\ Contents \in Seq(Data)
           /\ Len(Contents) = Size
           /\ Contents = <<>> <=> Size = 0
           /\ head = Wrap(tail + Size, Slots)
<1>1. Size \in 0 .. Slots
  BY SizeRange
<1>2. Contents = Segment(buffer, tail, Size, Slots)
  BY DEF Contents
<1>3. Contents \in Seq(Data)
  BY <1>1, <1>2, SegmentData
<1>4. Len(Contents) = Size
  BY <1>1, <1>2, SegmentLen, SlotsAssumption
<1>5. Contents = <<>> <=> Size = 0
  BY <1>3, <1>4, EmptySeq
<1>6. head = Wrap(tail + Size, Slots)
  BY SlotsAssumption DEF IInv, TypeOK, FullMeansCoincide, Size, Distance, Wrap, Index
<1> QED
  BY <1>2, <1>3, <1>4, <1>5, <1>6

\* What me->buffer[me->head] = d does.
Stored(d) ==
    /\ buffer' \in Storage(Data, Slots)
    /\ buffer'[head] = d
    /\ \A j \in (0 .. Slots - 1) \ {head} : buffer'[j] = buffer[j]

LEMMA StoreIsStored ==
    ASSUME IInv, NEW d \in Data, buffer' = [buffer EXCEPT ![head] = d]
    PROVE  Stored(d)
BY DEF Stored, IInv, TypeOK, Storage, Index

\* Storing where there is room appends.
LEMMA StoreAppends ==
    ASSUME IInv, live, live', ~full, AdvanceHead, NEW d \in Data,
           Stored(d)
    PROVE  Contents' = Append(Contents, d)
<1>1. Size \in 0 .. Slots - 1
  BY SizeRange, SlotsAssumption
<1>2. /\ tail' = tail
      /\ head' = StepCompare(head, Slots)
      /\ full' = (head' = tail')
  BY AdvanceIsStep DEF AdvanceHead, IInv, TypeOK
<1>3. Size' = Size + 1
  <2>1. CASE head' = tail'
    <3>1. Size' = Slots
      <4>1. full'
        BY <1>2, <2>1
      <4> QED BY <4>1 DEF Size
    <3>2. Size = Slots - 1
      BY <1>2, <2>1, SlotsAssumption
         DEF IInv, TypeOK, Size, Distance, StepCompare, Index
    <3> QED BY <3>1, <3>2, SlotsAssumption
  <2>2. CASE head' # tail'
    BY <1>2, <2>2, SlotsAssumption
       DEF IInv, TypeOK, Size, Distance, StepCompare, Index
  <2> QED BY <2>1, <2>2
<1>4. head = Wrap(tail + Size, Slots)
  BY LiveContents
<1>5. Segment(buffer', tail, Size', Slots)
         = AppendTo(Segment(buffer, tail, Size, Slots), d)
  <2>1. buffer \in Storage(Data, Slots) /\ tail \in 0 .. Slots - 1
    BY DEF IInv, TypeOK, Index
  <2>2. /\ buffer' \in Storage(Data, Slots)
        /\ buffer'[head] = d
        /\ \A j \in (0 .. Slots - 1) \ {head} : buffer'[j] = buffer[j]
    BY DEF Stored
  <2> QED BY <1>1, <1>3, <1>4, <2>1, <2>2, SegmentAppend, SlotsAssumption
<1>6. Contents' = Segment(buffer', tail', Size', Slots)
  BY DEF Contents
<1> QED
  BY <1>2, <1>5, <1>6, LiveContents DEF AppendTo

\* Storing into a full buffer drops the oldest element and appends.
LEMMA StoreReplaces ==
    ASSUME IInv, live, live', full, AdvanceHead, NEW d \in Data,
           Stored(d)
    PROVE  Contents' = Append(Tail(Contents), d)
<1>1. Size = Slots /\ Slots \in 1 .. Slots /\ Slots - 1 \in 0 .. Slots - 1
  BY SlotsAssumption DEF Size
<1>2. /\ head = tail
      /\ tail' = StepCompare(tail, Slots)
      /\ tail' \in Index
      /\ head' = tail'
      /\ full' = TRUE
  BY AdvanceIsStep DEF AdvanceHead, IInv, TypeOK, FullMeansCoincide
<1>3. Size' = Slots
  BY <1>2 DEF Size
<1>4. Segment(buffer, tail', Slots - 1, Slots)
         = Tail(Segment(buffer, tail, Slots, Slots))
  <2>1. buffer \in Storage(Data, Slots) /\ tail \in 0 .. Slots - 1
    BY DEF IInv, TypeOK, Index
  <2> QED BY <1>1, <1>2, <2>1, SegmentTail, SlotsAssumption
<1>5. head = Wrap(tail' + (Slots - 1), Slots)
  BY <1>2, SlotsAssumption DEF Wrap, StepCompare, IInv, TypeOK, Index
<1>6. Segment(buffer', tail', Slots, Slots)
         = AppendTo(Segment(buffer, tail', Slots - 1, Slots), d)
  <2>1. tail' \in 0 .. Slots - 1 /\ buffer \in Storage(Data, Slots)
    BY <1>2 DEF IInv, TypeOK, Index
  <2>2. Slots = (Slots - 1) + 1
    BY SlotsAssumption
  <2>3. /\ buffer' \in Storage(Data, Slots)
        /\ buffer'[head] = d
        /\ \A j \in (0 .. Slots - 1) \ {head} : buffer'[j] = buffer[j]
    BY DEF Stored
  <2> QED BY <1>1, <1>5, <2>1, <2>2, <2>3, SegmentAppend, SlotsAssumption
<1>7. Contents' = Segment(buffer', tail', Slots, Slots)
  BY <1>3 DEF Contents
<1>8. Contents = Segment(buffer, tail, Slots, Slots)
  BY <1>1, LiveContents
<1> QED
  BY <1>4, <1>6, <1>7, <1>8 DEF AppendTo

\* Taking the element at the tail removes the first one.
LEMMA TakeDrops ==
    ASSUME IInv, live, live', ~IsEmpty,
           tail' = Advance(tail), full' = FALSE, UNCHANGED <<buffer, head>>
    PROVE  /\ Contents # <<>>
           /\ Head(Contents) = buffer[tail]
           /\ Contents' = Tail(Contents)
<1>1. Size \in 1 .. Slots
  BY SizeRange, SlotsAssumption
<1>2. tail' = StepCompare(tail, Slots)
  BY AdvanceIsStep DEF IInv, TypeOK
<1>3. Size' = Size - 1
  BY <1>2, SlotsAssumption
     DEF IInv, TypeOK, FullMeansCoincide, IsEmpty, Size, Distance, StepCompare, Index
<1>4. /\ Segment(buffer, tail, Size, Slots) # <<>>
      /\ Head(Segment(buffer, tail, Size, Slots)) = buffer[tail]
      /\ Segment(buffer, tail', Size', Slots)
            = Tail(Segment(buffer, tail, Size, Slots))
  <2>1. buffer \in Storage(Data, Slots) /\ tail \in 0 .. Slots - 1
    BY DEF IInv, TypeOK, Index
  <2> QED BY <1>1, <1>2, <1>3, <2>1, SegmentTail, SlotsAssumption
<1>5. Contents' = Segment(buffer', tail', Size', Slots)
  BY DEF Contents
<1> QED
  BY <1>2, <1>3, <1>4, <1>5, LiveContents

LEMMA InitMaps == Init => Fifo!Init
BY DEF Init, Fifo!Init, Fifo!NoReply, Fifo!Reply, Reply, Contents

\* Each call is the FIFO's operation of the same name.
LEMMA NextMaps ==
    ASSUME IInv, Next
    PROVE  Fifo!Next
<1>1. CASE CircularBufInit
  <2>1. Contents' = <<>>
    <3>1. live' /\ Size' = 0
      BY <1>1 DEF CircularBufInit, ResetFields, Size, Distance
    <3> QED BY <3>1 DEF Contents, Segment
  <2>2. Fifo!Clear("owner", "init")
    BY <1>1, <2>1, AnswerMaps DEF CircularBufInit, Fifo!Clear
  <2> QED BY <2>2 DEF Fifo!Next
<1>2. CASE Free
  <2>1. Contents' = <<>>
    BY <1>2 DEF Free, Contents
  <2>2. Fifo!Clear("owner", "free")
    BY <1>2, <2>1, AnswerMaps DEF Free, Fifo!Clear
  <2> QED BY <2>2 DEF Fifo!Next
<1>3. CASE Reset
  <2>1. Contents' = <<>>
    <3>1. live' /\ Size' = 0
      BY <1>3 DEF Reset, ResetFields, Size, Distance
    <3> QED BY <3>1 DEF Contents, Segment
  <2>2. Fifo!Clear("owner", "reset")
    BY <1>3, <2>1, AnswerMaps DEF Reset, Fifo!Clear
  <2> QED BY <2>2 DEF Fifo!Next
<1>4. CASE Get
  <2>1. CASE IsEmpty
    <3>1. Contents = <<>> /\ Contents' = Contents
      BY <1>4, <2>1, SizeRange, LiveContents DEF Get, Contents, Size
    <3>2. Fifo!Miss("owner")
      BY <1>4, <2>1, <3>1, AnswerMaps DEF Get, Fifo!Miss
    <3> QED BY <3>2 DEF Fifo!Next
  <2>2. CASE ~IsEmpty
    <3>1. /\ Contents # <<>>
          /\ Head(Contents) = buffer[tail]
          /\ Contents' = Tail(Contents)
      BY <1>4, <2>2, TakeDrops DEF Get
    <3>2. Fifo!Answer("owner", "get", 0, <<Head(Contents)>>)
      BY <1>4, <2>2, <3>1, AnswerMaps DEF Get
    <3>3. Fifo!Pop("owner")
      BY <3>1, <3>2 DEF Fifo!Pop
    <3> QED BY <3>3 DEF Fifo!Next
  <2> QED BY <2>1, <2>2
<1>5. CASE AskSize
  <2>1. Contents' = Contents /\ Len(Contents) = Size
    BY <1>5, LiveContents DEF AskSize, Contents, Size
  <2>2. Fifo!Answer("owner", "size", Len(Contents), <<>>)
    BY <1>5, <2>1, AnswerMaps DEF AskSize
  <2>3. Fifo!Count("owner")
    BY <2>1, <2>2 DEF Fifo!Count
  <2> QED BY <2>3 DEF Fifo!Next
<1>6. ASSUME NEW d \in Data, Put(d) PROVE Fifo!Next
  <2>1. Fifo!Answer("owner", "put", 0, <<d>>)
    BY <1>6, AnswerMaps DEF Put
  <2>2. /\ Stored(d) /\ live /\ live' /\ AdvanceHead
        /\ Len(Contents) = Size /\ Size \in 0 .. Slots
        /\ full <=> Size = Slots
    BY <1>6, StoreIsStored, LiveContents, SizeRange DEF Put
  <2>3. Contents' = IF Len(Contents) < Slots THEN Append(Contents, d)
                                             ELSE Append(Tail(Contents), d)
    <3>1. CASE full
      <4>1. Contents' = Append(Tail(Contents), d)
        BY <2>2, <3>1, StoreReplaces
      <4>2. ~(Len(Contents) < Slots)
        BY <2>2, <3>1, SlotsAssumption
      <4> QED BY <4>1, <4>2
    <3>2. CASE ~full
      <4>1. Contents' = Append(Contents, d)
        BY <2>2, <3>2, StoreAppends
      <4>2. Len(Contents) < Slots
        BY <2>2, <3>2, SlotsAssumption
      <4> QED BY <4>1, <4>2
    <3> QED BY <3>1, <3>2
  <2>4. Fifo!Overwrite("owner", d)
    BY <2>1, <2>3 DEF Fifo!Overwrite
  <2> QED BY <2>4 DEF Fifo!Next
<1>7. ASSUME NEW d \in Data, TryPut(d) PROVE Fifo!Next
  <2>1. CASE full
    <3>1. Contents' = Contents /\ Len(Contents) = Slots
      BY <1>7, <2>1, SizeRange, LiveContents DEF TryPut, Contents, Size
    <3>2. Fifo!Answer("owner", "try_put", -1, <<>>)
      BY <1>7, <2>1, AnswerMaps DEF TryPut
    <3>3. Fifo!Refuse("owner")
      BY <3>1, <3>2 DEF Fifo!Refuse
    <3> QED BY <3>3 DEF Fifo!Next
  <2>2. CASE ~full
    <3>1. /\ Stored(d) /\ live /\ live' /\ AdvanceHead
          /\ Len(Contents) = Size /\ Size \in 0 .. Slots
          /\ full <=> Size = Slots
      BY <1>7, <2>2, StoreIsStored, LiveContents, SizeRange DEF TryPut
    <3>2. Contents' = Append(Contents, d)
      BY <3>1, <2>2, StoreAppends
    <3>3. Len(Contents) < Slots
      BY <3>1, <2>2, SlotsAssumption
    <3>4. Fifo!Answer("owner", "try_put", 0, <<d>>)
      BY <1>7, <2>2, AnswerMaps DEF TryPut
    <3>5. Fifo!Push("owner", d)
      BY <3>2, <3>3, <3>4 DEF Fifo!Push
    <3> QED BY <3>5 DEF Fifo!Next
  <2> QED BY <2>1, <2>2
<1>8. ASSUME NEW n \in 0 .. Slots + 1, Peek(n) PROVE Fifo!Next
  <2>1. /\ Contents' = Contents /\ Len(Contents) = Size
        /\ Contents = Segment(buffer, tail, Size, Slots)
        /\ Contents = <<>> <=> IsEmpty
        /\ Size \in 0 .. Slots
    BY <1>8, SizeRange, LiveContents DEF Peek, Contents, Size
  <2>2. CASE IsEmpty \/ n > Size
    <3>1. ~(Contents # <<>> /\ n <= Len(Contents))
      BY <2>1, <2>2, SlotsAssumption
    <3>2. Fifo!Answer("owner", "peek", -1, <<>>)
      BY <1>8, <2>2, AnswerMaps DEF Peek
    <3> QED BY <2>1, <3>1, <3>2 DEF Fifo!Look, Fifo!Next
  <2>3. CASE ~(IsEmpty \/ n > Size)
    <3>1. Contents # <<>> /\ n <= Len(Contents)
      BY <2>1, <2>3, SlotsAssumption
    <3>2. Segment(buffer, tail, n, Slots) = SubSeq(Contents, 1, n)
      <4>1. /\ buffer \in Storage(Data, Slots) /\ tail \in 0 .. Slots - 1
            /\ n \in 0 .. Size
        BY <2>1, <2>3, SlotsAssumption DEF IInv, TypeOK, Index
      <4> QED BY <2>1, <4>1, SegmentPrefix, SlotsAssumption
    <3>3. Fifo!Answer("owner", "peek", 0, SubSeq(Contents, 1, n))
      BY <1>8, <2>3, <3>2, AnswerMaps DEF Peek
    <3> QED BY <2>1, <3>1, <3>3 DEF Fifo!Look, Fifo!Next
  <2> QED BY <2>2, <2>3
<1>9. CASE AskEmpty
  <2>1. Contents' = Contents /\ (Contents = <<>> <=> IsEmpty)
    BY <1>9, SizeRange, LiveContents DEF AskEmpty, Contents, Size
  <2>2. Fifo!Answer("owner", "empty", IF Contents = <<>> THEN 1 ELSE 0, <<>>)
    BY <1>9, <2>1, AnswerMaps DEF AskEmpty
  <2>3. Fifo!AskEmpty("owner")
    BY <2>1, <2>2 DEF Fifo!AskEmpty
  <2> QED BY <2>3 DEF Fifo!Next
<1>10. CASE AskFull
  <2>1. Contents' = Contents /\ (Len(Contents) = Slots <=> full)
    BY <1>10, SizeRange, LiveContents DEF AskFull, Contents, Size
  <2>2. Fifo!Answer("owner", "full", IF Len(Contents) = Slots THEN 1 ELSE 0, <<>>)
    BY <1>10, <2>1, AnswerMaps DEF AskFull
  <2>3. Fifo!AskFull("owner")
    BY <2>1, <2>2 DEF Fifo!AskFull
  <2> QED BY <2>3 DEF Fifo!Next
<1> QED
  BY <1>1, <1>2, <1>3, <1>4, <1>5, <1>6, <1>7, <1>8, <1>9, <1>10 DEF Next

LEMMA StepMaps == IInv /\ [Next]_vars => [Fifo!Next]_(Fifo!vars)
<1> SUFFICES ASSUME IInv, [Next]_vars PROVE [Fifo!Next]_(Fifo!vars)
  OBVIOUS
<1>1. CASE Next
  BY <1>1, NextMaps
<1>2. CASE UNCHANGED vars
  BY <1>2 DEF vars, Fifo!vars, Contents, Size
<1> QED BY <1>1, <1>2

\* The circular buffer is a FIFO of Slots elements: for every size of storage,
\* set of bytes and sequence of calls, each call answers as circular_buffer.h
\* documents (circular_buffer.c:20-176).
THEOREM Refinement == Spec => ImplementsFifo
<1>1. Spec => Fifo!Init /\ [][Fifo!Next]_(Fifo!vars)
  BY InitMaps, StepMaps, InductiveInvariant, PTL DEF Spec
<1> QED BY <1>1 DEF ImplementsFifo, Fifo!Spec

====

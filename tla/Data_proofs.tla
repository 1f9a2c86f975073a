---- MODULE Data_proofs ----
(***************************************************************************)
(* Facts about data: the ring operators that the circular buffers share    *)
(* (Ring), the loops of a program as functions (Loops), and the sorting    *)
(* and searching of libc (LibcSort), for rings and arrays of any size.     *)
(***************************************************************************)
EXTENDS Ring, LibcSort, WellFoundedInduction, NaturalsInduction, SequenceTheorems, TLAPS

-----------------------------------------------------------------------------
(* The ring operators (Ring), for rings of any size.                       *)

\* The two versions of advance_headtail_value (circular_buffer.c:20-23 and
\* circular_buffer_no_modulo.c:20-28) agree on every index of every storage.
THEOREM StepsAgree ==
    ASSUME NEW n \in Nat \ {0}, NEW v \in 0 .. n - 1
    PROVE  StepModulo(v, n) = StepCompare(v, n)
BY DEF StepModulo, StepCompare

\* Advancing an index of the ring yields an index of the ring.
LEMMA StepType ==
    ASSUME NEW n \in Nat \ {0}, NEW v \in 0 .. n - 1
    PROVE  StepCompare(v, n) \in 0 .. n - 1
BY DEF StepCompare

\* The elements read from the ring form a sequence ...
LEMMA SegmentType ==
    ASSUME NEW S, NEW n \in Nat \ {0}, NEW buf \in Storage(S, n),
           NEW t \in 0 .. n - 1, NEW k \in 0 .. n
    PROVE  Segment(buf, t, k, n) \in Seq(S)
<1>1. \A i \in 1 .. k : Wrap(t + i - 1, n) \in 0 .. n - 1
  BY DEF Wrap
<1>2. Segment(buf, t, k, n) \in [1 .. k -> S]
  BY <1>1 DEF Segment, Storage
<1> QED
  BY <1>2, SeqDef

\* ... of k elements.
LEMMA SegmentLen ==
    ASSUME NEW buf, NEW n, NEW t, NEW k \in Nat
    PROVE  Len(Segment(buf, t, k, n)) = k
BY DEF Segment

\* The i-th of them is the one i - 1 steps after the start.
LEMMA SegmentElement ==
    ASSUME NEW buf, NEW n, NEW t, NEW k, NEW i \in 1 .. k
    PROVE  Segment(buf, t, k, n)[i] = buf[Wrap(t + i - 1, n)]
BY DEF Segment

\* Append under a name of its own: the provers expand Append where they meet it,
\* and then cannot match it in a lemma they are given.
AppendTo(s, d) == Append(s, d)

\* What a store into slot h does to the storage.
LEMMA StoreSlot ==
    ASSUME NEW S, NEW n \in Nat \ {0}, NEW buf \in Storage(S, n),
           NEW h \in 0 .. n - 1, NEW d \in S,
           NEW new, new = [buf EXCEPT ![h] = d]
    PROVE  /\ new \in Storage(S, n)
           /\ new[h] = d
           /\ \A j \in (0 .. n - 1) \ {h} : new[j] = buf[j]
BY DEF Storage

\* Writing the slot behind a run that leaves room appends to the run.
LEMMA SegmentAppend ==
    ASSUME NEW S, NEW n \in Nat \ {0}, NEW buf \in Storage(S, n),
           NEW t \in 0 .. n - 1, NEW k \in 0 .. n - 1, NEW d \in S,
           NEW h, h = Wrap(t + k, n), NEW m, m = k + 1,
           NEW new \in Storage(S, n),
           new[h] = d, \A j \in (0 .. n - 1) \ {h} : new[j] = buf[j]
    PROVE  Segment(new, t, m, n) = AppendTo(Segment(buf, t, k, n), d)
<1>1. /\ Segment(new, t, m, n) \in Seq(S)
      /\ Len(Segment(new, t, m, n)) = m
  <2>1. m \in 0 .. n
    OBVIOUS
  <2>2. Segment(new, t, m, n) \in Seq(S)
    BY <2>1, SegmentType
  <2>3. Len(Segment(new, t, m, n)) = m
    BY <2>1, SegmentLen
  <2> QED BY <2>2, <2>3
<1>2. /\ Segment(buf, t, k, n) \in Seq(S)
      /\ Len(Segment(buf, t, k, n)) = k
  <2>1. k \in 0 .. n
    OBVIOUS
  <2>2. Segment(buf, t, k, n) \in Seq(S)
    BY <2>1, SegmentType
  <2>3. Len(Segment(buf, t, k, n)) = k
    BY <2>1, SegmentLen
  <2> QED BY <2>2, <2>3
<1>3. \A i \in 1 .. k : new[Wrap(t + i - 1, n)] = buf[Wrap(t + i - 1, n)]
  <2>1. \A i \in 1 .. k : Wrap(t + i - 1, n) \in (0 .. n - 1) \ {h}
    BY DEF Wrap
  <2> QED BY <2>1
<1>4. new[Wrap(t + k, n)] = d
  OBVIOUS
<1>5. /\ Append(Segment(buf, t, k, n), d) \in Seq(S)
      /\ Len(Append(Segment(buf, t, k, n), d)) = m
      /\ \A i \in 1 .. k : Append(Segment(buf, t, k, n), d)[i]
                              = Segment(buf, t, k, n)[i]
      /\ Append(Segment(buf, t, k, n), d)[m] = d
  BY <1>2, AppendProperties
<1>6. \A i \in 1 .. m : Segment(new, t, m, n)[i]
                               = Append(Segment(buf, t, k, n), d)[i]
  <2> SUFFICES ASSUME NEW i \in 1 .. m
               PROVE  Segment(new, t, m, n)[i]
                        = Append(Segment(buf, t, k, n), d)[i]
    OBVIOUS
  <2>1. Segment(new, t, m, n)[i] = new[Wrap(t + i - 1, n)]
    BY SegmentElement
  <2>2. CASE i \in 1 .. k
    <3>1. Segment(buf, t, k, n)[i] = buf[Wrap(t + i - 1, n)]
      BY <2>2, SegmentElement
    <3> QED BY <2>1, <2>2, <3>1, <1>3, <1>5
  <2>3. CASE i = m
    <3>1. t + i - 1 = t + k
      BY <2>3
    <3>2. new[Wrap(t + i - 1, n)] = d
      BY <3>1, <1>4
    <3>3. Append(Segment(buf, t, k, n), d)[m] = d
      BY <1>5
    <3> QED BY <2>1, <2>3, <3>2, <3>3, Zenon
  <2>4. i \in 1 .. k \/ i = m
    OBVIOUS
  <2> QED BY <2>2, <2>3, <2>4
<1>7. Segment(new, t, m, n) = Append(Segment(buf, t, k, n), d)
  BY <1>1, <1>5, <1>6, SeqEqual
<1> QED BY <1>7 DEF AppendTo

\* Advancing the start of a non-empty run drops its first element, which was
\* the one in the slot the run started at.
LEMMA SegmentTail ==
    ASSUME NEW S, NEW n \in Nat \ {0}, NEW buf \in Storage(S, n),
           NEW t \in 0 .. n - 1, NEW k \in 1 .. n,
           NEW u, u = StepCompare(t, n), NEW m, m = k - 1
    PROVE  /\ Segment(buf, t, k, n) # <<>>
           /\ Head(Segment(buf, t, k, n)) = buf[t]
           /\ Segment(buf, u, m, n) = Tail(Segment(buf, t, k, n))
<1> DEFINE old == Segment(buf, t, k, n)
           new == Segment(buf, u, k - 1, n)
<1>1. u \in 0 .. n - 1 /\ k - 1 \in 0 .. n /\ k \in 0 .. n
  BY StepType
<1>2. /\ old \in Seq(S)
      /\ Len(old) = k
  <2>1. k \in 0 .. n
    OBVIOUS
  <2>2. old \in Seq(S)
    BY <2>1, SegmentType
  <2> QED BY <2>2, SegmentLen
<1>3. /\ new \in Seq(S)
      /\ Len(new) = k - 1
  <2>1. m \in 0 .. n
    OBVIOUS
  <2>2. new \in Seq(S)
    BY <1>1, <2>1, SegmentType
  <2> QED BY <2>1, <2>2, SegmentLen
<1>4. \A i \in 1 .. k - 1 : Wrap(u + i - 1, n) = Wrap(t + (i + 1) - 1, n)
  BY DEF Wrap, StepCompare
<1> HIDE DEF old, new
<1>5. old # <<>>
  BY <1>2
<1>6. /\ Tail(old) \in Seq(S)
      /\ Len(Tail(old)) = k - 1
      /\ \A i \in 1 .. k - 1 : Tail(old)[i] = old[i + 1]
  BY <1>2, <1>5, HeadTailProperties
<1>7. new = Tail(old)
  <2>1. \A i \in 1 .. k - 1 : new[i] = Tail(old)[i]
    <3> TAKE i \in 1 .. k - 1
    <3>1. i + 1 \in 1 .. k
      OBVIOUS
    <3>2. old[i + 1] = buf[Wrap(t + (i + 1) - 1, n)]
      BY <3>1, SegmentElement DEF old
    <3>3. new[i] = buf[Wrap(u + i - 1, n)]
      BY SegmentElement DEF new
    <3> QED BY <3>2, <3>3, <1>4, <1>6
  <2> QED BY <2>1, <1>3, <1>6, SeqEqual
<1>8. Head(old) = buf[t]
  <2>1. Wrap(t + 1 - 1, n) = t
    BY DEF Wrap
  <2>2. 1 \in 1 .. k
    OBVIOUS
  <2>3. old[1] = buf[Wrap(t + 1 - 1, n)]
    BY <2>2, SegmentElement DEF old
  <2> QED BY <2>1, <2>3, <1>2, <1>5
<1> QED BY <1>5, <1>7, <1>8 DEF old, new

\* A shorter run from the same slot is a prefix: what peek copies.
LEMMA SegmentPrefix ==
    ASSUME NEW S, NEW n \in Nat \ {0}, NEW buf \in Storage(S, n),
           NEW t \in 0 .. n - 1, NEW k \in 0 .. n, NEW m \in 0 .. k
    PROVE  Segment(buf, t, m, n) = SubSeq(Segment(buf, t, k, n), 1, m)
<1> DEFINE all == Segment(buf, t, k, n)
           part == Segment(buf, t, m, n)
<1>1. /\ all \in Seq(S)
      /\ Len(all) = k
  BY SegmentType, SegmentLen
<1>2. /\ part \in Seq(S)
      /\ Len(part) = m
  <2>1. m \in 0 .. n
    OBVIOUS
  <2> QED BY <2>1, SegmentType, SegmentLen
<1> HIDE DEF all, part
<1>3. \A i \in 1 .. m : all[i] \in S
  BY <1>1, ElementOfSeq
<1>4. /\ SubSeq(all, 1, m) \in Seq(S)
      /\ Len(SubSeq(all, 1, m)) = m
      /\ \A i \in 1 .. m : SubSeq(all, 1, m)[i] = all[i]
  <2>1. /\ SubSeq(all, 1, m) \in Seq(S)
        /\ Len(SubSeq(all, 1, m)) = IF 1 <= m THEN m - 1 + 1 ELSE 0
        /\ \A i \in 1 .. m - 1 + 1 : SubSeq(all, 1, m)[i] = all[1 + i - 1]
    BY <1>3, SubSeqProperties
  <2> QED BY <2>1
<1>5. \A i \in 1 .. m : part[i] = all[i]
  <2> TAKE i \in 1 .. m
  <2>1. i \in 1 .. k
    OBVIOUS
  <2>2. part[i] = buf[Wrap(t + i - 1, n)]
    BY SegmentElement DEF part
  <2>3. all[i] = buf[Wrap(t + i - 1, n)]
    BY <2>1, SegmentElement DEF all
  <2> QED BY <2>2, <2>3
<1>6. part = SubSeq(all, 1, m)
  BY <1>2, <1>4, <1>5, SeqEqual
<1> QED BY <1>6 DEF all, part

-----------------------------------------------------------------------------
(* Loops (Loops).  Where every pass but the last makes a natural number
   smaller, as many passes as that number was at first reach the end; and what
   every pass keeps, the loop keeps.                                       *)

LEMMA Least ==
  ASSUME NEW T, T \subseteq Nat, T # {} PROVE \E x \in T : \A y \in T : x <= y
<1> DEFINE R == OpToRel(<, Nat)
<1>1. IsWellFoundedOn(R, Nat) BY NatLessThanWellFounded
<1>2. \A x, y \in T : y < x => <<y, x>> \in R BY DEF OpToRel
<1> HIDE DEF R
<1>3. PICK x \in T : \A y \in T : ~ (<<y, x>> \in R) BY <1>1, WFMin
<1>4. ASSUME NEW y \in T PROVE x <= y
  <2>1. ~(y < x) BY <1>2, <1>3
  <2>2. x \in Nat /\ y \in Nat OBVIOUS
  <2>. QED BY <2>1, <2>2
<1>. QED BY <1>4

IsRun(r, f, x, n) == r = [k \in 0 .. n |-> IF k = 0 THEN x ELSE f[r[k - 1]]]

LEMMA SetInduction ==
  ASSUME NEW T, T \subseteq Nat, 0 \in T, \A n \in T : n + 1 \in T
  PROVE  T = Nat
<1> SUFFICES ASSUME Nat \ T # {} PROVE FALSE OBVIOUS
<1>1. PICK m \in Nat \ T : \A n \in Nat \ T : m <= n
  <2>1. Nat \ T \subseteq Nat OBVIOUS
  <2>. QED BY <2>1, Least
<1>2. m # 0 /\ m - 1 \in Nat /\ ~(m <= m - 1) /\ (m - 1) + 1 = m BY <1>1
<1>3. m - 1 \in T BY <1>1, <1>2
<1>. QED BY <1>1, <1>2, <1>3

LEMMA RunExists ==
  ASSUME NEW f, NEW x PROVE \A n \in Nat : \E r : IsRun(r, f, x, n)
<1> DEFINE T == {n \in Nat : \E r : IsRun(r, f, x, n)}
<1>1. 0 \in T
  <2> DEFINE r == [k \in 0 .. 0 |-> x]
  <2>1. r = [k \in 0 .. 0 |-> IF k = 0 THEN x ELSE f[r[k - 1]]] OBVIOUS
  <2>2. IsRun(r, f, x, 0) BY <2>1 DEF IsRun
  <2>. QED BY <2>2
<1>2. ASSUME NEW n \in T PROVE n + 1 \in T
  <2>1. n \in Nat /\ n + 1 \in Nat OBVIOUS
  <2>2. PICK r : IsRun(r, f, x, n) OBVIOUS
  <2>3. \A k \in 0 .. n : r[k] = IF k = 0 THEN x ELSE f[r[k - 1]] BY <2>2 DEF IsRun
  <2> DEFINE q == [k \in 0 .. n + 1 |-> IF k = n + 1 THEN f[r[n]] ELSE r[k]]
  <2>4. ASSUME NEW k \in 0 .. n + 1 PROVE q[k] = IF k = 0 THEN x ELSE f[q[k - 1]]
    <3>1. CASE k = n + 1
      <4>1. k - 1 = n /\ n \in 0 .. n + 1 /\ n # n + 1 /\ k # 0 BY <2>1, <3>1
      <4>2. q[k] = f[r[n]] BY <3>1
      <4>3. q[n] = r[n] BY <4>1
      <4>. QED BY <4>1, <4>2, <4>3
    <3>2. CASE k # n + 1
      <4>1. k \in 0 .. n BY <2>1, <3>2
      <4>2. q[k] = r[k] BY <3>2
      <4>3. k # 0 => k - 1 \in 0 .. n + 1 /\ k - 1 # n + 1 BY <2>1, <4>1
      <4>4. k # 0 => q[k - 1] = r[k - 1] BY <4>3
      <4>. QED BY <2>3, <4>1, <4>2, <4>4
    <3>. QED BY <3>1, <3>2
  <2>5. IsRun(q, f, x, n + 1)
    <3>1. q = [k \in 0 .. n + 1 |-> q[k]] OBVIOUS
    <3> HIDE DEF q
    <3>. QED BY <2>4, <3>1 DEF IsRun
  <2>. QED BY <2>1, <2>5
<1>3. T \subseteq Nat OBVIOUS
<1> HIDE DEF T
<1>4. T = Nat BY <1>1, <1>2, <1>3, SetInduction
<1>. QED BY <1>4 DEF T

LEMMA IterateRun ==
  ASSUME NEW f, NEW x, NEW n \in Nat
  PROVE  \E r : IsRun(r, f, x, n) /\ Iterate(f, x, n) = r[n]
<1> DEFINE r == CHOOSE q : IsRun(q, f, x, n)
<1>1. IsRun(r, f, x, n)
  <2>1. \E q : IsRun(q, f, x, n) BY RunExists
  <2>. QED BY <2>1, Zenon
<1>2. Iterate(f, x, n) = r[n] BY DEF Iterate, IsRun
<1>. QED BY <1>1, <1>2

LEMMA RunsAgree ==
  ASSUME NEW f, NEW x, NEW n \in Nat, NEW m \in Nat, NEW r, NEW q,
         IsRun(r, f, x, n), IsRun(q, f, x, m)
  PROVE  \A k \in Nat : k <= n /\ k <= m => r[k] = q[k]
<1>1. \A k \in 0 .. n : r[k] = IF k = 0 THEN x ELSE f[r[k - 1]] BY DEF IsRun
<1>2. \A k \in 0 .. m : q[k] = IF k = 0 THEN x ELSE f[q[k - 1]] BY DEF IsRun
<1> DEFINE T == {k \in Nat : k <= n /\ k <= m => r[k] = q[k]}
<1>3. 0 \in T BY <1>1, <1>2
<1>4. ASSUME NEW k \in T PROVE k + 1 \in T
  <2>1. SUFFICES ASSUME k + 1 <= n, k + 1 <= m PROVE r[k + 1] = q[k + 1] OBVIOUS
  <2>2. k \in Nat /\ k <= n /\ k <= m /\ k + 1 \in 0 .. n /\ k + 1 \in 0 .. m /\ k + 1 # 0
        /\ (k + 1) - 1 = k
    BY <2>1
  <2>3. r[k] = q[k] BY <2>2
  <2>4. r[k + 1] = f[r[k]] BY <1>1, <2>2
  <2>5. q[k + 1] = f[q[k]] BY <1>2, <2>2
  <2>. QED BY <2>3, <2>4, <2>5
<1>5. T \subseteq Nat OBVIOUS
<1> HIDE DEF T
<1>6. T = Nat BY <1>3, <1>4, <1>5, SetInduction
<1>. QED BY <1>6 DEF T

LEMMA IterateStep ==
  ASSUME NEW f, NEW x, NEW n \in Nat
  PROVE  /\ Iterate(f, x, 0) = x
         /\ Iterate(f, x, n + 1) = f[Iterate(f, x, n)]
<1>1. Iterate(f, x, 0) = x
  <2>1. PICK r : IsRun(r, f, x, 0) /\ Iterate(f, x, 0) = r[0] BY IterateRun
  <2>. QED BY <2>1 DEF IsRun
<1>2. PICK r : IsRun(r, f, x, n) /\ Iterate(f, x, n) = r[n] BY IterateRun
<1>3. PICK q : IsRun(q, f, x, n + 1) /\ Iterate(f, x, n + 1) = q[n + 1]
  <2>1. n + 1 \in Nat OBVIOUS
  <2>. QED BY <2>1, IterateRun
<1>4. r[n] = q[n]
  <2>1. n + 1 \in Nat /\ n <= n /\ n <= n + 1 OBVIOUS
  <2>. QED BY <1>2, <1>3, <2>1, RunsAgree
<1>5. q[n + 1] = f[q[n]]
  <2>1. \A k \in 0 .. n + 1 : q[k] = IF k = 0 THEN x ELSE f[q[k - 1]] BY <1>3 DEF IsRun
  <2>2. n + 1 \in 0 .. n + 1 /\ n + 1 # 0 /\ (n + 1) - 1 = n OBVIOUS
  <2>. QED BY <2>1, <2>2
<1>. QED BY <1>1, <1>2, <1>3, <1>4, <1>5

\* What holds before the loop and is preserved by its body holds after any number of passes.
LEMMA IterateKeeps ==
  ASSUME NEW P, NEW f, NEW x \in P, \A q \in P : f[q] \in P
  PROVE  \A n \in Nat : Iterate(f, x, n) \in P
<1> DEFINE T == {n \in Nat : Iterate(f, x, n) \in P}
<1>1. 0 \in T
  <2>1. Iterate(f, x, 0) = x BY IterateStep
  <2>. QED BY <2>1
<1>2. ASSUME NEW n \in T PROVE n + 1 \in T
  <2>1. n \in Nat /\ n + 1 \in Nat /\ Iterate(f, x, n) \in P OBVIOUS
  <2>2. Iterate(f, x, n + 1) = f[Iterate(f, x, n)] BY <2>1, IterateStep
  <2>. QED BY <2>1, <2>2
<1>3. T \subseteq Nat OBVIOUS
<1> HIDE DEF T
<1>4. T = Nat BY <1>1, <1>2, <1>3, SetInduction
<1>. QED BY <1>4 DEF T

\* every pass of f stays in P, and ends the loop or lowers the natural number V
EndsBy(f, P, V) ==
  /\ V \in [P -> Nat]
  /\ \A q \in P : f[q] \in P /\ (f[q] = q \/ V[f[q]] < V[q])

\* Such a loop has ended after V passes.
LEMMA IterateEnds ==
  ASSUME NEW P, NEW f, NEW x \in P, NEW V, EndsBy(f, P, V), NEW n \in Nat, V[x] <= n
  PROVE  /\ Iterate(f, x, n) \in P
         /\ f[Iterate(f, x, n)] = Iterate(f, x, n)
<1>e. /\ V \in [P -> Nat]
      /\ \A q \in P : f[q] \in P /\ (f[q] = q \/ V[f[q]] < V[q])
  BY DEF EndsBy
<1> DEFINE It(k) == Iterate(f, x, k)
           T == {k \in Nat : f[It(k)] = It(k) \/ V[It(k)] + k <= V[x]}
<1>0. \A k \in Nat : It(k) \in P BY <1>e, IterateKeeps
<1>1. \A k \in Nat : It(k + 1) = f[It(k)] BY IterateStep
<1>2. It(0) = x
  <2>1. 0 \in Nat OBVIOUS
  <2>. QED BY <2>1, IterateStep
<1> HIDE DEF It
<1>3. 0 \in T
  <2>1. V[It(0)] \in Nat BY <1>e, <1>2
  <2>. QED BY <1>2, <2>1
<1>4. ASSUME NEW k \in T PROVE k + 1 \in T
  <2>1. k \in Nat /\ k + 1 \in Nat /\ It(k + 1) = f[It(k)] BY <1>1
  <2>2. It(k) \in P /\ It(k + 1) \in P BY <1>0, <2>1
  <2>3. CASE f[It(k)] = It(k) BY <2>1, <2>3
  <2>4. CASE f[It(k)] # It(k)
    <3>1. V[It(k)] + k <= V[x] BY <2>4
    <3>2. V[It(k + 1)] < V[It(k)] BY <1>e, <2>1, <2>2, <2>4
    <3>3. V[It(k)] \in Nat /\ V[It(k + 1)] \in Nat /\ V[x] \in Nat BY <1>e, <2>2
    <3>4. V[It(k + 1)] + (k + 1) <= V[x] BY <2>1, <3>1, <3>2, <3>3
    <3>. QED BY <2>1, <3>4
  <2>. QED BY <2>3, <2>4
<1>5. T \subseteq Nat OBVIOUS
<1> HIDE DEF T
<1>6. T = Nat BY <1>3, <1>4, <1>5, SetInduction
<1>7. CASE f[It(n)] = It(n) BY <1>0, <1>7 DEF It
<1>8. CASE f[It(n)] # It(n)
  <2>1. V[It(n)] + n <= V[x] BY <1>6, <1>8 DEF T
  <2>2. It(n) \in P /\ f[It(n)] \in P BY <1>0, <1>e
  <2>3. V[It(n)] \in Nat /\ V[x] \in Nat /\ V[f[It(n)]] \in Nat BY <1>e, <2>2
  <2>4. V[It(n)] = 0 BY <2>1, <2>3
  <2>5. V[f[It(n)]] < V[It(n)] BY <1>e, <1>8, <2>2
  <2>. QED BY <2>3, <2>4, <2>5
<1>. QED BY <1>7, <1>8

-----------------------------------------------------------------------------
(* Searching (LibcSort).                                                   *)

Sorted(s) == \A i, j \in 1 .. Len(s) : i <= j => s[i] <= s[j]

\* the positions that bsearch has not ruled out: none but these can hold the key
Unruled(key, s) ==
  {q \in [base : Nat, lim : Nat, found : Nat] :
     /\ 1 <= q.base /\ q.base + q.lim <= Len(s) + 1
     /\ q.found # 0 => q.found \in 1 .. Len(s) /\ s[q.found] = key
     /\ q.found = 0 => \A i \in 1 .. Len(s) : s[i] = key => q.base <= i /\ i < q.base + q.lim}

Left(q) == IF q.found # 0 THEN 0 ELSE q.lim

\* halving
LEMMA HalvesOf ==
  ASSUME NEW n \in Nat
  PROVE  /\ n \div 2 \in Nat /\ (n = 2 * (n \div 2) \/ n = 2 * (n \div 2) + 1)
         /\ n > 0 => (n - 1) \div 2 \in Nat /\ n \div 2 < n
                     /\ n = (n \div 2) + ((n - 1) \div 2) + 1
OBVIOUS

LEMMA HalveStep ==
  ASSUME NEW s \in Seq(Int), Sorted(s), NEW key \in Int, NEW q \in Unruled(key, s)
  PROVE  /\ Halve(key, s)[q] \in Unruled(key, s)
         /\ q.lim = 0 \/ q.found # 0 => Halve(key, s)[q] = q
         /\ ~(q.lim = 0 \/ q.found # 0) => Left(Halve(key, s)[q]) < Left(q)
<1> DEFINE p == q.base + (q.lim \div 2)
           r == Halve(key, s)[q]
<1>1. /\ q \in [base : Nat, lim : Nat, found : Nat] /\ Len(s) \in Nat
      /\ 1 <= q.base /\ q.base + q.lim <= Len(s) + 1
      /\ q.found = 0 => \A i \in 1 .. Len(s) : s[i] = key => q.base <= i /\ i < q.base + q.lim
  BY DEF Unruled
<1>2. r = IF q.lim = 0 \/ q.found # 0 THEN q
          ELSE IF key = s[p] THEN [q EXCEPT !.found = p]
          ELSE IF key > s[p] THEN [q EXCEPT !.base = p + 1, !.lim = (@ - 1) \div 2]
          ELSE [q EXCEPT !.lim = @ \div 2]
  BY <1>1 DEF Halve
<1>3. CASE q.lim = 0 \/ q.found # 0 BY <1>2, <1>3
<1>4. CASE ~(q.lim = 0 \/ q.found # 0)
  <2>0. PICK b \in Nat, l \in Nat : b = q.base /\ l = q.lim /\ q.found = 0 /\ l > 0 BY <1>1, <1>4
  <2> DEFINE h == l \div 2
             g == (l - 1) \div 2
  <2>h. h \in Nat /\ g \in Nat /\ h < l /\ l = h + g + 1
    BY <2>0, HalvesOf
  <2>k. p = b + h BY <2>0
  <2> HIDE DEF p
  <2>1. /\ p \in 1 .. Len(s) /\ p \in Nat /\ p = b + h /\ b <= p /\ p + 1 + g = b + l /\ g < l
        /\ 1 <= b /\ b + l <= Len(s) + 1
    <3>1. p = b + h /\ 1 <= b /\ b + l <= Len(s) + 1 BY <1>1, <2>0, <2>k
    <3>2. Len(s) \in Nat /\ b \in Nat /\ l \in Nat /\ l > 0 BY <1>1, <2>0
    <3> HIDE DEF h, g
    <3>. QED BY <2>h, <3>1, <3>2
  <2>3. s[p] \in Int BY <2>1, ElementOfSeq
  <2>4. \A i \in 1 .. Len(s) : s[i] \in Int BY ElementOfSeq
  <2> HIDE DEF p
  <2>e. q = [base |-> b, lim |-> l, found |-> 0] BY <1>1, <2>0
  <2>5. CASE key = s[p]
    <3>1. r = [q EXCEPT !.found = p] BY <1>2, <1>4, <2>5
    <3> HIDE DEF r
    <3>2. r = [base |-> b, lim |-> l, found |-> p] BY <2>e, <3>1
    <3>3. r \in [base : Nat, lim : Nat, found : Nat] /\ r.base = b /\ r.lim = l /\ r.found = p
      BY <2>0, <2>1, <3>2
    <3>4. r \in Unruled(key, s) BY <1>1, <2>0, <2>1, <2>5, <3>3 DEF Unruled
    <3>5. Left(r) = 0 /\ Left(q) = l BY <2>0, <2>1, <3>3 DEF Left
    <3>. QED BY <1>4, <2>0, <3>4, <3>5 DEF r
  <2>6. CASE key > s[p]
    <3>1. r = [q EXCEPT !.base = p + 1, !.lim = (@ - 1) \div 2]
      BY <1>2, <1>4, <2>3, <2>6
    <3> HIDE DEF r
    <3>2. r = [base |-> p + 1, lim |-> g, found |-> 0] BY <2>e, <3>1
    <3> HIDE DEF g, h
    <3>3. /\ r \in [base : Nat, lim : Nat, found : Nat]
          /\ r.base = p + 1 /\ r.lim = g /\ r.found = 0
      BY <2>h, <2>1, <3>2
    <3>4. ASSUME NEW i \in 1 .. Len(s), s[i] = key PROVE p + 1 <= i /\ i < b + l
      <4>1. i < b + l BY <1>1, <2>0, <3>4
      <4>2. ~(i <= p)
        <5> SUFFICES ASSUME i <= p PROVE FALSE OBVIOUS
        <5>1. s[i] <= s[p] BY <2>1 DEF Sorted
        <5>. QED BY <2>3, <2>6, <3>4, <5>1
      <4>. QED BY <2>1, <4>1, <4>2
    <3>5. r \in Unruled(key, s)
      <4>1. r.base + r.lim = b + l /\ b + l <= Len(s) + 1 /\ 1 <= r.base BY <2>0, <2>1, <3>3
      <4>. QED BY <3>3, <3>4, <4>1 DEF Unruled
    <3>6. Left(r) = g /\ Left(q) = l BY <2>0, <3>3 DEF Left
    <3>. QED BY <1>4, <2>0, <2>1, <3>5, <3>6 DEF r
  <2>7. CASE key < s[p]
    <3>1. r = [q EXCEPT !.lim = @ \div 2] BY <1>2, <1>4, <2>3, <2>7
    <3> HIDE DEF r
    <3>2. r = [base |-> b, lim |-> h, found |-> 0] BY <2>e, <3>1
    <3> HIDE DEF g, h
    <3>3. /\ r \in [base : Nat, lim : Nat, found : Nat]
          /\ r.base = b /\ r.lim = h /\ r.found = 0
      BY <2>0, <2>h, <3>2
    <3>4. ASSUME NEW i \in 1 .. Len(s), s[i] = key PROVE b <= i /\ i < b + h
      <4>1. b <= i BY <1>1, <2>0, <3>4
      <4>2. ~(p <= i) BY <2>1, <2>3, <2>7, <3>4 DEF Sorted
      <4>. QED BY <2>0, <2>1, <4>1, <4>2
    <3>5. r \in Unruled(key, s)
      <4>1. r.base + r.lim <= Len(s) + 1 /\ 1 <= r.base BY <1>1, <2>0, <2>h, <2>1, <3>3
      <4>. QED BY <3>3, <3>4, <4>1 DEF Unruled
    <3>6. Left(r) = h /\ Left(q) = l BY <2>0, <3>3 DEF Left
    <3>. QED BY <1>4, <2>0, <2>h, <3>5, <3>6 DEF r
  <2>. QED BY <2>3, <2>5, <2>6, <2>7
<1>. QED BY <1>3, <1>4

\* bsearch (bsearch.c:50) finds an element equal to the key exactly when a sorted array has one.
THEOREM BSearchFinds ==
  ASSUME NEW s \in Seq(Int), Sorted(s), NEW key \in Int
  PROVE  /\ BSearch(key, s) = 0 => \A i \in 1 .. Len(s) : s[i] # key
         /\ BSearch(key, s) # 0 => BSearch(key, s) \in 1 .. Len(s) /\ s[BSearch(key, s)] = key
<1> DEFINE P == Unruled(key, s)
           f == Halve(key, s)
           x == [base |-> 1, lim |-> Len(s), found |-> 0]
           V == [q \in P |-> Left(q)]
           last == Iterate(f, x, Len(s))
<1>1. x \in P /\ Len(s) \in Nat /\ V[x] <= Len(s)
  <2>1. Len(s) \in Nat OBVIOUS
  <2>2. x \in P BY <2>1 DEF Unruled
  <2>. QED BY <2>1, <2>2 DEF Left
<1>2. EndsBy(f, P, V)
  <2>1. V \in [P -> Nat] BY DEF Left, Unruled
  <2>2. \A q \in P : f[q] \in P /\ (f[q] = q \/ Left(f[q]) < Left(q)) BY HalveStep
  <2>. QED BY <2>1, <2>2 DEF EndsBy
<1>4. last \in P /\ f[last] = last
  <2> HIDE DEF P, f, x, V
  <2>. QED BY <1>1, <1>2, IterateEnds
<1>5. BSearch(key, s) = last.found BY DEF BSearch
<1> HIDE DEF last
<1>6. last.lim = 0 \/ last.found # 0
  <2>1. ~(last.lim = 0 \/ last.found # 0) => Left(f[last]) < Left(last) BY <1>4, HalveStep
  <2>2. Left(last) \in Nat BY <1>4 DEF Left, Unruled
  <2>. QED BY <1>4, <2>1, <2>2
<1>. QED BY <1>4, <1>5, <1>6 DEF Unruled

-----------------------------------------------------------------------------
(* Arrays whose elements change places: nothing is lost, nothing comes twice.
   Then heaps: a node is not smaller than its children.                    *)

\* the arrays of n elements
Arrays(n) == [1 .. n -> Int]

\* p takes each of n positions to another one
Shuffles(p, n) ==
  /\ p \in [1 .. n -> 1 .. n]
  /\ \A i, j \in 1 .. n : p[i] = p[j] => i = j
  /\ \A j \in 1 .. n : \E i \in 1 .. n : p[i] = j

\* t has the elements of s, in any order
Rearranges(t, s, n) ==
  /\ t \in Arrays(n)
  /\ \E p : Shuffles(p, n) /\ \A i \in 1 .. n : t[i] = s[p[i]]

LEMMA ArraysAreSeqs ==
  ASSUME NEW n \in Nat
  PROVE  /\ \A s \in Seq(Int) : Len(s) = n => s \in Arrays(n)
         /\ \A s \in Arrays(n) : s \in Seq(Int) /\ Len(s) = n /\ DOMAIN s = 1 .. n
<1>1. ASSUME NEW s \in Seq(Int), Len(s) = n PROVE s \in Arrays(n)
  BY <1>1 DEF Arrays
<1>2. ASSUME NEW s \in Arrays(n) PROVE s \in Seq(Int) /\ Len(s) = n /\ DOMAIN s = 1 .. n
  <2>1. s \in [1 .. n -> Int] BY DEF Arrays
  <2>2. s \in Seq(Int) BY <2>1, SeqDef
  <2>. QED BY <2>1, <2>2
<1>. QED BY <1>1, <1>2

LEMMA RearrangesSelf ==
  ASSUME NEW n \in Nat, NEW s \in Arrays(n) PROVE Rearranges(s, s, n)
<1> DEFINE p == [i \in 1 .. n |-> i]
<1>1. Shuffles(p, n) BY DEF Shuffles
<1>2. \A i \in 1 .. n : s[i] = s[p[i]] OBVIOUS
<1> HIDE DEF p
<1>. QED BY <1>1, <1>2 DEF Rearranges

LEMMA RearrangesAgain ==
  ASSUME NEW n \in Nat, NEW s, NEW t, NEW u, Rearranges(t, s, n), Rearranges(u, t, n)
  PROVE  Rearranges(u, s, n)
<1>1. PICK p : Shuffles(p, n) /\ \A i \in 1 .. n : t[i] = s[p[i]] BY DEF Rearranges
<1>2. PICK q : Shuffles(q, n) /\ \A i \in 1 .. n : u[i] = t[q[i]] BY DEF Rearranges
<1> DEFINE r == [i \in 1 .. n |-> p[q[i]]]
<1>3. \A i \in 1 .. n : q[i] \in 1 .. n /\ p[i] \in 1 .. n BY <1>1, <1>2 DEF Shuffles
<1>4. r \in [1 .. n -> 1 .. n] BY <1>3
<1>5. ASSUME NEW i \in 1 .. n, NEW j \in 1 .. n, r[i] = r[j] PROVE i = j
  <2>1. p[q[i]] = p[q[j]] BY <1>5
  <2>0. \A a, b \in 1 .. n : p[a] = p[b] => a = b BY <1>1 DEF Shuffles
  <2>2. q[i] = q[j] BY <1>3, <2>0, <2>1
  <2>. QED BY <1>2, <2>2 DEF Shuffles
<1>6. ASSUME NEW j \in 1 .. n PROVE \E i \in 1 .. n : r[i] = j
  <2>1. PICK k \in 1 .. n : p[k] = j BY <1>1 DEF Shuffles
  <2>2. PICK i \in 1 .. n : q[i] = k BY <1>2 DEF Shuffles
  <2>. QED BY <2>1, <2>2
<1>7. \A i \in 1 .. n : u[i] = s[r[i]] BY <1>1, <1>2, <1>3
<1> HIDE DEF r
<1>8. Shuffles(r, n) BY <1>4, <1>5, <1>6 DEF Shuffles
<1>. QED BY <1>7, <1>8 DEF Rearranges

\* t is s but for the elements i and j, which have changed places
Exchanged(t, s, i, j, n) ==
  /\ t \in Arrays(n) /\ t[i] = s[j] /\ t[j] = s[i]
  /\ \A k \in 1 .. n : k # i /\ k # j => t[k] = s[k]

LEMMA SwapArray ==
  ASSUME NEW n \in Nat, NEW s \in Arrays(n), NEW i \in 1 .. n, NEW j \in 1 .. n
  PROVE  Exchanged(Exchange(s, i, j), s, i, j, n)
BY DEF Exchange, Arrays, Exchanged

LEMMA SwapRearranges ==
  ASSUME NEW n \in Nat, NEW s \in Arrays(n), NEW i \in 1 .. n, NEW j \in 1 .. n
  PROVE  Rearranges(Exchange(s, i, j), s, n)
<1> DEFINE p == [k \in 1 .. n |-> IF k = i THEN j ELSE IF k = j THEN i ELSE k]
<1>1. p \in [1 .. n -> 1 .. n] OBVIOUS
<1>2. \A k \in 1 .. n : p[p[k]] = k OBVIOUS
<1>3. ASSUME NEW k \in 1 .. n PROVE Exchange(s, i, j)[k] = s[p[k]]
  <2>1. p[k] = IF k = i THEN j ELSE IF k = j THEN i ELSE k OBVIOUS
  <2>2. Exchanged(Exchange(s, i, j), s, i, j, n) BY SwapArray
  <2> DEFINE t == Exchange(s, i, j)
  <2>3. t[i] = s[j] /\ t[j] = s[i] /\ \A m \in 1 .. n : m # i /\ m # j => t[m] = s[m]
    BY <2>2 DEF Exchanged
  <2> HIDE DEF p, t
  <2>4. t[k] = s[p[k]] BY <2>1, <2>3
  <2>. QED BY <2>4 DEF t
<1> HIDE DEF p
<1>4. Shuffles(p, n) BY <1>1, <1>2 DEF Shuffles
<1>. QED BY <1>3, <1>4, SwapArray DEF Rearranges, Exchanged

-----------------------------------------------------------------------------
\* no child of j among the first n elements is larger than v
Under(s, j, n, v) ==
  /\ 2 * j <= n => s[2 * j] <= v
  /\ 2 * j + 1 <= n => s[2 * j + 1] <= v

\* the nodes from l on are in order: none has a larger child
HeapFrom(s, l, n) == \A j \in l .. n : Under(s, j, n, s[j])

LEMMA LargerChildIs ==
  ASSUME NEW N \in Nat, NEW s \in Arrays(N), NEW n \in 0 .. N, NEW i \in 1 .. n, 2 * i <= n
  PROVE  /\ LargerChild(s, i, n) \in 1 .. n
         /\ LargerChild(s, i, n) = 2 * i \/ LargerChild(s, i, n) = 2 * i + 1
         /\ i < LargerChild(s, i, n)
         /\ Under(s, i, n, s[LargerChild(s, i, n)])
<1>1. \A j \in 1 .. n : s[j] \in Int BY DEF Arrays
<1>2. 2 * i \in 1 .. n /\ (2 * i < n => 2 * i + 1 \in 1 .. n) OBVIOUS
<1>. QED BY <1>1, <1>2 DEF LargerChild, Under

\* while an element sinks: only its node q.i may be out of order, and the node above it
\* is over the two below it
Sinking(s, l, n) ==
  {q \in Cursors :
     /\ Rearranges(q.s, s, n) /\ q.i \in l .. n
     /\ \A j \in l .. n : j # q.i => Under(q.s, j, n, q.s[j])
     /\ \A j \in l .. n : 2 * j = q.i \/ 2 * j + 1 = q.i => Under(q.s, q.i, n, q.s[j])}

\* the node whose element sinks is in order
Settled(q, n) == 2 * q.i > n \/ q.s[LargerChild(q.s, q.i, n)] <= q.s[q.i]

LEMMA SiftDownStep ==
  ASSUME NEW n \in Nat, NEW s \in Arrays(n), NEW l \in 1 .. n, NEW q \in Sinking(s, l, n)
  PROVE  /\ SiftDown(n)[q] \in Sinking(s, l, n)
         /\ Settled(q, n) => SiftDown(n)[q] = q
         /\ ~ Settled(q, n) => q.i < SiftDown(n)[q].i
<1>0. /\ q \in Cursors /\ Rearranges(q.s, s, n) /\ q.i \in l .. n
      /\ \A j \in l .. n : j # q.i => Under(q.s, j, n, q.s[j])
      /\ \A j \in l .. n : 2 * j = q.i \/ 2 * j + 1 = q.i => Under(q.s, q.i, n, q.s[j])
  BY DEF Sinking
<1> DEFINE c == LargerChild(q.s, q.i, n)
           r == SiftDown(n)[q]
<1>1. r = IF Settled(q, n) THEN q ELSE [s |-> Exchange(q.s, q.i, c), i |-> c]
  BY <1>0 DEF SiftDown, Settled
<1>2. CASE Settled(q, n) BY <1>1, <1>2
<1>3. CASE ~ Settled(q, n)
  <2> DEFINE t == Exchange(q.s, q.i, c)
  <2>1. q.s \in Arrays(n) /\ q.i \in 1 .. n /\ 2 * q.i <= n /\ q.i \in Nat
    BY <1>0, <1>3 DEF Rearranges, Settled
  <2>2. c \in 1 .. n /\ (c = 2 * q.i \/ c = 2 * q.i + 1) /\ q.i < c /\ Under(q.s, q.i, n, q.s[c])
    BY <2>1, LargerChildIs
  <2>3. \A k \in 1 .. n : q.s[k] \in Int BY <2>1 DEF Arrays
  <2>4. q.s[q.i] < q.s[c] BY <1>3, <2>1, <2>2, <2>3 DEF Settled
  <2>5. r = [s |-> t, i |-> c] BY <1>1, <1>3
  <2> HIDE DEF c
  <2>6. /\ t \in Arrays(n) /\ t[q.i] = q.s[c] /\ t[c] = q.s[q.i]
        /\ \A k \in 1 .. n : k # q.i /\ k # c => t[k] = q.s[k]
    <3>1. q.i \in 1 .. n /\ c \in 1 .. n BY <2>1, <2>2
    <3>2. Exchanged(t, q.s, q.i, c, n) BY <2>1, <3>1, SwapArray
    <3>. QED BY <3>2 DEF Exchanged
  <2>7. Rearranges(t, s, n)
    <3>1. Rearranges(t, q.s, n) BY <2>1, <2>2, SwapRearranges
    <3>. QED BY <1>0, <3>1, RearrangesAgain
  <2> HIDE DEF r, t
  <2>8. r \in Cursors /\ r.s = t /\ r.i = c
    <3>1. t \in Seq(Int) BY <2>6, ArraysAreSeqs
    <3>. QED BY <2>2, <2>5, <3>1 DEF Cursors
  <2>9. ASSUME NEW j \in l .. n, j # c PROVE Under(t, j, n, t[j])
    <3>0. j \in 1 .. n BY <2>9
    <3>1. CASE j = q.i
      BY <2>1, <2>2, <2>3, <2>4, <2>6, <3>1 DEF Under
    <3>2. CASE j # q.i
      <4>1. t[j] = q.s[j] /\ Under(q.s, j, n, q.s[j]) BY <1>0, <2>6, <2>9, <3>0, <3>2
      <4>2. \A k \in 1 .. n : k = 2 * j \/ k = 2 * j + 1 => k # c BY <2>1, <2>2, <3>0, <3>2
      <4>3. ASSUME NEW k \in 1 .. n, k = 2 * j \/ k = 2 * j + 1 PROVE t[k] <= t[j]
        <5>1. CASE k = q.i
          <6>1. Under(q.s, q.i, n, q.s[j]) BY <1>0, <4>3, <5>1
          <6>. QED BY <2>1, <2>2, <2>6, <4>1, <5>1, <6>1 DEF Under
        <5>2. CASE k # q.i BY <2>6, <4>1, <4>2, <4>3, <5>2 DEF Under
        <5>. QED BY <5>1, <5>2
      <4>4. \A k \in {2 * j, 2 * j + 1} : k <= n => k \in 1 .. n BY <3>0
      <4>. QED BY <4>3, <4>4 DEF Under
    <3>. QED BY <3>1, <3>2
  <2>10. ASSUME NEW j \in l .. n, 2 * j = c \/ 2 * j + 1 = c PROVE Under(t, c, n, t[j])
    <3>1. j = q.i BY <2>1, <2>2, <2>10
    <3>2. Under(q.s, c, n, q.s[c]) BY <1>0, <2>2, <3>1, <2>1
    <3>3. \A k \in {2 * c, 2 * c + 1} : k <= n => k \in 1 .. n /\ k # q.i /\ k # c
      BY <2>2, <2>1
    <3>. QED BY <2>6, <3>1, <3>2, <3>3 DEF Under
  <2>11. c \in l .. n BY <1>0, <2>2
  <2>12. r \in Sinking(s, l, n) BY <2>7, <2>8, <2>9, <2>10, <2>11 DEF Sinking
  <2>. QED BY <1>3, <2>2, <2>8, <2>12 DEF r
<1>. QED BY <1>2, <1>3

-----------------------------------------------------------------------------
(* Heapsort: an element sinks to its place (CreateHeap), node by node from the
   middle to the first (Build).                                            *)

\* CREATE: an element above two heaps sinks to its place.
LEMMA CreateOK ==
  ASSUME NEW n \in Nat, NEW s \in Arrays(n), NEW l \in 1 .. n, HeapFrom(s, l + 1, n)
  PROVE  Rearranges(CreateHeap(s, l, n), s, n) /\ HeapFrom(CreateHeap(s, l, n), l, n)
<1> DEFINE P == Sinking(s, l, n)
           f == SiftDown(n)
           x == [s |-> s, i |-> l]
           V == [q \in P |-> n - q.i]
           last == Iterate(f, x, n)
<1>1. x \in P /\ V[x] <= n
  <2>1. x \in Cursors /\ x.s = s /\ x.i = l BY ArraysAreSeqs DEF Cursors
  <2>2. \A j \in l .. n : j # l => Under(s, j, n, s[j]) BY DEF HeapFrom
  <2>3. \A j \in l .. n : ~(2 * j = l \/ 2 * j + 1 = l) OBVIOUS
  <2>4. l \in l .. n /\ n - l <= n OBVIOUS
  <2>5. x \in P BY <2>1, <2>2, <2>3, <2>4, RearrangesSelf DEF Sinking
  <2>. QED BY <2>1, <2>4, <2>5
<1>2. EndsBy(f, P, V)
  <2>1. \A q \in P : q.i \in Nat /\ q.i <= n BY DEF Sinking, Cursors
  <2>2. V \in [P -> Nat] BY <2>1
  <2>3. \A q \in P : f[q] \in P /\ (f[q] = q \/ q.i < f[q].i) BY SiftDownStep
  <2>4. ASSUME NEW q \in P PROVE f[q] \in P /\ (f[q] = q \/ V[f[q]] < V[q])
    <3>1. f[q] \in P /\ (f[q] = q \/ q.i < f[q].i) BY <2>3
    <3> HIDE DEF f, P
    <3>2. V[q] = n - q.i /\ V[f[q]] = n - f[q].i BY <3>1
    <3>. QED BY <2>1, <3>1, <3>2
  <2> HIDE DEF f, P, V
  <2>. QED BY <2>2, <2>4 DEF EndsBy
<1>3. last \in P /\ f[last] = last
  <2> HIDE DEF f, P, V, x
  <2>. QED BY <1>1, <1>2, IterateEnds
<1>4. CreateHeap(s, l, n) = last.s BY DEF CreateHeap
<1> HIDE DEF last
<1>5. Settled(last, n)
  <2>1. last.i \in Nat /\ (~ Settled(last, n) => last.i < f[last].i)
    BY <1>3, SiftDownStep DEF Sinking, Cursors
  <2>. QED BY <1>3, <2>1
<1>6. /\ last \in Cursors /\ Rearranges(last.s, s, n) /\ last.i \in l .. n
      /\ \A j \in l .. n : j # last.i => Under(last.s, j, n, last.s[j])
  BY <1>3 DEF Sinking
<1>7. Under(last.s, last.i, n, last.s[last.i])
  <2>1. last.s \in Arrays(n) /\ last.i \in 1 .. n BY <1>6 DEF Rearranges
  <2>2. CASE 2 * last.i > n BY <2>1, <2>2 DEF Under
  <2>3. CASE 2 * last.i <= n
    <3> DEFINE c == LargerChild(last.s, last.i, n)
    <3>1. c \in 1 .. n /\ Under(last.s, last.i, n, last.s[c]) BY <2>1, <2>3, LargerChildIs
    <3>2. last.s[c] <= last.s[last.i] BY <1>5, <2>1, <2>3 DEF Settled
    <3> HIDE DEF c
    <3>3. \A k \in 1 .. n : last.s[k] \in Int BY <2>1 DEF Arrays
    <3>. QED BY <2>1, <3>1, <3>2, <3>3 DEF Under
  <2>. QED BY <2>1, <2>2, <2>3
<1>. QED BY <1>4, <1>6, <1>7 DEF HeapFrom

\* while the heap is built: the nodes behind q.i are in order
Building(s, n) ==
  {q \in Cursors : Rearranges(q.s, s, n) /\ q.i \in 0 .. n /\ HeapFrom(q.s, q.i + 1, n)}

LEMMA BuildOK ==
  ASSUME NEW n \in Nat, NEW s \in Arrays(n)
  PROVE  LET heap == Iterate(Build(n), [s |-> s, i |-> n \div 2], n).s
         IN  Rearranges(heap, s, n) /\ HeapFrom(heap, 1, n)
<1> DEFINE P == Building(s, n)
           f == Build(n)
           x == [s |-> s, i |-> n \div 2]
           V == [q \in P |-> q.i]
           last == Iterate(f, x, n)
<1>1. x \in P /\ V[x] <= n
  <2>0. n \div 2 \in Nat /\ n \div 2 <= n /\ n < 2 * ((n \div 2) + 1) BY HalvesOf
  <2>1. x \in Cursors /\ x.s = s /\ x.i = n \div 2 BY <2>0, ArraysAreSeqs DEF Cursors
  <2>2. HeapFrom(s, (n \div 2) + 1, n)
    <3>1. \A j \in (n \div 2) + 1 .. n : ~(2 * j <= n) /\ ~(2 * j + 1 <= n) BY <2>0
    <3>. QED BY <3>1 DEF HeapFrom, Under
  <2>3. x \in P BY <2>0, <2>1, <2>2, RearrangesSelf DEF Building
  <2>. QED BY <2>0, <2>1, <2>3
<1>2. ASSUME NEW q \in P
      PROVE  /\ f[q] \in P /\ (q.i = 0 => f[q] = q)
             /\ q.i # 0 => f[q].i = q.i - 1
  <2>1. q \in Cursors /\ Rearranges(q.s, s, n) /\ q.i \in 0 .. n /\ HeapFrom(q.s, q.i + 1, n)
    BY DEF Building
  <2>2. f[q] = IF q.i = 0 THEN q ELSE [s |-> CreateHeap(q.s, q.i, n), i |-> q.i - 1]
    BY <2>1 DEF Build
  <2>3. CASE q.i = 0 BY <2>2, <2>3
  <2>4. CASE q.i # 0
    <3> DEFINE t == CreateHeap(q.s, q.i, n)
    <3>1. q.i \in 1 .. n /\ q.s \in Arrays(n) /\ q.i - 1 \in 0 .. n /\ (q.i - 1) + 1 = q.i
      BY <2>1, <2>4 DEF Rearranges
    <3>2. Rearranges(t, q.s, n) /\ HeapFrom(t, q.i, n) BY <2>1, <3>1, CreateOK
    <3>3. f[q] = [s |-> t, i |-> q.i - 1] BY <2>2, <2>4
    <3> HIDE DEF t, f
    <3>4. Rearranges(t, s, n) BY <2>1, <3>2, RearrangesAgain
    <3>5. t \in Seq(Int) BY <3>4, ArraysAreSeqs DEF Rearranges
    <3>6. f[q] \in Cursors /\ f[q].s = t /\ f[q].i = q.i - 1
      BY <3>1, <3>3, <3>5 DEF Cursors
    <3>7. f[q] \in P BY <3>1, <3>2, <3>4, <3>6 DEF Building
    <3>. QED BY <2>4, <3>6, <3>7
  <2>. QED BY <2>3, <2>4
<1>3. EndsBy(f, P, V)
  <2>1. \A q \in P : q.i \in Nat BY DEF Building, Cursors
  <2>2. V \in [P -> Nat] BY <2>1
  <2>3. ASSUME NEW q \in P PROVE f[q] \in P /\ (f[q] = q \/ V[f[q]] < V[q])
    <3> HIDE DEF f, P
    <3>1. f[q] \in P BY <1>2
    <3>2. V[q] = q.i /\ V[f[q]] = f[q].i BY <3>1
    <3>. QED BY <1>2, <2>1, <3>1, <3>2
  <2> HIDE DEF f, P, V
  <2>. QED BY <2>2, <2>3 DEF EndsBy
<1>4. last \in P /\ f[last] = last
  <2> HIDE DEF f, P, V, x
  <2>. QED BY <1>1, <1>3, IterateEnds
<1>5. last.i = 0
  <2>1. last.i \in Nat BY <1>4 DEF Building, Cursors
  <2> HIDE DEF f, P, last
  <2>. QED BY <1>2, <1>4, <2>1
<1>. QED BY <1>4, <1>5 DEF Building

\* The first element of a heap is its largest.
LEMMA HeapTop ==
  ASSUME NEW N \in Nat, NEW s \in Arrays(N), NEW n \in 0 .. N, HeapFrom(s, 1, n)
  PROVE  \A j \in 1 .. n : s[j] <= s[1]
<1> DEFINE T == {m \in Nat : \A j \in 1 .. n : j <= m => s[j] <= s[1]}
<1>0. \A j \in 1 .. n : s[j] \in Int BY DEF Arrays
<1>1. 0 \in T OBVIOUS
<1>2. ASSUME NEW m \in T PROVE m + 1 \in T
  <2>1. SUFFICES ASSUME m + 1 \in 1 .. n PROVE s[m + 1] <= s[1] BY <1>0
  <2>2. CASE m = 0 BY <1>0, <2>1, <2>2
  <2>3. CASE m # 0
    <3> DEFINE p == (m + 1) \div 2
    <3>1. p \in 1 .. n /\ p <= m /\ (m + 1 = 2 * p \/ m + 1 = 2 * p + 1)
      <4>1. m + 1 \in Nat BY <2>1
      <4>2. p \in Nat /\ (m + 1 = 2 * p \/ m + 1 = 2 * p + 1) BY <4>1, HalvesOf
      <4> HIDE DEF p
      <4>. QED BY <2>1, <2>3, <4>2
    <3> HIDE DEF p
    <3>2. s[m + 1] <= s[p] BY <2>1, <3>1 DEF HeapFrom, Under
    <3>3. s[p] <= s[1] BY <3>1
    <3>4. s[m + 1] \in Int /\ s[p] \in Int /\ s[1] \in Int BY <1>0, <2>1, <3>1
    <3>. QED BY <3>2, <3>3, <3>4
  <2>. QED BY <2>2, <2>3
<1>3. T \subseteq Nat OBVIOUS
<1> HIDE DEF T
<1>4. T = Nat BY <1>1, <1>2, <1>3, SetInduction
<1>. QED BY <1>4 DEF T

-----------------------------------------------------------------------------
(* Heapsort: the hole that the largest element left moves down to a leaf, and
   up again to the place of the displaced one (Select).                    *)

\* t is s but for the element i, which is k
StoreAt(t, s, i, k, n) ==
  /\ t \in Arrays(n) /\ t[i] = k
  /\ \A j \in 1 .. n : j # i => t[j] = s[j]

LEMMA StoreAtArray ==
  ASSUME NEW n \in Nat, NEW s \in Arrays(n), NEW i \in 1 .. n, NEW k \in Int
  PROVE  StoreAt([s EXCEPT ![i] = k], s, i, k, n)
BY DEF StoreAt, Arrays

\* a hole that moves from i to j, with the element of j moved to i, is filled as it would have
\* been, but for an exchange
LEMMA HoleMoves ==
  ASSUME NEW n \in Nat, NEW s \in Arrays(n), NEW i \in 1 .. n, NEW j \in 1 .. n, i # j,
         NEW k \in Int
  PROVE  [[s EXCEPT ![i] = s[j]] EXCEPT ![j] = k] = Exchange([s EXCEPT ![i] = k], i, j)
BY DEF Exchange, Arrays

\* what holds all through SELECT of the first n of N elements, none larger than M: they stay a
\* heap, and the others stay
Selecting(t, s, n, N, M) ==
  /\ t \in Arrays(N) /\ HeapFrom(t, 1, n)
  /\ \A j \in 1 .. n : t[j] <= M
  /\ \A j \in n + 1 .. N : t[j] = s[j]

\* a heap stays one when an element is replaced by one that the node above is not smaller than
\* and the nodes below are not larger than
LEMMA Replaceable ==
  ASSUME NEW N \in Nat, NEW n \in 1 .. N, NEW s, NEW M \in Int, NEW t \in Arrays(N),
         NEW i \in 1 .. n, NEW k \in Int, k <= M, Selecting(t, s, n, N, M),
         Under(t, i, n, k), i > 1 => k <= t[i \div 2]
  PROVE  Selecting([t EXCEPT ![i] = k], s, n, N, M)
<1> DEFINE u == [t EXCEPT ![i] = k]
<1>1. u \in Arrays(N) /\ u[i] = k /\ \A j \in 1 .. N : j # i => u[j] = t[j]
  <2>1. i \in 1 .. N OBVIOUS
  <2>. QED BY <2>1, StoreAtArray DEF StoreAt
<1> HIDE DEF u
<1>2. \A j \in 1 .. N : t[j] \in Int BY DEF Arrays
<1>3. HeapFrom(u, 1, n)
  <2>1. ASSUME NEW j \in 1 .. n, NEW c \in {2 * j, 2 * j + 1}, c <= n PROVE u[c] <= u[j]
    <3>0. c \in 1 .. n /\ c # j /\ t[c] <= t[j]
      <4>1. Under(t, j, n, t[j]) BY DEF Selecting, HeapFrom
      <4>. QED BY <2>1, <4>1 DEF Under
    <3>1. CASE j = i BY <1>1, <2>1, <3>0, <3>1 DEF Under
    <3>2. CASE c = i
      <4>1. i > 1 /\ i \div 2 = j BY <2>1, <3>2
      <4>. QED BY <1>1, <3>0, <3>2, <4>1
    <3>3. CASE c # i /\ j # i BY <1>1, <3>0, <3>3
    <3>. QED BY <3>1, <3>2, <3>3
  <2>. QED BY <2>1 DEF HeapFrom, Under
<1>4. \A j \in 1 .. n : u[j] <= M BY <1>1 DEF Selecting
<1>5. \A j \in n + 1 .. N : u[j] = s[j] BY <1>1 DEF Selecting
<1>. QED BY <1>1, <1>3, <1>4, <1>5 DEF Selecting, u

\* the hole at q.i, filled with k, gives the elements of s with k for the first one
FilledRight(q, s, k, N) == Rearranges([q.s EXCEPT ![q.i] = k], [s EXCEPT ![1] = k], N)

Descending(s, n, N, M, k) ==
  {q \in Cursors : q.i \in 1 .. n /\ Selecting(q.s, s, n, N, M) /\ FilledRight(q, s, k, N)}

LEMMA FilledRightMoves ==
  ASSUME NEW N \in Nat, NEW s, NEW k \in Int, NEW q \in Cursors, q.s \in Arrays(N),
         q.i \in 1 .. N, FilledRight(q, s, k, N), NEW j \in 1 .. N, j # q.i
  PROVE  FilledRight([s |-> [q.s EXCEPT ![q.i] = q.s[j]], i |-> j], s, k, N)
<1> DEFINE u == [q.s EXCEPT ![q.i] = k]
           w == [[q.s EXCEPT ![q.i] = q.s[j]] EXCEPT ![j] = k]
<1>1. u \in Arrays(N) BY StoreAtArray DEF StoreAt
<1>2. w = Exchange(u, q.i, j) BY HoleMoves
<1>3. Rearranges(u, [s EXCEPT ![1] = k], N) BY DEF FilledRight
<1> HIDE DEF u
<1>4. Rearranges(w, u, N) BY <1>1, <1>2, SwapRearranges
<1>5. Rearranges(w, [s EXCEPT ![1] = k], N) BY <1>3, <1>4, RearrangesAgain
<1>. QED BY <1>5 DEF FilledRight

LEMMA DescendStep ==
  ASSUME NEW N \in Nat, NEW n \in 1 .. N, NEW s, NEW M \in Int, NEW k \in Int,
         NEW q \in Descending(s, n, N, M, k)
  PROVE  /\ Descend(n)[q] \in Descending(s, n, N, M, k)
         /\ 2 * q.i > n => Descend(n)[q] = q
         /\ 2 * q.i <= n => q.i < Descend(n)[q].i
<1>0. q \in Cursors /\ q.i \in 1 .. n /\ Selecting(q.s, s, n, N, M) /\ FilledRight(q, s, k, N)
  BY DEF Descending
<1> DEFINE c == LargerChild(q.s, q.i, n)
           t == [q.s EXCEPT ![q.i] = q.s[c]]
           r == Descend(n)[q]
<1>1. r = IF 2 * q.i > n THEN q ELSE [s |-> t, i |-> c] BY <1>0 DEF Descend
<1>n. q.i \in Int /\ n \in Int BY <1>0
<1>2. CASE 2 * q.i > n
  <2>1. r = q /\ ~(2 * q.i <= n) BY <1>1, <1>2, <1>n
  <2>. QED BY <1>2, <2>1
<1>3. CASE 2 * q.i <= n
  <2>1. q.s \in Arrays(N) /\ q.i \in 1 .. N /\ q.i \in 1 .. n /\ n \in 0 .. N
    BY <1>0 DEF Selecting
  <2>2. c \in 1 .. n /\ (c = 2 * q.i \/ c = 2 * q.i + 1) /\ q.i < c /\ Under(q.s, q.i, n, q.s[c])
    BY <1>3, <2>1, LargerChildIs
  <2>3. r = [s |-> t, i |-> c] BY <1>1, <1>3, <2>1
  <2> HIDE DEF c, r
  <2>4. \A j \in 1 .. N : q.s[j] \in Int BY <2>1 DEF Arrays
  <2>5. q.s[c] \in Int /\ q.s[c] <= M /\ c \in 1 .. N
    BY <1>0, <2>2, <2>4 DEF Selecting
  <2>6. q.i > 1 => q.s[c] <= q.s[q.i \div 2]
    <3>1. SUFFICES ASSUME q.i > 1 PROVE q.s[c] <= q.s[q.i \div 2] OBVIOUS
    <3> DEFINE p == q.i \div 2
    <3>2. p \in 1 .. n /\ (q.i = 2 * p \/ q.i = 2 * p + 1)
      <4>1. q.i \in Nat BY <2>1
      <4>2. p \in Nat /\ (q.i = 2 * p \/ q.i = 2 * p + 1) BY <4>1, HalvesOf
      <4> HIDE DEF p
      <4>. QED BY <2>1, <3>1, <4>2
    <3> HIDE DEF p
    <3>3. \A j \in 1 .. n : Under(q.s, j, n, q.s[j]) BY <1>0 DEF Selecting, HeapFrom
    <3>4. q.s[c] <= q.s[q.i] BY <2>1, <2>2, <3>3 DEF Under
    <3>5. q.s[q.i] <= q.s[p] BY <2>1, <3>2, <3>3 DEF Under
    <3>6. p \in 1 .. N BY <3>2
    <3>7. q.s[c] \in Int /\ q.s[q.i] \in Int /\ q.s[p] \in Int BY <2>1, <2>4, <2>5, <3>6
    <3>8. q.s[c] <= q.s[p] BY <3>4, <3>5, <3>7
    <3>. QED BY <3>8 DEF p
  <2>7. Selecting(t, s, n, N, M) BY <1>0, <2>1, <2>2, <2>5, <2>6, Replaceable
  <2>8. FilledRight(r, s, k, N)
    <3>1. c # q.i BY <2>1, <2>2
    <3>. QED BY <1>0, <2>1, <2>3, <2>5, <3>1, FilledRightMoves
  <2>9. r \in Cursors /\ r.s = t /\ r.i = c
    <3>1. t \in Seq(Int) BY <2>7, ArraysAreSeqs DEF Selecting
    <3> HIDE DEF t
    <3>. QED BY <2>2, <2>3, <3>1 DEF Cursors
  <2> HIDE DEF t
  <2>10. r \in Descending(s, n, N, M, k) BY <2>2, <2>7, <2>8, <2>9 DEF Descending
  <2>11. ~(2 * q.i > n) BY <1>3, <1>n
  <2>. QED BY <1>3, <2>2, <2>9, <2>10, <2>11 DEF r
<1>4. 2 * q.i > n \/ 2 * q.i <= n BY <1>n
<1>. QED BY <1>2, <1>3, <1>4

LEMMA DescendOK ==
  ASSUME NEW N \in Nat, NEW n \in 1 .. N, NEW s, NEW M \in Int, NEW k \in Int,
         NEW x \in Descending(s, n, N, M, k)
  PROVE  /\ Iterate(Descend(n), x, n) \in Descending(s, n, N, M, k)
         /\ 2 * Iterate(Descend(n), x, n).i > n
<1> DEFINE P == Descending(s, n, N, M, k)
           f == Descend(n)
           V == [q \in P |-> n - q.i]
           last == Iterate(f, x, n)
<1>0. \A q \in P : q.i \in 1 .. n BY DEF Descending
<1>1. x \in P /\ V[x] <= n /\ n \in Nat BY <1>0
<1>2. \A q \in P : f[q] \in P /\ (2 * q.i > n => f[q] = q) /\ (2 * q.i <= n => q.i < f[q].i)
  BY DescendStep
<1>3. EndsBy(f, P, V)
  <2>1. V \in [P -> Nat] BY <1>0
  <2>2. ASSUME NEW q \in P PROVE f[q] \in P /\ (f[q] = q \/ V[f[q]] < V[q])
    <3> HIDE DEF f, P
    <3>1. f[q] \in P BY <1>2
    <3>2. V[q] = n - q.i /\ V[f[q]] = n - f[q].i /\ q.i \in 1 .. n /\ f[q].i \in 1 .. n
      BY <1>0, <3>1
    <3>. QED BY <1>2, <3>1, <3>2
  <2> HIDE DEF f, P, V
  <2>. QED BY <2>1, <2>2 DEF EndsBy
<1>4. last \in P /\ f[last] = last
  <2> HIDE DEF f, P, V
  <2>. QED BY <1>1, <1>3, IterateEnds
<1>5. 2 * last.i > n
  <2> HIDE DEF f, P, last
  <2>1. last.i \in 1 .. n BY <1>0, <1>4
  <2>. QED BY <1>2, <1>4, <2>1
<1>. QED BY <1>4, <1>5

\* while the hole goes up again: k is not smaller than what is below the hole
Ascending(s, n, N, M, k) ==
  {q \in Cursors :
     /\ q.i \in 0 .. n /\ Selecting(q.s, s, n, N, M)
     /\ q.i = 0 => Rearranges(q.s, [s EXCEPT ![1] = k], N)
     /\ q.i # 0 => FilledRight(q, s, k, N) /\ Under(q.s, q.i, n, k)}

LEMMA AscendStep ==
  ASSUME NEW N \in Nat, NEW n \in 1 .. N, NEW s, NEW M \in Int, NEW k \in Int, k <= M,
         NEW q \in Ascending(s, n, N, M, k)
  PROVE  /\ Ascend(k)[q] \in Ascending(s, n, N, M, k)
         /\ q.i = 0 => Ascend(k)[q] = q
         /\ q.i # 0 => Ascend(k)[q].i < q.i
<1>0. /\ q \in Cursors /\ q.i \in 0 .. n /\ Selecting(q.s, s, n, N, M)
      /\ q.i = 0 => Rearranges(q.s, [s EXCEPT ![1] = k], N)
      /\ q.i # 0 => FilledRight(q, s, k, N) /\ Under(q.s, q.i, n, k)
  BY DEF Ascending
<1> DEFINE par == q.i \div 2
           r == Ascend(k)[q]
<1>1. r = IF q.i = 0 THEN q
          ELSE IF q.i = 1 \/ k < q.s[par] THEN [s |-> [q.s EXCEPT ![q.i] = k], i |-> 0]
          ELSE [s |-> [q.s EXCEPT ![q.i] = q.s[par]], i |-> par]
  BY <1>0 DEF Ascend
<1>2. q.i \in Nat /\ q.s \in Arrays(N) /\ \A j \in 1 .. N : q.s[j] \in Int
  BY <1>0 DEF Selecting, Arrays
<1>3. CASE q.i = 0 BY <1>1, <1>3
<1>4. CASE q.i # 0 /\ (q.i = 1 \/ k < q.s[par])
  <2> DEFINE t == [q.s EXCEPT ![q.i] = k]
  <2>1. r = [s |-> t, i |-> 0] BY <1>1, <1>4
  <2>2. q.i \in 1 .. n /\ q.i \in 1 .. N BY <1>0, <1>2, <1>4
  <2>3. q.i > 1 => k <= q.s[par]
    <3>1. SUFFICES ASSUME q.i > 1 PROVE k <= q.s[par] OBVIOUS
    <3>2. par \in 1 .. N
      <4>1. par \in Nat /\ (q.i = 2 * par \/ q.i = 2 * par + 1) BY <1>2, HalvesOf
      <4> HIDE DEF par
      <4>. QED BY <2>2, <3>1, <4>1
    <3>3. k < q.s[par] BY <1>4, <3>1
    <3> HIDE DEF par
    <3>. QED BY <1>2, <3>2, <3>3
  <2>4. Selecting(t, s, n, N, M) BY <1>0, <1>2, <1>4, <2>2, <2>3, Replaceable
  <2>5. Rearranges(t, [s EXCEPT ![1] = k], N) BY <1>0, <1>4 DEF FilledRight
  <2>6. t \in Seq(Int) BY <2>4, ArraysAreSeqs DEF Selecting
  <2> HIDE DEF t, r
  <2>7. r \in Cursors /\ r.s = t /\ r.i = 0 BY <2>1, <2>6 DEF Cursors
  <2>8. 0 \in 0 .. n /\ 0 < q.i BY <2>2
  <2>9. r \in Ascending(s, n, N, M, k) BY <2>4, <2>5, <2>7, <2>8 DEF Ascending
  <2>. QED BY <1>4, <2>7, <2>8, <2>9 DEF r
<1>5. CASE q.i # 0 /\ ~(q.i = 1 \/ k < q.s[par])
  <2> DEFINE t == [q.s EXCEPT ![q.i] = q.s[par]]
  <2>1. r = [s |-> t, i |-> par] BY <1>1, <1>5
  <2>2. q.i \in 1 .. n /\ q.i \in 1 .. N BY <1>0, <1>2, <1>5
  <2>3. par \in 1 .. n /\ par < q.i /\ (q.i = 2 * par \/ q.i = 2 * par + 1) /\ par \in 1 .. N
    <3>1. par \in Nat /\ (q.i = 2 * par \/ q.i = 2 * par + 1) BY <1>2, HalvesOf
    <3>2. q.i # 1 BY <1>5
    <3> HIDE DEF par
    <3>. QED BY <2>2, <3>1, <3>2
  <2>a. ~(k < q.s[par]) BY <1>5
  <2>4. q.s[par] \in Int /\ q.s[par] <= k /\ q.s[par] <= M /\ q.s[q.i] \in Int
    <3> HIDE DEF par
    <3>. QED BY <1>2, <2>a, <2>2, <2>3
  <2>5. \A j \in 1 .. n : Under(q.s, j, n, q.s[j]) BY <1>0 DEF Selecting, HeapFrom
  <2>6. q.s[q.i] <= q.s[par]
    <3> HIDE DEF par
    <3>. QED BY <2>2, <2>3, <2>5 DEF Under
  <2>7. Under(q.s, q.i, n, q.s[par])
    <3> HIDE DEF par
    <3>1. \A c \in {2 * q.i, 2 * q.i + 1} : c <= n => c \in 1 .. N /\ q.s[c] \in Int
      BY <1>2, <2>2
    <3>2. Under(q.s, q.i, n, q.s[q.i]) BY <2>2, <2>5
    <3>. QED BY <2>4, <2>6, <3>1, <3>2 DEF Under
  <2>8. Selecting(t, s, n, N, M)
    <3>1. q.i > 1 => q.s[par] <= q.s[q.i \div 2]
      <4>1. q.s[par] <= q.s[par] BY <2>4
      <4>. QED BY <4>1
    <3> DEFINE v == q.s[par]
    <3>2. v \in Int /\ v <= M /\ Under(q.s, q.i, n, v) /\ (q.i > 1 => v <= q.s[q.i \div 2])
      BY <2>4, <2>7, <3>1
    <3> HIDE DEF v
    <3>3. Selecting([q.s EXCEPT ![q.i] = v], s, n, N, M)
      BY <1>0, <1>2, <2>2, <3>2, Replaceable
    <3>. QED BY <3>3 DEF v
  <2>9. FilledRight(r, s, k, N)
    <3>1. par # q.i BY <2>2, <2>3
    <3>2. FilledRight(q, s, k, N) BY <1>0, <1>5
    <3> HIDE DEF par, r
    <3>. QED BY <1>0, <1>2, <2>1, <2>2, <2>3, <3>1, <3>2, FilledRightMoves
  <2>10. Under(t, par, n, k)
    <3> HIDE DEF par
    <3>1. t[q.i] = q.s[par] /\ \A j \in 1 .. N : j # q.i => t[j] = q.s[j]
      <4> DEFINE v == q.s[par]
      <4>1. v \in Int BY <2>4
      <4> HIDE DEF v
      <4>2. StoreAt([q.s EXCEPT ![q.i] = v], q.s, q.i, v, N) BY <1>2, <2>2, <4>1, StoreAtArray
      <4>. QED BY <4>2 DEF StoreAt, v
    <3> HIDE DEF t
    <3>2. Under(q.s, par, n, q.s[par]) BY <2>3, <2>5
    <3>3. ASSUME NEW c \in {2 * par, 2 * par + 1}, c <= n PROVE t[c] <= k
      <4>1. c \in 1 .. N /\ q.s[c] \in Int BY <1>2, <2>3, <3>3
      <4>2. q.s[c] <= q.s[par] BY <3>2, <3>3 DEF Under
      <4>3. t[c] = q.s[c] \/ t[c] = q.s[par] BY <3>1, <4>1
      <4>. QED BY <2>4, <4>1, <4>2, <4>3
    <3>. QED BY <3>3 DEF Under
  <2>11. t \in Seq(Int) BY <2>8, ArraysAreSeqs DEF Selecting
  <2> HIDE DEF t, r, par
  <2>12. r \in Cursors /\ r.s = t /\ r.i = par /\ par # 0 /\ par \in 0 .. n
    BY <2>1, <2>3, <2>11 DEF Cursors
  <2>13. r \in Ascending(s, n, N, M, k) BY <2>8, <2>9, <2>10, <2>12 DEF Ascending
  <2>. QED BY <1>5, <2>3, <2>12, <2>13 DEF r
<1>. QED BY <1>3, <1>4, <1>5

LEMMA AscendOK ==
  ASSUME NEW N \in Nat, NEW n \in 1 .. N, NEW s, NEW M \in Int, NEW k \in Int, k <= M,
         NEW x \in Ascending(s, n, N, M, k)
  PROVE  /\ Selecting(Iterate(Ascend(k), x, n).s, s, n, N, M)
         /\ Rearranges(Iterate(Ascend(k), x, n).s, [s EXCEPT ![1] = k], N)
<1> DEFINE P == Ascending(s, n, N, M, k)
           f == Ascend(k)
           V == [q \in P |-> q.i]
           last == Iterate(f, x, n)
<1>0. \A q \in P : q.i \in 0 .. n BY DEF Ascending
<1>1. x \in P /\ V[x] <= n /\ n \in Nat BY <1>0
<1>2. \A q \in P : f[q] \in P /\ (q.i = 0 => f[q] = q) /\ (q.i # 0 => f[q].i < q.i)
  BY AscendStep
<1>3. EndsBy(f, P, V)
  <2>1. V \in [P -> Nat] BY <1>0
  <2>2. ASSUME NEW q \in P PROVE f[q] \in P /\ (f[q] = q \/ V[f[q]] < V[q])
    <3> HIDE DEF f, P
    <3>1. f[q] \in P BY <1>2
    <3>2. V[q] = q.i /\ V[f[q]] = f[q].i BY <3>1
    <3>. QED BY <1>2, <3>1, <3>2
  <2> HIDE DEF f, P, V
  <2>. QED BY <2>1, <2>2 DEF EndsBy
<1>4. last \in P /\ f[last] = last
  <2> HIDE DEF f, P, V
  <2>. QED BY <1>1, <1>3, IterateEnds
<1>5. last.i = 0
  <2> HIDE DEF f, P, last
  <2>1. last.i \in 0 .. n BY <1>0, <1>4
  <2>. QED BY <1>2, <1>4, <2>1
<1>. QED BY <1>4, <1>5 DEF Ascending

\* SELECT: the first of the n elements of a heap gives way to k.
LEMMA SelectOK ==
  ASSUME NEW N \in Nat, NEW n \in 1 .. N, NEW s \in Arrays(N), NEW M \in Int,
         NEW k \in Int, k <= M, Selecting(s, s, n, N, M)
  PROVE  /\ Selecting(Select(s, n, k), s, n, N, M)
         /\ Rearranges(Select(s, n, k), [s EXCEPT ![1] = k], N)
<1> DEFINE x == [s |-> s, i |-> 1]
           y == Iterate(Descend(n), x, n)
<1>1. x \in Descending(s, n, N, M, k)
  <2>1. x \in Cursors /\ x.s = s /\ x.i = 1 /\ 1 \in 1 .. n /\ 1 \in 1 .. N
    BY ArraysAreSeqs DEF Cursors
  <2> HIDE DEF x
  <2>2. [s EXCEPT ![1] = k] \in Arrays(N) BY <2>1, StoreAtArray DEF StoreAt
  <2>3. FilledRight(x, s, k, N) BY <2>1, <2>2, RearrangesSelf DEF FilledRight
  <2>. QED BY <2>1, <2>3 DEF Descending
<1> HIDE DEF x
<1>2. y \in Descending(s, n, N, M, k) /\ 2 * y.i > n BY <1>1, DescendOK
<1> HIDE DEF y
<1>3. y \in Ascending(s, n, N, M, k)
  <2>1. /\ y \in Cursors /\ y.i \in 1 .. n /\ Selecting(y.s, s, n, N, M)
        /\ FilledRight(y, s, k, N)
    BY <1>2 DEF Descending
  <2>2. Under(y.s, y.i, n, k) BY <1>2, <2>1 DEF Under
  <2>3. y.i # 0 /\ y.i \in 0 .. n BY <2>1
  <2>. QED BY <2>1, <2>2, <2>3 DEF Ascending
<1>4. Select(s, n, k) = Iterate(Ascend(k), y, n).s BY DEF Select, x, y
<1>. QED BY <1>3, <1>4, AscendOK

-----------------------------------------------------------------------------
(* Heapsort: the largest of what is left goes before what is in order already. *)

\* the elements behind i are in their places
Behind(s, i, n) == \A a \in 1 .. n, b \in i + 1 .. n : a <= b => s[a] <= s[b]

Extracting(s, n) ==
  {q \in Cursors : /\ Rearranges(q.s, s, n) /\ q.i \in 1 .. n
                   /\ HeapFrom(q.s, 1, q.i) /\ Behind(q.s, q.i, n)}

LEMMA ExtractStep ==
  ASSUME NEW N \in Nat, NEW s, NEW q \in Extracting(s, N)
  PROVE  /\ Extract[q] \in Extracting(s, N)
         /\ q.i = 1 => Extract[q] = q
         /\ q.i # 1 => Extract[q].i < q.i
<1>0. /\ q \in Cursors /\ Rearranges(q.s, s, N) /\ q.i \in 1 .. N
      /\ HeapFrom(q.s, 1, q.i) /\ Behind(q.s, q.i, N)
  BY DEF Extracting
<1> DEFINE k == q.s[q.i]
           M == q.s[1]
           u == [q.s EXCEPT ![q.i] = M]
           t == Select(u, q.i - 1, k)
           r == Extract[q]
<1>1. r = IF q.i <= 1 THEN q ELSE [s |-> t, i |-> q.i - 1] BY <1>0 DEF Extract
<1>2. CASE q.i = 1
  <2>1. q.i <= 1 BY <1>2
  <2>. QED BY <1>0, <1>1, <1>2, <2>1
<1>3. CASE q.i # 1
  <2>1. /\ ~(q.i <= 1) /\ q.i \in 1 .. N /\ q.i - 1 \in 1 .. N /\ (q.i - 1) + 1 = q.i
        /\ 1 \in 1 .. N /\ q.i \in 0 .. N /\ q.i \in Int
    BY <1>0, <1>3
  <2>2. q.s \in Arrays(N) /\ \A j \in 1 .. N : q.s[j] \in Int
    BY <1>0 DEF Rearranges, Arrays
  <2>3. \A j \in 1 .. q.i : q.s[j] <= M BY <1>0, <2>1, <2>2, HeapTop
  <2>4. k \in Int /\ M \in Int /\ k <= M BY <2>1, <2>2, <2>3
  <2>5. u \in Arrays(N) /\ u[q.i] = M /\ \A j \in 1 .. N : j # q.i => u[j] = q.s[j]
    <3> HIDE DEF M
    <3>. QED BY <2>1, <2>2, <2>4, StoreAtArray DEF StoreAt
  <2>6. r = [s |-> t, i |-> q.i - 1] BY <1>1, <2>1
  <2>7. [u EXCEPT ![1] = k] = Exchange(q.s, 1, q.i) BY <1>3, <2>1, <2>2 DEF Exchange, Arrays
  <2> HIDE DEF u, k, M, r
  <2>8. Selecting(u, u, q.i - 1, N, M)
    <3>1. HeapFrom(u, 1, q.i - 1)
      <4>1. ASSUME NEW j \in 1 .. q.i - 1, NEW c \in {2 * j, 2 * j + 1}, c <= q.i - 1
            PROVE  u[c] <= u[j]
        <5>1. c \in 1 .. N /\ j \in 1 .. N /\ c # q.i /\ j # q.i /\ j \in 1 .. q.i /\ c <= q.i
          BY <2>1, <4>1
        <5>2. Under(q.s, j, q.i, q.s[j]) BY <1>0, <5>1 DEF HeapFrom
        <5>3. q.s[c] <= q.s[j] BY <4>1, <5>1, <5>2 DEF Under
        <5>. QED BY <2>5, <5>1, <5>3
      <4>. QED BY <4>1 DEF HeapFrom, Under
    <3>2. \A j \in 1 .. q.i - 1 : u[j] <= M
      <4>1. \A j \in 1 .. q.i - 1 : j \in 1 .. N /\ j # q.i /\ j \in 1 .. q.i BY <2>1
      <4>. QED BY <2>3, <2>5, <4>1
    <3>. QED BY <2>5, <3>1, <3>2 DEF Selecting
  <2>9. Selecting(t, u, q.i - 1, N, M) /\ Rearranges(t, [u EXCEPT ![1] = k], N)
    BY <2>1, <2>4, <2>5, <2>8, SelectOK
  <2> HIDE DEF t
  <2>10. Rearranges(t, s, N)
    <3>1. Rearranges(Exchange(q.s, 1, q.i), q.s, N) BY <2>1, <2>2, SwapRearranges
    <3>. QED BY <1>0, <2>7, <2>9, <3>1, RearrangesAgain
  <2>11. Behind(t, q.i - 1, N)
    <3>1. \A j \in 1 .. q.i - 1 : t[j] <= M BY <2>9 DEF Selecting
    <3>2. \A j \in q.i .. N : t[j] = u[j] BY <2>1, <2>9 DEF Selecting
    <3>3. t[q.i] = M BY <2>1, <2>5, <3>2
    <3>4. \A j \in q.i + 1 .. N : t[j] = q.s[j]
      <4>1. \A j \in q.i + 1 .. N : j \in q.i .. N /\ j \in 1 .. N /\ j # q.i BY <2>1
      <4>. QED BY <2>5, <3>2, <4>1
    <3>5. \A a \in 1 .. N, b \in q.i + 1 .. N : a <= b => q.s[a] <= q.s[b]
      BY <1>0 DEF Behind
    <3>6. \A j \in 1 .. N : t[j] \in Int BY <2>9 DEF Selecting, Arrays
    <3>7. ASSUME NEW a \in 1 .. N, NEW b \in q.i .. N, a <= b PROVE t[a] <= t[b]
      <4>0. b \in 1 .. N BY <2>1
      <4>1. CASE b = q.i
        <5>1. CASE a = q.i BY <3>6, <4>1, <5>1
        <5>2. CASE a # q.i
          <6>1. a \in 1 .. q.i - 1 BY <2>1, <3>7, <4>1, <5>2
          <6>. QED BY <3>1, <3>3, <4>1, <6>1
        <5>. QED BY <5>1, <5>2
      <4>2. CASE b # q.i
        <5>0. b \in q.i + 1 .. N BY <2>1, <4>2
        <5>1. t[b] = q.s[b] /\ M <= q.s[b]
          <6>1. 1 <= b BY <4>0
          <6>. QED BY <2>1, <3>4, <3>5, <5>0, <6>1 DEF M
        <5>2. CASE a \in q.i + 1 .. N BY <3>4, <3>5, <3>7, <5>0, <5>2
        <5>3. CASE a = q.i BY <3>3, <5>1, <5>3
        <5>4. CASE a \in 1 .. q.i - 1
          <6>1. t[a] <= M /\ t[a] \in Int /\ q.s[b] \in Int BY <2>2, <3>1, <3>6, <4>0, <5>4
          <6>. QED BY <2>4, <5>1, <6>1
        <5>5. a \in q.i + 1 .. N \/ a = q.i \/ a \in 1 .. q.i - 1 BY <2>1
        <5>. QED BY <5>2, <5>3, <5>4, <5>5
      <4>. QED BY <4>1, <4>2
    <3>. QED BY <2>1, <3>7 DEF Behind
  <2>12. r \in Cursors /\ r.s = t /\ r.i = q.i - 1
    <3>1. t \in Seq(Int) BY <2>9, ArraysAreSeqs DEF Selecting
    <3>2. q.i - 1 \in Nat BY <2>1
    <3>. QED BY <2>6, <3>1, <3>2 DEF Cursors
  <2>13. HeapFrom(t, 1, q.i - 1) BY <2>9 DEF Selecting
  <2>14. r \in Extracting(s, N) BY <2>1, <2>10, <2>11, <2>12, <2>13 DEF Extracting
  <2>15. q.i - 1 < q.i BY <2>1
  <2>. QED BY <1>3, <2>12, <2>14, <2>15 DEF r
<1>. QED BY <1>2, <1>3

\* heapsort loses no element, and sorts when malloc has given it room (heapsort.c).
THEOREM HeapSortSorts ==
  ASSUME NEW s \in Seq(Int), NEW memory \in BOOLEAN
  PROVE  /\ Rearranges(HeapSort(s, memory), s, Len(s))
         /\ memory => Sorted(HeapSort(s, memory))
<1> DEFINE n == Len(s)
           heap == Iterate(Build(n), [s |-> s, i |-> n \div 2], n).s
           P == Extracting(s, n)
           f == Extract
           x == [s |-> heap, i |-> n]
           V == [q \in P |-> q.i]
           last == Iterate(f, x, n)
<1>1. n \in Nat /\ s \in Arrays(n) /\ Rearranges(s, s, n) BY ArraysAreSeqs, RearrangesSelf
<1>2. HeapSort(s, memory) = IF n <= 1 \/ ~memory THEN s ELSE last.s BY DEF HeapSort
<1>3. CASE n <= 1 \/ ~memory
  <2>1. n <= 1 => Sorted(s) BY <1>1 DEF Sorted, Arrays
  <2>. QED BY <1>1, <1>2, <1>3, <2>1
<1>4. CASE n > 1 /\ memory
  <2>1. x \in P /\ V[x] <= n
    <3>1. Rearranges(heap, s, n) /\ HeapFrom(heap, 1, n) BY <1>1, BuildOK
    <3> HIDE DEF heap, n
    <3>2. heap \in Seq(Int) BY <1>1, <3>1, ArraysAreSeqs DEF Rearranges
    <3>3. Behind(heap, n, n) BY <1>1 DEF Behind
    <3>4. x \in Cursors /\ n \in 1 .. n BY <1>1, <1>4, <3>2 DEF Cursors
    <3>5. x \in P BY <3>1, <3>3, <3>4 DEF Extracting
    <3>. QED BY <1>1, <3>5
  <2>2. EndsBy(f, P, V)
    <3>1. \A q \in P : q.i \in 1 .. n BY DEF Extracting
    <3>2. V \in [P -> Nat] BY <1>1, <3>1
    <3>3. \A q \in P : f[q] \in P /\ (f[q] = q \/ f[q].i < q.i) BY <1>1, ExtractStep
    <3>4. ASSUME NEW q \in P PROVE f[q] \in P /\ (f[q] = q \/ V[f[q]] < V[q])
      <4> HIDE DEF f, P
      <4>1. V[q] = q.i /\ V[f[q]] = f[q].i BY <3>3
      <4>. QED BY <3>3, <4>1
    <3> HIDE DEF f, P, V
    <3>. QED BY <3>2, <3>4 DEF EndsBy
  <2>3. last \in P /\ f[last] = last
    <3> HIDE DEF f, P, V, x, n
    <3>. QED BY <1>1, <2>1, <2>2, IterateEnds
  <2> HIDE DEF last
  <2>4. last.i = 1
    <3>1. last.i \in 1 .. n /\ (last.i # 1 => f[last].i < last.i)
      BY <1>1, <2>3, ExtractStep DEF Extracting
    <3>. QED BY <1>1, <2>3, <3>1
  <2>5. Rearranges(last.s, s, n) /\ Behind(last.s, 1, n) BY <2>3, <2>4 DEF Extracting
  <2>6. Sorted(last.s)
    <3>1. Len(last.s) = n /\ \A j \in 1 .. n : last.s[j] \in Int
      BY <1>1, <2>5, ArraysAreSeqs DEF Rearranges, Arrays
    <3>2. ASSUME NEW a \in 1 .. n, NEW b \in 1 .. n, a <= b PROVE last.s[a] <= last.s[b]
      <4>1. CASE b = 1 BY <3>1, <3>2, <4>1
      <4>2. CASE b # 1
        <5>1. b \in 1 + 1 .. n BY <4>2
        <5>. QED BY <2>5, <3>2, <5>1 DEF Behind
      <4>. QED BY <4>1, <4>2
    <3>. QED BY <3>1, <3>2 DEF Sorted
  <2>. QED BY <1>2, <1>4, <2>5, <2>6
<1>. QED BY <1>1, <1>3, <1>4

-----------------------------------------------------------------------------
(* Insertion sort: an element moves to its place among those before it.  Bands
   of elements that are below, equal to and above the pivot stay so.       *)

\* below v up to l, then v up to h, then above v
Banded(s, l, h, n, v) ==
  \A j \in 1 .. n : /\ j <= l => s[j] < v
                    /\ l < j /\ j <= h => s[j] = v
                    /\ h < j => v < s[j]

\* however s is banded, t is
KeepsBands(t, s, n) ==
  \A l, h \in 0 .. n, v \in Int : Banded(s, l, h, n, v) => Banded(t, l, h, n, v)

LEMMA SwapKeepsBands ==
  ASSUME NEW n \in Nat, NEW s \in Arrays(n), NEW i \in 1 .. n, i # 1, s[i] < s[i - 1]
  PROVE  KeepsBands(Exchange(s, i, i - 1), s, n)
<1> DEFINE t == Exchange(s, i, i - 1)
<1>1. i - 1 \in 1 .. n OBVIOUS
<1>2. Exchanged(t, s, i, i - 1, n) BY <1>1, SwapArray
<1>3. \A k \in 1 .. n : s[k] \in Int BY DEF Arrays
<1> HIDE DEF t
<1>4. ASSUME NEW l \in 0 .. n, NEW h \in 0 .. n, NEW v \in Int, Banded(s, l, h, n, v),
             NEW j \in 1 .. n
      PROVE  /\ j <= l => t[j] < v
             /\ l < j /\ j <= h => t[j] = v
             /\ h < j => v < t[j]
  <2>0. \A k \in 1 .. n : /\ k <= l => s[k] < v
                          /\ l < k /\ k <= h => s[k] = v
                          /\ h < k => v < s[k]
    BY <1>4 DEF Banded
  <2>1. s[i] \in Int /\ s[i - 1] \in Int BY <1>1, <1>3
  <2>2. (i <= l <=> i - 1 <= l) /\ (h < i <=> h < i - 1)
    BY <1>1, <2>0, <2>1
  <2>3. CASE j = i BY <1>1, <1>2, <2>0, <2>2, <2>3 DEF Exchanged
  <2>4. CASE j = i - 1 BY <1>1, <1>2, <2>0, <2>2, <2>4 DEF Exchanged
  <2>5. CASE j # i /\ j # i - 1 BY <1>2, <2>0, <2>5 DEF Exchanged
  <2>. QED BY <2>3, <2>4, <2>5
<1>. QED BY <1>4 DEF KeepsBands, Banded, t

\* the first m elements are in order, but for where the element p belongs
OrderedBut(s, m, p) == \A a, b \in 1 .. m : a <= b /\ b # p => s[a] <= s[b]

\* while the element t0.p moves to its place
MovingLeft(t0, r, n) ==
  {t \in Insertions :
     /\ Rearranges(t.s, t0.s, n) /\ KeepsBands(t.s, t0.s, n)
     /\ t.p \in 1 .. t0.p /\ t.swaps + t.p = t0.swaps + t0.p
     /\ t0.swaps <= r => OrderedBut(t.s, t0.p, t.p)}

\* the loop has stopped
Placed(t, r) == t.p = 1 \/ t.swaps > r \/ t.s[t.p - 1] <= t.s[t.p]

LEMMA SinkStep ==
  ASSUME NEW n \in Nat, NEW r \in Nat, NEW t0 \in Insertions, t0.p \in 1 .. n,
         NEW t \in MovingLeft(t0, r, n)
  PROVE  /\ Sink(r)[t] \in MovingLeft(t0, r, n)
         /\ Placed(t, r) => Sink(r)[t] = t
         /\ ~ Placed(t, r) => Sink(r)[t].p < t.p
<1>0. /\ t \in Insertions /\ Rearranges(t.s, t0.s, n) /\ KeepsBands(t.s, t0.s, n)
      /\ t.p \in 1 .. t0.p /\ t.swaps + t.p = t0.swaps + t0.p
      /\ t0.swaps <= r => OrderedBut(t.s, t0.p, t.p)
  BY DEF MovingLeft
<1> DEFINE w == Exchange(t.s, t.p, t.p - 1)
           u == Sink(r)[t]
<1>1. u = IF Placed(t, r) THEN t ELSE [s |-> w, p |-> t.p - 1, swaps |-> t.swaps + 1]
  BY <1>0 DEF Sink, Placed
<1>2. CASE Placed(t, r) BY <1>0, <1>1, <1>2
<1>3. CASE ~ Placed(t, r)
  <2>1. /\ t.p \in 1 .. n /\ t.p - 1 \in 1 .. n /\ t.p # 1 /\ t.s \in Arrays(n)
        /\ t.swaps \in Nat /\ t0.p \in Nat /\ t0.swaps \in Nat /\ t.p - 1 \in 1 .. t0.p
    <3>1. t.p # 1 BY <1>3 DEF Placed
    <3>2. t.p \in Nat /\ t0.p \in Nat /\ t.swaps \in Nat /\ t0.swaps \in Nat
      BY <1>0 DEF Insertions
    <3>3. t.s \in Arrays(n) BY <1>0 DEF Rearranges
    <3>4. t.p \in 1 .. t0.p BY <1>0
    <3>. QED BY <3>1, <3>2, <3>3, <3>4
  <2>2. \A k \in 1 .. n : t.s[k] \in Int BY <2>1 DEF Arrays
  <2>3. t.s[t.p] < t.s[t.p - 1]
    <3>1. ~(t.s[t.p - 1] <= t.s[t.p]) BY <1>3 DEF Placed
    <3>. QED BY <2>1, <2>2, <3>1
  <2>4. u = [s |-> w, p |-> t.p - 1, swaps |-> t.swaps + 1] BY <1>1, <1>3
  <2>5. Rearranges(w, t0.s, n)
    <3>1. Rearranges(w, t.s, n) BY <2>1, SwapRearranges
    <3>. QED BY <1>0, <3>1, RearrangesAgain
  <2>6. KeepsBands(w, t0.s, n)
    <3>1. KeepsBands(w, t.s, n) BY <2>1, <2>3, SwapKeepsBands
    <3>. QED BY <1>0, <3>1 DEF KeepsBands
  <2>7. Exchanged(w, t.s, t.p, t.p - 1, n) BY <2>1, SwapArray
  <2> HIDE DEF w, u
  <2>8. u \in Insertions /\ u.s = w /\ u.p = t.p - 1 /\ u.swaps = t.swaps + 1
    <3>1. w \in Seq(Int) BY <2>5, ArraysAreSeqs DEF Rearranges
    <3>2. t.p - 1 \in Nat /\ t.swaps + 1 \in Nat BY <2>1
    <3>. QED BY <2>4, <3>1, <3>2 DEF Insertions
  <2>9. ASSUME t0.swaps <= r PROVE OrderedBut(w, t0.p, t.p - 1)
    <3>1. \A a, b \in 1 .. t0.p : a <= b /\ b # t.p => t.s[a] <= t.s[b]
      BY <1>0, <2>9 DEF OrderedBut
    <3>2. /\ w[t.p] = t.s[t.p - 1] /\ w[t.p - 1] = t.s[t.p]
          /\ \A k \in 1 .. n : k # t.p /\ k # t.p - 1 => w[k] = t.s[k]
      BY <2>7 DEF Exchanged
    <3> DEFINE p == t.p
               z == t.s
               m == t0.p
    <3>3. /\ p \in 2 .. m /\ m \in 1 .. n /\ z[p] < z[p - 1]
          /\ w[p] = z[p - 1] /\ w[p - 1] = z[p]
          /\ \A k \in 1 .. n : k # p /\ k # p - 1 => w[k] = z[k]
          /\ \A a, b \in 1 .. m : a <= b /\ b # p => z[a] <= z[b]
          /\ \A k \in 1 .. m : z[k] \in Int
      BY <1>0, <2>1, <2>2, <2>3, <3>1, <3>2
    <3> HIDE DEF p, z, m
    <3>4. ASSUME NEW a \in 1 .. m, NEW b \in 1 .. m, a <= b, b # p - 1 PROVE w[a] <= w[b]
      <4>0. a \in 1 .. n /\ b \in 1 .. n /\ p \in 1 .. m /\ p - 1 \in 1 .. m /\ p - 1 # p
        BY <3>3
      <4>1. CASE b = p
        <5>1. CASE a = p BY <3>3, <4>0, <4>1, <5>1
        <5>2. CASE a = p - 1 BY <3>3, <4>0, <4>1, <5>2
        <5>3. CASE a # p /\ a # p - 1
          <6>1. a <= p - 1 BY <3>3, <3>4, <4>1, <5>3
          <6>2. z[a] <= z[p - 1] BY <3>3, <4>0, <6>1
          <6>. QED BY <3>3, <4>0, <4>1, <5>3, <6>2
        <5>. QED BY <5>1, <5>2, <5>3
      <4>2. CASE b # p
        <5>0. w[b] = z[b] BY <3>3, <3>4, <4>0, <4>2
        <5>1. CASE a = p
          <6>1. p - 1 <= b BY <3>3, <3>4, <5>1
          <6>2. z[p - 1] <= z[b] BY <3>3, <4>0, <4>2, <6>1
          <6>. QED BY <3>3, <5>0, <5>1, <6>2
        <5>2. CASE a = p - 1
          <6>1. p <= b BY <3>3, <3>4, <5>2
          <6>2. z[p] <= z[b] BY <3>3, <4>0, <4>2, <6>1
          <6>. QED BY <3>3, <5>0, <5>2, <6>2
        <5>3. CASE a # p /\ a # p - 1 BY <3>3, <3>4, <4>0, <4>2, <5>0, <5>3
        <5>. QED BY <5>1, <5>2, <5>3
      <4>. QED BY <4>1, <4>2
    <3>. QED BY <3>4 DEF OrderedBut, p, m
  <2>10. u.swaps + u.p = t0.swaps + t0.p BY <1>0, <2>1, <2>8
  <2>11. u \in MovingLeft(t0, r, n) BY <2>1, <2>5, <2>6, <2>8, <2>9, <2>10 DEF MovingLeft
  <2>12. t.p - 1 < t.p BY <2>1
  <2>. QED BY <1>3, <2>8, <2>11, <2>12 DEF u
<1>. QED BY <1>2, <1>3

LEMMA SinkOK ==
  ASSUME NEW n \in Nat, NEW r \in Nat, NEW t0 \in Insertions, t0.p \in 1 .. n,
         t0.s \in Arrays(n), t0.swaps <= r => OrderedBut(t0.s, t0.p, t0.p)
  PROVE  /\ Iterate(Sink(r), t0, t0.p) \in MovingLeft(t0, r, n)
         /\ Placed(Iterate(Sink(r), t0, t0.p), r)
<1> DEFINE P == MovingLeft(t0, r, n)
           f == Sink(r)
           V == [q \in P |-> q.p]
           last == Iterate(f, t0, t0.p)
<1>0. \A q \in P : q.p \in Nat BY DEF MovingLeft, Insertions
<1>1. t0 \in P /\ V[t0] <= t0.p /\ t0.p \in Nat
  <2>1. KeepsBands(t0.s, t0.s, n) BY DEF KeepsBands
  <2>2. t0 \in P BY <2>1, RearrangesSelf DEF MovingLeft
  <2>. QED BY <2>2
<1>2. \A q \in P : f[q] \in P /\ (Placed(q, r) => f[q] = q) /\ (~ Placed(q, r) => f[q].p < q.p)
  BY SinkStep
<1>3. EndsBy(f, P, V)
  <2>1. V \in [P -> Nat] BY <1>0
  <2>2. ASSUME NEW q \in P PROVE f[q] \in P /\ (f[q] = q \/ V[f[q]] < V[q])
    <3> HIDE DEF f, P
    <3>1. f[q] \in P BY <1>2
    <3>2. V[q] = q.p /\ V[f[q]] = f[q].p BY <3>1
    <3>. QED BY <1>2, <3>1, <3>2
  <2> HIDE DEF f, P, V
  <2>. QED BY <2>1, <2>2 DEF EndsBy
<1>4. last \in P /\ f[last] = last
  <2> HIDE DEF f, P, V
  <2>. QED BY <1>1, <1>3, IterateEnds
<1>5. Placed(last, r)
  <2> HIDE DEF f, P, last
  <2>1. last.p \in Nat BY <1>0, <1>4
  <2>. QED BY <1>2, <1>4, <2>1
<1>. QED BY <1>4, <1>5

\* before element t.p is inserted; r exchanges at most have kept the elements before it in order
Inserting(s, r, n) ==
  {t \in Insertions :
     /\ Rearranges(t.s, s, n) /\ KeepsBands(t.s, s, n)
     /\ t.p >= 2 /\ (t.p <= n + 1 \/ t.p = 2) /\ t.swaps <= n * (t.p - 2)
     /\ t.swaps <= r => OrderedBut(t.s, Smaller(n, t.p - 1), 0)}

LEMMA InsertStep ==
  ASSUME NEW n \in Nat, NEW r \in Nat, NEW s \in Arrays(n), NEW t \in Inserting(s, r, n)
  PROVE  /\ InsertNext(r)[t] \in Inserting(s, r, n)
         /\ t.p > n => InsertNext(r)[t] = t
         /\ t.p <= n => InsertNext(r)[t].p = t.p + 1
<1>0. /\ t \in Insertions /\ Rearranges(t.s, s, n) /\ KeepsBands(t.s, s, n)
      /\ t.p >= 2 /\ (t.p <= n + 1 \/ t.p = 2) /\ t.swaps <= n * (t.p - 2)
      /\ t.swaps <= r => OrderedBut(t.s, Smaller(n, t.p - 1), 0)
  BY DEF Inserting
<1>1. /\ t.s \in Arrays(n) /\ t.p \in Nat /\ t.swaps \in Nat
      /\ Len(t.s) = n /\ \A k \in 1 .. n : t.s[k] \in Int
  BY <1>0, ArraysAreSeqs DEF Rearranges, Insertions, Arrays
<1> DEFINE w == Iterate(Sink(r), t, t.p)
           u == InsertNext(r)[t]
<1>2. u = IF t.p > n THEN t ELSE [w EXCEPT !.p = t.p + 1] BY <1>0, <1>1 DEF InsertNext
<1>3. CASE t.p > n
  <2>1. ~(t.p <= n) BY <1>1, <1>3
  <2>. QED BY <1>2, <1>3, <2>1
<1>4. CASE t.p <= n
  <2>1. /\ t.p \in 1 .. n /\ ~(t.p > n) /\ Smaller(n, t.p - 1) = t.p - 1
        /\ Smaller(n, (t.p + 1) - 1) = t.p
    BY <1>0, <1>1, <1>4 DEF Smaller
  <2>2. t.swaps <= r => OrderedBut(t.s, t.p, t.p)
    <3>1. ASSUME t.swaps <= r, NEW a \in 1 .. t.p, NEW b \in 1 .. t.p, a <= b, b # t.p
          PROVE  t.s[a] <= t.s[b]
      <4>1. a \in 1 .. t.p - 1 /\ b \in 1 .. t.p - 1 /\ b # 0 BY <1>1, <3>1
      <4>. QED BY <1>0, <2>1, <3>1, <4>1 DEF OrderedBut
    <3>. QED BY <3>1 DEF OrderedBut
  <2>3. w \in MovingLeft(t, r, n) /\ Placed(w, r) BY <1>0, <1>1, <2>1, <2>2, SinkOK
  <2>4. u = [w EXCEPT !.p = t.p + 1] BY <1>2, <2>1
  <2> HIDE DEF w, u
  <2>5. /\ w \in Insertions /\ Rearranges(w.s, t.s, n) /\ KeepsBands(w.s, t.s, n)
        /\ w.p \in 1 .. t.p /\ w.swaps + w.p = t.swaps + t.p
        /\ t.swaps <= r => OrderedBut(w.s, t.p, w.p)
    BY <2>3 DEF MovingLeft
  <2>6. u \in Insertions /\ u.s = w.s /\ u.p = t.p + 1 /\ u.swaps = w.swaps
    <3>1. t.p + 1 \in Nat BY <1>1
    <3>. QED BY <2>4, <2>5, <3>1 DEF Insertions
  <2>7. Rearranges(u.s, s, n) BY <1>0, <2>5, <2>6, RearrangesAgain
  <2>8. KeepsBands(u.s, s, n) BY <1>0, <2>5, <2>6 DEF KeepsBands
  <2>9. w.swaps \in Nat /\ w.p \in Nat /\ w.swaps >= t.swaps /\ w.swaps <= t.swaps + n
    <3>1. w.swaps \in Nat /\ w.p \in Nat BY <2>5 DEF Insertions
    <3>. QED BY <1>1, <2>1, <2>5, <3>1
  <2>10. u.swaps <= n * (u.p - 2)
    <3>1. n * ((t.p + 1) - 2) = n * (t.p - 2) + n BY <1>1
    <3> DEFINE m == n * (t.p - 2)
    <3>2. m \in Int BY <1>1
    <3>3. t.swaps <= m BY <1>0
    <3> HIDE DEF m
    <3>4. w.swaps <= m + n BY <1>1, <2>9, <3>2, <3>3
    <3>. QED BY <2>6, <3>1, <3>4 DEF m
  <2>11. ASSUME u.swaps <= r PROVE OrderedBut(u.s, t.p, 0)
    <3>1. t.swaps <= r BY <1>1, <2>6, <2>9, <2>11
    <3>2. \A a, b \in 1 .. t.p : a <= b /\ b # w.p => w.s[a] <= w.s[b]
      BY <2>5, <3>1 DEF OrderedBut
    <3>3. \A k \in 1 .. t.p : w.s[k] \in Int
      <4>1. w.s \in Arrays(n) /\ \A k \in 1 .. t.p : k \in 1 .. n
        BY <2>1, <2>5 DEF Rearranges
      <4>. QED BY <4>1 DEF Arrays
    <3>4. w.p = 1 \/ w.s[w.p - 1] <= w.s[w.p] BY <2>3, <2>6, <2>9, <2>11 DEF Placed
    <3>5. ASSUME NEW a \in 1 .. t.p, NEW b \in 1 .. t.p, a <= b PROVE w.s[a] <= w.s[b]
      <4>1. CASE b # w.p BY <3>2, <3>5, <4>1
      <4>2. CASE b = w.p /\ a = b BY <3>3, <4>2
      <4>3. CASE b = w.p /\ a # b
        <5>1. w.p - 1 \in 1 .. t.p /\ a <= w.p - 1 /\ w.p - 1 # w.p /\ w.p # 1
          <6>1. a \in Int /\ b \in Int /\ t.p \in Int /\ a >= 1 /\ b <= t.p BY <1>1, <3>5
          <6>2. a < b /\ b = w.p BY <3>5, <4>3, <6>1
          <6>. QED BY <6>1, <6>2
        <5>2. w.s[a] <= w.s[w.p - 1] /\ w.s[w.p - 1] <= w.s[w.p] BY <3>2, <3>4, <5>1
        <5>. QED BY <3>3, <4>3, <5>1, <5>2
      <4>. QED BY <4>1, <4>2, <4>3
    <3>. QED BY <2>6, <3>5 DEF OrderedBut
  <2>12. u.p >= 2 /\ u.p <= n + 1 BY <1>1, <2>1, <2>6
  <2>13. u \in Inserting(s, r, n)
    <3>1. u.swaps <= r => OrderedBut(u.s, Smaller(n, u.p - 1), 0) BY <2>1, <2>6, <2>11
    <3>. QED BY <2>6, <2>7, <2>8, <2>10, <2>12, <3>1 DEF Inserting
  <2>. QED BY <2>1, <2>6, <2>13 DEF u
<1>5. t.p > n \/ t.p <= n BY <1>1
<1>. QED BY <1>3, <1>4, <1>5

\* Insertion sort that made no more exchanges than it was allowed has sorted; it never makes
\* n * n, so a run that is allowed them is never given up.
LEMMA InsertionOK ==
  ASSUME NEW s \in Seq(Int), NEW r \in Nat
  PROVE  /\ Insertion(s, r) \in Insertions
         /\ Rearranges(Insertion(s, r).s, s, Len(s))
         /\ KeepsBands(Insertion(s, r).s, s, Len(s))
         /\ Insertion(s, r).swaps <= r => Sorted(Insertion(s, r).s)
         /\ Insertion(s, r).swaps <= Len(s) * Len(s)
<1> DEFINE n == Len(s)
           P == Inserting(s, r, n)
           f == InsertNext(r)
           x == [s |-> s, p |-> 2, swaps |-> 0]
           V == [q \in P |-> IF q.p > n THEN 0 ELSE (n + 1) - q.p]
           last == Iterate(f, x, n)
<1>1. n \in Nat /\ s \in Arrays(n) BY ArraysAreSeqs
<1> HIDE DEF n
<1>2. \A q \in P : q.p \in Nat /\ q.p >= 2 BY DEF Inserting, Insertions
<1>3. x \in P /\ V[x] <= n
  <2>1. x \in Insertions /\ x.s = s /\ x.p = 2 /\ x.swaps = 0 BY DEF Insertions
  <2> HIDE DEF x
  <2>2. \A a, b \in 1 .. Smaller(n, 2 - 1) : a = b /\ s[a] <= s[b]
    <3>1. Smaller(n, 2 - 1) \in {0, 1} /\ Smaller(n, 2 - 1) <= n BY <1>1 DEF Smaller
    <3>2. \A k \in 1 .. n : s[k] \in Int BY <1>1 DEF Arrays
    <3>. QED BY <1>1, <3>1, <3>2
  <2>3. OrderedBut(s, Smaller(n, 2 - 1), 0) BY <2>2 DEF OrderedBut
  <2>4. KeepsBands(s, s, n) BY DEF KeepsBands
  <2>5. 0 <= n * (2 - 2) BY <1>1
  <2>6. x \in P BY <1>1, <2>1, <2>3, <2>4, <2>5, RearrangesSelf DEF Inserting
  <2>. QED BY <1>1, <2>1, <2>6
<1>4. \A q \in P : f[q] \in P /\ (q.p > n => f[q] = q) /\ (q.p <= n => f[q].p = q.p + 1)
  BY <1>1, InsertStep
<1>5. EndsBy(f, P, V)
  <2>1. V \in [P -> Nat] BY <1>1, <1>2
  <2>2. ASSUME NEW q \in P PROVE f[q] \in P /\ (f[q] = q \/ V[f[q]] < V[q])
    <3> HIDE DEF f, P
    <3>1. f[q] \in P BY <1>4
    <3>2. /\ V[q] = IF q.p > n THEN 0 ELSE (n + 1) - q.p
          /\ V[f[q]] = IF f[q].p > n THEN 0 ELSE (n + 1) - f[q].p
      BY <3>1
    <3> HIDE DEF V
    <3>3. q.p \in Nat /\ n \in Nat BY <1>1, <1>2
    <3>4. CASE q.p > n BY <1>4, <3>1, <3>4
    <3>5. CASE q.p <= n
      <4>1. f[q].p = q.p + 1 BY <1>4, <3>5
      <4>2. V[q] = (n + 1) - q.p BY <3>2, <3>3, <3>5
      <4>3. V[f[q]] = IF q.p + 1 > n THEN 0 ELSE (n + 1) - (q.p + 1) BY <3>2, <4>1
      <4>. QED BY <3>1, <3>3, <3>5, <4>2, <4>3
    <3>. QED BY <3>3, <3>4, <3>5
  <2> HIDE DEF f, P, V
  <2>. QED BY <2>1, <2>2 DEF EndsBy
<1>6. last \in P /\ f[last] = last
  <2> HIDE DEF f, P, V, x
  <2>. QED BY <1>1, <1>3, <1>5, IterateEnds
<1>7. last.p > n
  <2> HIDE DEF f, P, last
  <2>. QED BY <1>1, <1>2, <1>4, <1>6
<1>8. Insertion(s, r) = last BY DEF Insertion, n
<1> HIDE DEF last
<1>9. /\ last \in Insertions /\ Rearranges(last.s, s, n) /\ KeepsBands(last.s, s, n)
      /\ last.p >= 2 /\ (last.p <= n + 1 \/ last.p = 2) /\ last.swaps <= n * (last.p - 2)
      /\ last.swaps <= r => OrderedBut(last.s, Smaller(n, last.p - 1), 0)
  BY <1>6 DEF Inserting
<1>10. last.p \in Nat /\ last.swaps \in Nat BY <1>9 DEF Insertions
<1>11. last.swaps <= n * n
  <2>1. CASE last.p = 2
    <3>1. n * (2 - 2) = 0 /\ n * n >= 0 BY <1>1
    <3>. QED BY <1>1, <1>9, <1>10, <2>1, <3>1
  <2>2. CASE last.p # 2
    <3>1. last.p = n + 1 BY <1>1, <1>7, <1>9, <1>10, <2>2
    <3>2. n * ((n + 1) - 2) = n * n - n BY <1>1
    <3> DEFINE m == n * n
    <3>3. m \in Int BY <1>1
    <3>4. last.swaps <= m - n BY <1>9, <3>1, <3>2
    <3> HIDE DEF m
    <3>5. last.swaps <= m BY <1>1, <1>10, <3>3, <3>4
    <3>. QED BY <3>5 DEF m
  <2>. QED BY <2>1, <2>2
<1>12. last.swaps <= r => Sorted(last.s)
  <2>1. Smaller(n, last.p - 1) = n BY <1>1, <1>7, <1>9, <1>10 DEF Smaller
  <2>2. Len(last.s) = n BY <1>1, <1>9, ArraysAreSeqs DEF Rearranges
  <2>3. \A b \in 1 .. n : b # 0 BY <1>1
  <2>. QED BY <1>9, <2>1, <2>2, <2>3 DEF OrderedBut, Sorted
<1>. QED BY <1>8, <1>9, <1>11, <1>12 DEF n

-----------------------------------------------------------------------------
(* Partitioning: the four bands and what is not looked at yet, from both ends. *)

\* A loop that has ended does nothing more.
LEMMA IterateStays ==
  ASSUME NEW f, NEW x, f[x] = x, NEW n \in Nat PROVE Iterate(f, x, n) = x
<1> DEFINE P == {x}
<1>1. x \in P /\ \A q \in P : f[q] \in P OBVIOUS
<1> HIDE DEF P
<1>2. Iterate(f, x, n) \in P BY <1>1, IterateKeeps
<1>. QED BY <1>2 DEF P

\* equal to v before pa and behind pd, below v from there to pb, above v from pc on
FourBands(s, pa, pb, pc, pd, n, v) ==
  \A j \in 1 .. n : /\ j < pa => s[j] = v
                    /\ pa <= j /\ j < pb => s[j] < v
                    /\ pc < j /\ j <= pd => v < s[j]
                    /\ pd < j => s[j] = v

Parting(s, n, v) ==
  {q \in Partitions :
     /\ Rearranges(q.s, s, n)
     /\ 2 <= q.pa /\ q.pa <= q.pb /\ q.pb <= q.pc + 1 /\ q.pc <= q.pd /\ q.pd <= n
     /\ FourBands(q.s, q.pa, q.pb, q.pc, q.pd, n, v)}

LEMMA PartingFacts ==
  ASSUME NEW n \in Nat, NEW s, NEW v \in Int, NEW q \in Parting(s, n, v)
  PROVE  /\ q \in Partitions /\ Rearranges(q.s, s, n) /\ q.s \in Arrays(n) /\ Len(q.s) = n
         /\ \A j \in 1 .. n : q.s[j] \in Int
         /\ q.pa \in Nat /\ q.pb \in Nat /\ q.pc \in Nat /\ q.pd \in Nat
         /\ 2 <= q.pa /\ q.pa <= q.pb /\ q.pb <= q.pc + 1 /\ q.pc <= q.pd /\ q.pd <= n
         /\ FourBands(q.s, q.pa, q.pb, q.pc, q.pd, n, v)
         /\ q.s[1] = v
<1>0. /\ q \in Partitions /\ Rearranges(q.s, s, n)
      /\ 2 <= q.pa /\ q.pa <= q.pb /\ q.pb <= q.pc + 1 /\ q.pc <= q.pd /\ q.pd <= n
      /\ FourBands(q.s, q.pa, q.pb, q.pc, q.pd, n, v)
  BY DEF Parting
<1>1. q.pa \in Nat /\ q.pb \in Nat /\ q.pc \in Nat /\ q.pd \in Nat BY <1>0 DEF Partitions
<1>2. q.s \in Arrays(n) /\ Len(q.s) = n BY <1>0, ArraysAreSeqs DEF Rearranges
<1>3. \A j \in 1 .. n : q.s[j] \in Int BY <1>2 DEF Arrays
<1>4. q.s[1] = v
  <2>1. 1 \in 1 .. n /\ 1 < q.pa BY <1>0, <1>1
  <2>. QED BY <1>0, <2>1 DEF FourBands
<1>. QED BY <1>0, <1>1, <1>2, <1>3, <1>4

\* the elements not yet looked at: of p they are among those of q
Narrower(q, s, n, v) == {p \in Parting(s, n, v) : q.pb <= p.pb /\ p.pc <= q.pc}

LeftDone(q, v) == q.pb > q.pc \/ q.s[q.pb] > v
RightDone(q, v) == q.pb > q.pc \/ q.s[q.pc] < v

\* one more element looked at from the left: smaller than v, or equal to it
LEMMA PartedFromLeft ==
  ASSUME NEW n \in Nat, NEW s \in Arrays(n), NEW v \in Int, NEW a \in 1 .. n, NEW b \in 1 .. n,
         NEW c \in Nat, NEW d \in Nat, a <= b, b <= c, c <= d, d <= n, FourBands(s, a, b, c, d, n, v)
  PROVE  /\ s[b] < v => FourBands(s, a, b + 1, c, d, n, v)
         /\ \A w : Exchanged(w, s, a, b, n) /\ s[b] = v => FourBands(w, a + 1, b + 1, c, d, n, v)
<1>0. \A j \in 1 .. n : /\ j < a => s[j] = v
                        /\ a <= j /\ j < b => s[j] < v
                        /\ c < j /\ j <= d => v < s[j]
                        /\ d < j => s[j] = v
  BY DEF FourBands
<1>1. ASSUME s[b] < v, NEW j \in 1 .. n, a <= j, j < b + 1 PROVE s[j] < v
  <2>1. j = b \/ j < b BY <1>1
  <2>. QED BY <1>0, <1>1, <2>1
<1>2. ASSUME NEW w, Exchanged(w, s, a, b, n), s[b] = v, NEW j \in 1 .. n
      PROVE  /\ j < a + 1 => w[j] = v
             /\ a + 1 <= j /\ j < b + 1 => w[j] < v
             /\ c < j /\ j <= d => v < w[j]
             /\ d < j => w[j] = v
  <2>1. w[a] = v /\ w[b] = s[a] /\ (j # a /\ j # b => w[j] = s[j]) BY <1>2 DEF Exchanged
  <2>2. a # b => s[a] < v
    <3>1. a # b => a <= a /\ a < b OBVIOUS
    <3>. QED BY <1>0, <3>1
  <2>3. CASE j = a
    <3>1. ~(a + 1 <= j) /\ ~(c < j) /\ ~(d < j) BY <2>3
    <3>. QED BY <2>1, <2>3, <3>1
  <2>4. CASE j = b /\ a # b
    <3>1. ~(j < a + 1) /\ ~(c < j) /\ ~(d < j) BY <2>4
    <3>. QED BY <2>1, <2>2, <2>4, <3>1
  <2>5. CASE j # a /\ j # b
    <3>1. (j < a + 1 => j < a) /\ (a + 1 <= j => a <= j) /\ (j < b + 1 => j < b) BY <2>5
    <3>. QED BY <1>0, <2>1, <2>5, <3>1
  <2>. QED BY <2>3, <2>4, <2>5
<1>. QED BY <1>0, <1>1, <1>2 DEF FourBands

\* one more element looked at from the right: larger than v, or equal to it
LEMMA PartedFromRight ==
  ASSUME NEW n \in Nat, NEW s \in Arrays(n), NEW v \in Int, NEW a \in 1 .. n, NEW b \in 1 .. n,
         NEW c \in 1 .. n, NEW d \in 1 .. n, a <= b, b <= c, c <= d, FourBands(s, a, b, c, d, n, v)
  PROVE  /\ v < s[c] => FourBands(s, a, b, c - 1, d, n, v)
         /\ \A w : Exchanged(w, s, c, d, n) /\ s[c] = v /\ b < c
                   => FourBands(w, a, b, c - 1, d - 1, n, v)
<1>0. \A j \in 1 .. n : /\ j < a => s[j] = v
                        /\ a <= j /\ j < b => s[j] < v
                        /\ c < j /\ j <= d => v < s[j]
                        /\ d < j => s[j] = v
  BY DEF FourBands
<1>1. ASSUME v < s[c], NEW j \in 1 .. n, c - 1 < j, j <= d PROVE v < s[j]
  <2>1. j = c \/ c < j BY <1>1
  <2>. QED BY <1>0, <1>1, <2>1
<1>2. ASSUME NEW w, Exchanged(w, s, c, d, n), s[c] = v, b < c, NEW j \in 1 .. n
      PROVE  /\ j < a => w[j] = v
             /\ a <= j /\ j < b => w[j] < v
             /\ c - 1 < j /\ j <= d - 1 => v < w[j]
             /\ d - 1 < j => w[j] = v
  <2>1. w[d] = v /\ w[c] = s[d] /\ (j # c /\ j # d => w[j] = s[j]) BY <1>2 DEF Exchanged
  <2>2. c # d => v < s[d]
    <3>1. c # d => d <= d /\ c < d OBVIOUS
    <3>. QED BY <1>0, <3>1
  <2>3. CASE j = d
    <3>1. ~(j < a) /\ ~(j < b) /\ ~(j <= d - 1) BY <1>2, <2>3
    <3>. QED BY <2>1, <2>3, <3>1
  <2>4. CASE j = c /\ c # d
    <3>1. ~(j < a) /\ ~(j < b) /\ ~(d - 1 < j) BY <1>2, <2>4
    <3>. QED BY <2>1, <2>2, <2>4, <3>1
  <2>5. CASE j # c /\ j # d
    <3>1. (c - 1 < j => c < j) /\ (j <= d - 1 => j <= d) /\ (d - 1 < j => d < j) BY <2>5
    <3>. QED BY <1>0, <2>1, <2>5, <3>1
  <2>. QED BY <2>3, <2>4, <2>5
<1>. QED BY <1>0, <1>1, <1>2 DEF FourBands

\* the partition r in its parts
IsPartition(r, s, a, b, c, d) ==
  r \in Partitions /\ r.s = s /\ r.pa = a /\ r.pb = b /\ r.pc = c /\ r.pd = d

LEMMA PartitionUpdated ==
  ASSUME NEW q \in Partitions, NEW t \in Seq(Int), NEW a \in Nat, NEW b \in Nat
  PROVE  /\ IsPartition([q EXCEPT !.s = t, !.swapped = TRUE, !.pa = a, !.pb = b],
                        t, a, b, q.pc, q.pd)
         /\ IsPartition([q EXCEPT !.s = t, !.swapped = TRUE, !.pd = a, !.pc = b],
                        t, q.pa, q.pb, b, a)
         /\ IsPartition([q EXCEPT !.s = t, !.swapped = TRUE, !.pb = a, !.pc = b],
                        t, q.pa, a, b, q.pd)
BY DEF IsPartition, Partitions

LEMMA FromLeftStep ==
  ASSUME NEW n \in Nat, NEW s, NEW v \in Int, NEW q \in Parting(s, n, v)
  PROVE  /\ FromLeft[q] \in Parting(s, n, v) /\ FromLeft[q].pc = q.pc
         /\ LeftDone(q, v) => FromLeft[q] = q
         /\ ~ LeftDone(q, v) => FromLeft[q].pb = q.pb + 1
<1> DEFINE w == Exchange(q.s, q.pa, q.pb)
           u == FromLeft[q]
<1>q. q \in Partitions /\ q.s[1] = v /\ Len(q.s) = n BY PartingFacts
<1>1. u = IF LeftDone(q, v) THEN q
          ELSE IF q.s[q.pb] < v THEN [q EXCEPT !.pb = @ + 1]
          ELSE [q EXCEPT !.s = w, !.swapped = TRUE, !.pa = @ + 1, !.pb = @ + 1]
  BY <1>q DEF FromLeft, LeftDone
<1>2. CASE LeftDone(q, v)
  <2>1. u = q BY <1>1, <1>2
  <2>. QED BY <1>2, <2>1
<1>3. CASE ~ LeftDone(q, v)
  <2> DEFINE a == q.pa
             b == q.pb
             c == q.pc
             d == q.pd
             z == q.s
  <2>0. /\ Rearranges(z, s, n) /\ z \in Arrays(n) /\ z \in Seq(Int)
        /\ \A j \in 1 .. n : z[j] \in Int
        /\ a \in Nat /\ b \in Nat /\ c \in Nat /\ d \in Nat
        /\ 2 <= a /\ a <= b /\ b <= c + 1 /\ c <= d /\ d <= n
        /\ FourBands(z, a, b, c, d, n, v)
    BY PartingFacts, ArraysAreSeqs
  <2>f. \A r \in Partitions :
          /\ Rearranges(r.s, s, n)
          /\ 2 <= r.pa /\ r.pa <= r.pb /\ r.pb <= r.pc + 1 /\ r.pc <= r.pd /\ r.pd <= n
          /\ FourBands(r.s, r.pa, r.pb, r.pc, r.pd, n, v)
          => r \in Parting(s, n, v)
    BY DEF Parting
  <2>l. ~(b > c \/ z[b] > v) BY <1>3 DEF LeftDone
  <2>1. z[b] < v => u = [q EXCEPT !.pb = b + 1] BY <1>1, <1>3
  <2>2. ~(z[b] < v) => u = [q EXCEPT !.s = w, !.swapped = TRUE, !.pa = a + 1, !.pb = b + 1]
    BY <1>1, <1>3
  <2>3. \A m \in Nat : LET r == [q EXCEPT !.pb = m]
                       IN  /\ r \in Partitions /\ r.s = z /\ r.pa = a /\ r.pb = m
                           /\ r.pc = c /\ r.pd = d
    BY <1>q DEF Partitions
  <2>4. \A m, k \in Nat, t \in Seq(Int) :
          IsPartition([q EXCEPT !.s = t, !.swapped = TRUE, !.pa = m, !.pb = k], t, m, k, c, d)
    BY <1>q, PartitionUpdated
  <2>w. w = Exchange(z, a, b) OBVIOUS
  <2> HIDE DEF a, b, c, d, z, u, w
  <2>5. b <= c /\ z[b] <= v /\ b \in 1 .. n /\ a \in 1 .. n /\ b + 1 \in Nat /\ a + 1 \in Nat
    <3>1. b <= c /\ b \in 1 .. n /\ a \in 1 .. n /\ b + 1 \in Nat /\ a + 1 \in Nat
      BY <2>0, <2>l
    <3>. QED BY <2>0, <2>l, <3>1
  <2>6. 2 <= a /\ a <= b + 1 /\ a + 1 <= b + 1 /\ b + 1 <= c + 1 /\ 2 <= a + 1
    BY <2>0, <2>5
  <2>7. CASE z[b] < v
    <3>1. /\ u \in Partitions /\ u.s = z /\ u.pa = a /\ u.pb = b + 1
          /\ u.pc = c /\ u.pd = d
      BY <2>1, <2>3, <2>5, <2>7
    <3>2. FourBands(z, a, b + 1, c, d, n, v) BY <2>0, <2>5, <2>7, PartedFromLeft
    <3>3. u \in Parting(s, n, v) BY <2>0, <2>6, <2>f, <3>1, <3>2
    <3>. QED BY <1>3, <3>1, <3>3 DEF b, c, u
  <2>8. CASE ~(z[b] < v)
    <3>1. Exchanged(w, z, a, b, n) BY <2>0, <2>5, <2>w, SwapArray
    <3>2. Rearranges(w, s, n)
      <4>1. Rearranges(w, z, n) BY <2>0, <2>5, <2>w, SwapRearranges
      <4>. QED BY <2>0, <4>1, RearrangesAgain
    <3>3. w \in Seq(Int) BY <3>2, ArraysAreSeqs DEF Rearranges
    <3>4. /\ u \in Partitions /\ u.s = w /\ u.pa = a + 1 /\ u.pb = b + 1
          /\ u.pc = c /\ u.pd = d
      <4>1. IsPartition(u, w, a + 1, b + 1, c, d) BY <2>2, <2>4, <2>5, <2>8, <3>3
      <4>. QED BY <4>1 DEF IsPartition
    <3>5. z[b] = v BY <2>0, <2>5, <2>8
    <3>6. FourBands(w, a + 1, b + 1, c, d, n, v) BY <2>0, <2>5, <3>1, <3>5, PartedFromLeft
    <3>7. u \in Parting(s, n, v) BY <2>0, <2>6, <2>f, <3>2, <3>4, <3>6
    <3>. QED BY <1>3, <3>4, <3>7 DEF b, c, u
  <2>. QED BY <2>7, <2>8
<1>. QED BY <1>2, <1>3

LEMMA FromRightStep ==
  ASSUME NEW n \in Nat, NEW s, NEW v \in Int, NEW q \in Parting(s, n, v), LeftDone(q, v)
  PROVE  /\ FromRight[q] \in Parting(s, n, v) /\ FromRight[q].pb = q.pb
         /\ LeftDone(FromRight[q], v)
         /\ RightDone(q, v) => FromRight[q] = q
         /\ ~ RightDone(q, v) => FromRight[q].pc = q.pc - 1
<1> DEFINE w == Exchange(q.s, q.pc, q.pd)
           u == FromRight[q]
<1>q. q \in Partitions /\ q.s[1] = v /\ Len(q.s) = n BY PartingFacts
<1>1. u = IF RightDone(q, v) THEN q
          ELSE IF q.s[q.pc] > v THEN [q EXCEPT !.pc = @ - 1]
          ELSE [q EXCEPT !.s = w, !.swapped = TRUE, !.pd = @ - 1, !.pc = @ - 1]
  BY <1>q DEF FromRight, RightDone
<1>2. CASE RightDone(q, v)
  <2>1. u = q BY <1>1, <1>2
  <2>. QED BY <1>2, <2>1
<1>3. CASE ~ RightDone(q, v)
  <2> DEFINE a == q.pa
             b == q.pb
             c == q.pc
             d == q.pd
             z == q.s
  <2>0. /\ Rearranges(z, s, n) /\ z \in Arrays(n) /\ z \in Seq(Int)
        /\ \A j \in 1 .. n : z[j] \in Int
        /\ a \in Nat /\ b \in Nat /\ c \in Nat /\ d \in Nat
        /\ 2 <= a /\ a <= b /\ b <= c + 1 /\ c <= d /\ d <= n
        /\ FourBands(z, a, b, c, d, n, v)
    BY PartingFacts, ArraysAreSeqs
  <2>f. \A r \in Partitions :
          /\ Rearranges(r.s, s, n)
          /\ 2 <= r.pa /\ r.pa <= r.pb /\ r.pb <= r.pc + 1 /\ r.pc <= r.pd /\ r.pd <= n
          /\ FourBands(r.s, r.pa, r.pb, r.pc, r.pd, n, v)
          => r \in Parting(s, n, v)
    BY DEF Parting
  <2>l. ~(b > c \/ z[c] < v) /\ (b > c \/ z[b] > v) BY <1>3 DEF RightDone, LeftDone
  <2>1. z[c] > v => u = [q EXCEPT !.pc = c - 1] BY <1>1, <1>3
  <2>2. ~(z[c] > v) => u = [q EXCEPT !.s = w, !.swapped = TRUE, !.pd = d - 1, !.pc = c - 1]
    BY <1>1, <1>3
  <2>3. \A m \in Nat : LET r == [q EXCEPT !.pc = m]
                       IN  /\ r \in Partitions /\ r.s = z /\ r.pa = a /\ r.pb = b
                           /\ r.pc = m /\ r.pd = d
    BY <1>q DEF Partitions
  <2>4. \A m, k \in Nat, t \in Seq(Int) :
          IsPartition([q EXCEPT !.s = t, !.swapped = TRUE, !.pd = m, !.pc = k], t, a, b, k, m)
    BY <1>q, PartitionUpdated
  <2>w. w = Exchange(z, c, d) OBVIOUS
  <2>d. \A r : r.pb = b /\ (b > r.pc \/ r.s[b] > v) => LeftDone(r, v) BY DEF LeftDone
  <2> HIDE DEF a, b, c, d, z, u, w
  <2>5. /\ b <= c /\ v <= z[c] /\ z[b] > v /\ a \in 1 .. n /\ b \in 1 .. n
        /\ c \in 1 .. n /\ d \in 1 .. n /\ c - 1 \in Nat /\ d - 1 \in Nat
    <3>1. /\ b <= c /\ a \in 1 .. n /\ b \in 1 .. n
          /\ c \in 1 .. n /\ d \in 1 .. n /\ c - 1 \in Nat /\ d - 1 \in Nat
      BY <2>0, <2>l
    <3>. QED BY <2>0, <2>l, <3>1
  <2>6. b <= (c - 1) + 1 /\ c - 1 <= d - 1 /\ c - 1 <= d /\ d - 1 <= n BY <2>0, <2>5
  <2>7. CASE z[c] > v
    <3>1. /\ u \in Partitions /\ u.s = z /\ u.pa = a /\ u.pb = b
          /\ u.pc = c - 1 /\ u.pd = d
      <4>1. u = [q EXCEPT !.pc = c - 1] /\ c - 1 \in Nat BY <2>1, <2>5, <2>7
      <4>. QED BY <2>3, <4>1
    <3>2. FourBands(z, a, b, c - 1, d, n, v) BY <2>0, <2>5, <2>7, PartedFromRight
    <3>3. u \in Parting(s, n, v) BY <2>0, <2>6, <2>f, <3>1, <3>2
    <3>4. LeftDone(u, v) BY <2>5, <2>d, <3>1
    <3>. QED BY <1>3, <3>1, <3>3, <3>4 DEF b, c, u
  <2>8. CASE ~(z[c] > v)
    <3>1. Exchanged(w, z, c, d, n) BY <2>0, <2>5, <2>w, SwapArray
    <3>2. Rearranges(w, s, n)
      <4>1. Rearranges(w, z, n) BY <2>0, <2>5, <2>w, SwapRearranges
      <4>. QED BY <2>0, <4>1, RearrangesAgain
    <3>3. w \in Seq(Int) BY <3>2, ArraysAreSeqs DEF Rearranges
    <3>4. /\ u \in Partitions /\ u.s = w /\ u.pa = a /\ u.pb = b
          /\ u.pc = c - 1 /\ u.pd = d - 1
      <4>1. IsPartition(u, w, a, b, c - 1, d - 1) BY <2>2, <2>4, <2>5, <2>8, <3>3
      <4>. QED BY <4>1 DEF IsPartition
    <3>5. z[c] = v /\ b # c BY <2>0, <2>5, <2>8
    <3>a. b < c /\ b # d BY <2>0, <2>5, <3>5
    <3>6. FourBands(w, a, b, c - 1, d - 1, n, v) BY <2>0, <2>5, <3>1, <3>5, <3>a, PartedFromRight
    <3>7. u \in Parting(s, n, v) BY <2>0, <2>6, <2>f, <3>2, <3>4, <3>6
    <3>8. w[b] = z[b] BY <2>5, <3>1, <3>5, <3>a DEF Exchanged
    <3>9. LeftDone(u, v) BY <2>5, <2>d, <3>4, <3>8
    <3>. QED BY <1>3, <3>4, <3>7, <3>9 DEF b, c, u
  <2>. QED BY <2>7, <2>8
<1>. QED BY <1>2, <1>3

LEMMA FromLeftOK ==
  ASSUME NEW n \in Nat, NEW s, NEW v \in Int, NEW q \in Parting(s, n, v)
  PROVE  /\ Iterate(FromLeft, q, n) \in Narrower(q, s, n, v)
         /\ LeftDone(Iterate(FromLeft, q, n), v)
<1> DEFINE P == Narrower(q, s, n, v)
           f == FromLeft
           V == [p \in P |-> (p.pc + 1) - p.pb]
           last == Iterate(f, q, n)
<1>0. \A p \in P : /\ p \in Parting(s, n, v) /\ p.pb \in Nat /\ p.pc \in Nat
                   /\ p.pb <= p.pc + 1 /\ p.pc <= n /\ 2 <= p.pb /\ q.pb <= p.pb /\ p.pc <= q.pc
  <2>1. ASSUME NEW p \in Parting(s, n, v)
        PROVE  /\ p.pb \in Nat /\ p.pc \in Nat /\ p.pb <= p.pc + 1 /\ p.pc <= n /\ 2 <= p.pb
    <3>1. /\ p.pa \in Nat /\ p.pb \in Nat /\ p.pc \in Nat /\ p.pd \in Nat
          /\ 2 <= p.pa /\ p.pa <= p.pb /\ p.pb <= p.pc + 1 /\ p.pc <= p.pd /\ p.pd <= n
      BY PartingFacts
    <3>. QED BY <3>1
  <2>. QED BY <2>1 DEF Narrower
<1>n. q.pb \in Nat /\ q.pc \in Nat BY PartingFacts
<1>1. q \in P /\ V[q] <= n
  <2>1. q \in P BY <1>n DEF Narrower
  <2>. QED BY <1>0, <2>1
<1>2. ASSUME NEW p \in P
      PROVE  /\ f[p] \in P /\ (LeftDone(p, v) => f[p] = p)
             /\ ~ LeftDone(p, v) => f[p].pb = p.pb + 1 /\ f[p].pc = p.pc
  <2>1. p \in Parting(s, n, v) BY <1>0
  <2>2. /\ f[p] \in Parting(s, n, v) /\ f[p].pc = p.pc
        /\ (LeftDone(p, v) => f[p] = p) /\ (~ LeftDone(p, v) => f[p].pb = p.pb + 1)
    BY <2>1, FromLeftStep
  <2>3. q.pb <= f[p].pb /\ f[p].pc <= q.pc BY <1>0, <1>n, <2>2
  <2>. QED BY <2>2, <2>3 DEF Narrower
<1>3. EndsBy(f, P, V)
  <2>1. V \in [P -> Nat] BY <1>0
  <2>2. ASSUME NEW p \in P PROVE f[p] \in P /\ (f[p] = p \/ V[f[p]] < V[p])
    <3> HIDE DEF f, P
    <3>1. f[p] \in P BY <1>2
    <3>2. V[p] = (p.pc + 1) - p.pb /\ V[f[p]] = (f[p].pc + 1) - f[p].pb BY <3>1
    <3> HIDE DEF V
    <3>3. p.pb \in Nat /\ p.pc \in Nat BY <1>0
    <3>. QED BY <1>2, <3>1, <3>2, <3>3
  <2> HIDE DEF f, P, V
  <2>. QED BY <2>1, <2>2 DEF EndsBy
<1>4. last \in P /\ f[last] = last
  <2> HIDE DEF f, P, V
  <2>. QED BY <1>1, <1>3, IterateEnds
<1>5. LeftDone(last, v)
  <2> HIDE DEF f, P, last
  <2>1. last.pb \in Nat /\ (~ LeftDone(last, v) => last.pb = last.pb + 1) BY <1>0, <1>2, <1>4
  <2>. QED BY <2>1
<1>. QED BY <1>4, <1>5

LEMMA FromRightOK ==
  ASSUME NEW n \in Nat, NEW s, NEW v \in Int, NEW q \in Parting(s, n, v), LeftDone(q, v)
  PROVE  /\ Iterate(FromRight, q, n) \in Narrower(q, s, n, v)
         /\ LeftDone(Iterate(FromRight, q, n), v)
         /\ RightDone(Iterate(FromRight, q, n), v)
<1> DEFINE P == {p \in Narrower(q, s, n, v) : LeftDone(p, v)}
           f == FromRight
           V == [p \in P |-> (p.pc + 1) - p.pb]
           last == Iterate(f, q, n)
<1>0. \A p \in P : /\ p \in Parting(s, n, v) /\ p.pb \in Nat /\ p.pc \in Nat
                   /\ p.pb <= p.pc + 1 /\ p.pc <= n /\ 2 <= p.pb /\ q.pb <= p.pb /\ p.pc <= q.pc
                   /\ LeftDone(p, v)
  <2>1. ASSUME NEW p \in Parting(s, n, v)
        PROVE  /\ p.pb \in Nat /\ p.pc \in Nat /\ p.pb <= p.pc + 1 /\ p.pc <= n /\ 2 <= p.pb
    <3>1. /\ p.pa \in Nat /\ p.pb \in Nat /\ p.pc \in Nat /\ p.pd \in Nat
          /\ 2 <= p.pa /\ p.pa <= p.pb /\ p.pb <= p.pc + 1 /\ p.pc <= p.pd /\ p.pd <= n
      BY PartingFacts
    <3>. QED BY <3>1
  <2>. QED BY <2>1 DEF Narrower
<1>n. q.pb \in Nat /\ q.pc \in Nat BY PartingFacts
<1>1. q \in P /\ V[q] <= n
  <2>1. q \in P BY <1>n DEF Narrower
  <2>. QED BY <1>0, <2>1
<1>2. ASSUME NEW p \in P
      PROVE  /\ f[p] \in P /\ (RightDone(p, v) => f[p] = p)
             /\ ~ RightDone(p, v) => f[p].pc = p.pc - 1 /\ f[p].pb = p.pb
  <2>1. p \in Parting(s, n, v) /\ LeftDone(p, v) BY <1>0
  <2>2. /\ f[p] \in Parting(s, n, v) /\ f[p].pb = p.pb /\ LeftDone(f[p], v)
        /\ (RightDone(p, v) => f[p] = p) /\ (~ RightDone(p, v) => f[p].pc = p.pc - 1)
    BY <2>1, FromRightStep
  <2>3. q.pb <= f[p].pb /\ f[p].pc <= q.pc BY <1>0, <1>n, <2>2
  <2>. QED BY <2>2, <2>3 DEF Narrower
<1>3. EndsBy(f, P, V)
  <2>1. V \in [P -> Nat] BY <1>0
  <2>2. ASSUME NEW p \in P PROVE f[p] \in P /\ (f[p] = p \/ V[f[p]] < V[p])
    <3> HIDE DEF f, P
    <3>1. f[p] \in P BY <1>2
    <3>2. V[p] = (p.pc + 1) - p.pb /\ V[f[p]] = (f[p].pc + 1) - f[p].pb BY <3>1
    <3> HIDE DEF V
    <3>3. p.pb \in Nat /\ p.pc \in Nat BY <1>0
    <3>. QED BY <1>2, <3>1, <3>2, <3>3
  <2> HIDE DEF f, P, V
  <2>. QED BY <2>1, <2>2 DEF EndsBy
<1>4. last \in P /\ f[last] = last
  <2> HIDE DEF f, P, V
  <2>. QED BY <1>1, <1>3, IterateEnds
<1>5. RightDone(last, v)
  <2> HIDE DEF f, P, last
  <2>1. last.pc \in Nat /\ (~ RightDone(last, v) => last.pc = last.pc - 1) BY <1>0, <1>2, <1>4
  <2>. QED BY <2>1
<1>. QED BY <1>4, <1>5

LEMMA FromBothEndsStep ==
  ASSUME NEW n \in Nat, NEW s, NEW v \in Int, NEW q \in Parting(s, n, v)
  PROVE  /\ FromBothEnds[q] \in Parting(s, n, v)
         /\ q.pb > q.pc => FromBothEnds[q] = q
         /\ q.pb <= q.pc => (FromBothEnds[q].pc + 1) - FromBothEnds[q].pb < (q.pc + 1) - q.pb
<1> DEFINE l == Iterate(FromLeft, q, n)
           p == Iterate(FromRight, l, n)
           w == Exchange(p.s, p.pb, p.pc)
           u == FromBothEnds[q]
<1>q. q \in Partitions /\ Len(q.s) = n /\ q.pb \in Nat /\ q.pc \in Nat /\ q.pb <= q.pc + 1
  BY PartingFacts
<1>1. u = IF p.pb > p.pc THEN p
          ELSE [p EXCEPT !.s = w, !.swapped = TRUE, !.pb = p.pb + 1, !.pc = p.pc - 1]
  BY <1>q DEF FromBothEnds
<1>2. CASE q.pb > q.pc
  <2>1. FromLeft[q] = q BY <1>2, FromLeftStep DEF LeftDone
  <2>2. FromRight[q] = q BY <1>2, FromRightStep DEF LeftDone, RightDone
  <2>3. p = q BY <2>1, <2>2, IterateStays
  <2>4. u = q BY <1>1, <1>2, <2>3
  <2>. QED BY <1>q, <1>2, <2>4
<1>3. CASE q.pb <= q.pc
  <2>1. l \in Narrower(q, s, n, v) /\ LeftDone(l, v) BY FromLeftOK
  <2> HIDE DEF l
  <2>2. l \in Parting(s, n, v) /\ q.pb <= l.pb /\ l.pc <= q.pc BY <2>1 DEF Narrower
  <2>3. p \in Narrower(l, s, n, v) /\ LeftDone(p, v) /\ RightDone(p, v)
    BY <2>1, <2>2, FromRightOK
  <2> HIDE DEF p
  <2>4. p \in Parting(s, n, v) /\ l.pb <= p.pb /\ p.pc <= l.pc BY <2>3 DEF Narrower
  <2>5. l.pb \in Nat /\ l.pc \in Nat BY <2>2, PartingFacts
  <2> DEFINE a == p.pa
             b == p.pb
             c == p.pc
             d == p.pd
             z == p.s
  <2>0. /\ p \in Partitions /\ Rearranges(z, s, n) /\ z \in Arrays(n)
        /\ \A j \in 1 .. n : z[j] \in Int
        /\ a \in Nat /\ b \in Nat /\ c \in Nat /\ d \in Nat
        /\ 2 <= a /\ a <= b /\ b <= c + 1 /\ c <= d /\ d <= n
        /\ FourBands(z, a, b, c, d, n, v)
    BY <2>4, PartingFacts
  <2>6. q.pb <= b /\ c <= q.pc
    <3>1. q.pb <= l.pb /\ l.pb <= b /\ c <= l.pc /\ l.pc <= q.pc BY <2>2, <2>4
    <3>2. q.pb \in Nat /\ q.pc \in Nat /\ b \in Nat /\ c \in Nat BY <1>q, <2>0
    <3> HIDE DEF b, c
    <3>. QED BY <2>5, <3>1, <3>2
  <2>f. \A r : IsPartition(r, r.s, r.pa, r.pb, r.pc, r.pd)
               /\ Rearranges(r.s, s, n)
               /\ 2 <= r.pa /\ r.pa <= r.pb /\ r.pb <= r.pc + 1 /\ r.pc <= r.pd /\ r.pd <= n
               /\ FourBands(r.s, r.pa, r.pb, r.pc, r.pd, n, v)
               => r \in Parting(s, n, v)
    BY DEF Parting, IsPartition
  <2>l. (b > c \/ z[b] > v) /\ (b > c \/ z[c] < v) BY <2>3 DEF LeftDone, RightDone
  <2>7. b > c => u = p BY <1>1
  <2>8. ~(b > c) => u = [p EXCEPT !.s = w, !.swapped = TRUE, !.pb = b + 1, !.pc = c - 1]
    BY <1>1
  <2>9. \A m, k \in Nat, t \in Seq(Int) :
          IsPartition([p EXCEPT !.s = t, !.swapped = TRUE, !.pb = m, !.pc = k], t, a, m, k, d)
    BY <2>0, PartitionUpdated
  <2>w. w = Exchange(z, b, c) OBVIOUS
  <2>10. CASE b > c
    <3> HIDE DEF u
    <3>1. u \in Parting(s, n, v) /\ u.pb = b /\ u.pc = c BY <2>4, <2>7, <2>10
    <3>2. (c + 1) - b < (q.pc + 1) - q.pb
      <4> HIDE DEF b, c
      <4>. QED BY <1>q, <1>3, <2>0, <2>10
    <3>3. ~(q.pb > q.pc) BY <1>q, <1>3
    <3>. QED BY <3>1, <3>2, <3>3 DEF u
  <2> HIDE DEF a, b, c, d, z, w, u
  <2>11. CASE ~(b > c)
    <3>1. /\ b < c /\ b \in 1 .. n /\ c \in 1 .. n /\ v < z[b] /\ z[c] < v
          /\ b + 1 \in Nat /\ c - 1 \in Nat
      <4>1. b <= c /\ b \in 1 .. n /\ c \in 1 .. n /\ b + 1 \in Nat /\ c - 1 \in Nat
        BY <2>0, <2>11
      <4>2. v < z[b] /\ z[c] < v BY <2>0, <2>11, <2>l, <4>1
      <4>3. b # c BY <2>0, <4>1, <4>2
      <4>. QED BY <4>1, <4>2, <4>3
    <3>2. Exchanged(w, z, b, c, n) BY <2>0, <2>w, <3>1, SwapArray
    <3>3. Rearranges(w, s, n)
      <4>1. Rearranges(w, z, n) BY <2>0, <2>w, <3>1, SwapRearranges
      <4>. QED BY <2>0, <4>1, RearrangesAgain
    <3>4. w \in Seq(Int) BY <3>3, ArraysAreSeqs DEF Rearranges
    <3>5. IsPartition(u, w, a, b + 1, c - 1, d) BY <2>8, <2>9, <2>11, <3>1, <3>4
    <3>6. u.s = w /\ u.pa = a /\ u.pb = b + 1 /\ u.pc = c - 1 /\ u.pd = d
      BY <3>5 DEF IsPartition
    <3>7. FourBands(w, a, b + 1, c - 1, d, n, v)
      <4>1. ASSUME NEW j \in 1 .. n
            PROVE  /\ j < a => w[j] = v
                   /\ a <= j /\ j < b + 1 => w[j] < v
                   /\ c - 1 < j /\ j <= d => v < w[j]
                   /\ d < j => w[j] = v
        <5>0. /\ j < a => z[j] = v
              /\ a <= j /\ j < b => z[j] < v
              /\ c < j /\ j <= d => v < z[j]
              /\ d < j => z[j] = v
          BY <2>0 DEF FourBands
        <5>1. w[b] = z[c] /\ w[c] = z[b] /\ (j # b /\ j # c => w[j] = z[j])
          BY <3>2 DEF Exchanged
        <5>2. CASE j = b
          <6>1. ~(j < a) /\ ~(c - 1 < j) /\ ~(d < j) BY <2>0, <3>1, <5>2
          <6>. QED BY <3>1, <5>1, <5>2, <6>1
        <5>3. CASE j = c
          <6>1. ~(j < a) /\ ~(j < b + 1) /\ ~(d < j) BY <2>0, <3>1, <5>3
          <6>. QED BY <3>1, <5>1, <5>3, <6>1
        <5>4. CASE j # b /\ j # c
          <6>1. (j < b + 1 => j < b) /\ (c - 1 < j => c < j) BY <2>0, <5>4
          <6>. QED BY <5>0, <5>1, <5>4, <6>1
        <5>. QED BY <5>2, <5>3, <5>4
      <4>. QED BY <4>1 DEF FourBands
    <3>8. a <= b + 1 /\ b + 1 <= (c - 1) + 1 /\ c - 1 <= d BY <2>0, <3>1
    <3>9. u \in Parting(s, n, v) BY <2>0, <2>f, <3>3, <3>5, <3>6, <3>7, <3>8
    <3>10. (u.pc + 1) - u.pb < (q.pc + 1) - q.pb BY <1>q, <2>0, <2>6, <3>6
    <3>11. ~(q.pb > q.pc) BY <1>q, <1>3
    <3>. QED BY <3>9, <3>10, <3>11 DEF u
  <2>. QED BY <2>10, <2>11
<1>4. q.pb > q.pc \/ q.pb <= q.pc BY <1>q
<1>. QED BY <1>2, <1>3, <1>4

\* Partitioning moves every element to one of the four parts.
LEMMA PartitionOK ==
  ASSUME NEW s \in Seq(Int), Len(s) >= 1
  PROVE  Partition(s) \in Parting(s, Len(s), s[1]) /\ Partition(s).pb = Partition(s).pc + 1
<1> DEFINE n == Len(s)
           v == s[1]
           P == Parting(s, n, v)
           f == FromBothEnds
           x == [s |-> s, pa |-> 2, pb |-> 2, pc |-> n, pd |-> n, swapped |-> FALSE]
           V == [p \in P |-> (p.pc + 1) - p.pb]
           last == Iterate(f, x, n)
<1>1. n \in Nat /\ n >= 1 /\ s \in Arrays(n) /\ v \in Int
  <2>1. n \in Nat /\ 1 \in 1 .. n /\ n >= 1 OBVIOUS
  <2>. QED BY <2>1, ArraysAreSeqs DEF Arrays
<1>2. \A p \in P : p.pb \in Nat /\ p.pc \in Nat /\ p.pb <= p.pc + 1
  BY <1>1, PartingFacts
<1>3. x \in P /\ V[x] <= n
  <2>1. /\ x \in Partitions /\ x.s = s /\ x.pa = 2 /\ x.pb = 2 /\ x.pc = n /\ x.pd = n
    BY <1>1 DEF Partitions
  <2> HIDE DEF x
  <2>2. FourBands(s, 2, 2, n, n, n, v)
    <3>1. \A j \in 1 .. n : (j < 2 => j = 1) /\ ~(2 <= j /\ j < 2) /\ ~(n < j)
      BY <1>1
    <3>. QED BY <3>1 DEF FourBands
  <2>3. Rearranges(s, s, n) BY <1>1, RearrangesSelf
  <2> HIDE DEF n, v
  <2>4. x \in P BY <1>1, <2>1, <2>2, <2>3 DEF Parting
  <2>. QED BY <1>1, <2>1, <2>4
<1>4. ASSUME NEW q \in P
      PROVE  /\ f[q] \in P /\ (q.pb > q.pc => f[q] = q)
             /\ q.pb <= q.pc => (f[q].pc + 1) - f[q].pb < (q.pc + 1) - q.pb
  BY <1>1, FromBothEndsStep
<1>5. EndsBy(f, P, V)
  <2>1. V \in [P -> Nat] BY <1>2
  <2>2. ASSUME NEW p \in P PROVE f[p] \in P /\ (f[p] = p \/ V[f[p]] < V[p])
    <3> HIDE DEF f, P
    <3>1. f[p] \in P BY <1>4
    <3>2. V[p] = (p.pc + 1) - p.pb /\ V[f[p]] = (f[p].pc + 1) - f[p].pb BY <3>1
    <3> HIDE DEF V
    <3>3. p.pb \in Nat /\ p.pc \in Nat BY <1>2
    <3>4. p.pb > p.pc \/ p.pb <= p.pc BY <3>3
    <3>. QED BY <1>4, <3>1, <3>2, <3>4
  <2> HIDE DEF f, P, V
  <2>. QED BY <2>1, <2>2 DEF EndsBy
<1>6. last \in P /\ f[last] = last
  <2> HIDE DEF f, P, V, x, n
  <2>. QED BY <1>1, <1>3, <1>5, IterateEnds
<1>7. last.pb = last.pc + 1
  <2> HIDE DEF f, P, last
  <2>1. last.pb \in Nat /\ last.pc \in Nat /\ last.pb <= last.pc + 1 BY <1>2, <1>6
  <2>2. last.pb <= last.pc => (last.pc + 1) - last.pb < (last.pc + 1) - last.pb BY <1>4, <1>6
  <2>. QED BY <2>1, <2>2
<1>8. Partition(s) = last BY DEF Partition
<1>. QED BY <1>6, <1>7, <1>8

-----------------------------------------------------------------------------
(* The equal elements come to the middle.                                  *)

\* the r elements from i on have changed places with those from j on
Traded(t, s, i, j, r, n) ==
  \A k \in 1 .. n : t[k] = IF i <= k /\ k < i + r THEN s[k + (j - i)]
                           ELSE IF j <= k /\ k < j + r THEN s[k - (j - i)] ELSE s[k]

\* one more element trades places
LEMMA TradedOne ==
  ASSUME NEW n \in Nat, NEW s, NEW t \in Arrays(n), NEW w, NEW i \in Nat, NEW j \in Nat,
         NEW d \in Nat, 1 <= i, i + d < j, j + d <= n, Traded(t, s, i, j, d, n),
         Exchanged(w, t, i + d, j + d, n)
  PROVE  Traded(w, s, i, j, d + 1, n)
<1>1. i + d \in 1 .. n /\ j + d \in 1 .. n OBVIOUS
<1>2. t[i + d] = s[i + d]
  <2>1. ~(i + d < i + d) /\ ~(j <= i + d) OBVIOUS
  <2>. QED BY <1>1, <2>1 DEF Traded
<1>3. t[j + d] = s[j + d]
  <2>1. ~(j + d < i + d) /\ ~(j + d < j + d) OBVIOUS
  <2>. QED BY <1>1, <2>1 DEF Traded
<1>4. ASSUME NEW k \in 1 .. n
      PROVE  w[k] = IF i <= k /\ k < i + (d + 1) THEN s[k + (j - i)]
                    ELSE IF j <= k /\ k < j + (d + 1) THEN s[k - (j - i)] ELSE s[k]
  <2>1. CASE k = i + d
    <3>1. i <= k /\ k < i + (d + 1) /\ k + (j - i) = j + d BY <2>1
    <3>. QED BY <1>3, <2>1, <3>1 DEF Exchanged
  <2>2. CASE k = j + d
    <3>1. ~(k < i + (d + 1)) /\ j <= k /\ k < j + (d + 1) /\ k - (j - i) = i + d BY <2>2
    <3>. QED BY <1>2, <2>2, <3>1 DEF Exchanged
  <2>3. CASE k # i + d /\ k # j + d
    <3>1. (k < i + (d + 1) <=> k < i + d) /\ (k < j + (d + 1) <=> k < j + d) BY <2>3
    <3>2. w[k] = t[k] BY <2>3 DEF Exchanged
    <3>. QED BY <3>1, <3>2 DEF Traded
  <2>. QED BY <2>1, <2>2, <2>3
<1>. QED BY <1>4 DEF Traded

Trading == [s : Seq(Int), i : Nat, j : Nat, r : Nat]

LEMMA VecSwapOK ==
  ASSUME NEW n \in Nat, NEW s \in Arrays(n), NEW i \in Nat, NEW j \in Nat, NEW r \in Nat,
         1 <= i, i + r <= j, j + r <= n + 1
  PROVE  Rearranges(VecSwap(s, i, j, r), s, n) /\ Traded(VecSwap(s, i, j, r), s, i, j, r, n)
<1> DEFINE P == {q \in Trading : /\ q.r <= r /\ q.i = i + (r - q.r) /\ q.j = j + (r - q.r)
                                 /\ Rearranges(q.s, s, n) /\ Traded(q.s, s, i, j, r - q.r, n)}
           f == [q \in [s : Seq(Int), i : Nat, j : Nat, r : Nat] |->
                   IF q.r = 0 THEN q
                   ELSE [s |-> Exchange(q.s, q.i, q.j), i |-> q.i + 1, j |-> q.j + 1, r |-> q.r - 1]]
           x == [s |-> s, i |-> i, j |-> j, r |-> r]
           V == [q \in P |-> q.r]
           last == Iterate(f, x, r)
<1>0. \A q \in P : q.r \in Nat BY DEF Trading
<1>1. x \in P /\ V[x] <= r
  <2>1. x \in Trading /\ x.s = s /\ x.i = i /\ x.j = j /\ x.r = r BY ArraysAreSeqs DEF Trading
  <2> HIDE DEF x
  <2>2. Traded(s, s, i, j, 0, n)
    <3>1. \A k \in 1 .. n : ~(i <= k /\ k < i + 0) /\ ~(j <= k /\ k < j + 0) OBVIOUS
    <3>. QED BY <3>1 DEF Traded
  <2>3. r - r = 0 /\ i + 0 = i /\ j + 0 = j OBVIOUS
  <2>4. x \in P BY <2>1, <2>2, <2>3, RearrangesSelf
  <2>. QED BY <2>1, <2>4
<1>2. ASSUME NEW q \in P
      PROVE  /\ f[q] \in P /\ (q.r = 0 => f[q] = q) /\ (q.r # 0 => f[q].r = q.r - 1)
  <2>1. /\ q \in Trading /\ q.r \in Nat /\ q.r <= r /\ q.i = i + (r - q.r) /\ q.j = j + (r - q.r)
        /\ Rearranges(q.s, s, n) /\ Traded(q.s, s, i, j, r - q.r, n)
    BY DEF Trading
  <2>2. f[q] = IF q.r = 0 THEN q
               ELSE [s |-> Exchange(q.s, q.i, q.j), i |-> q.i + 1, j |-> q.j + 1, r |-> q.r - 1]
    BY <2>1 DEF Trading
  <2>3. CASE q.r = 0 BY <2>2, <2>3
  <2>4. CASE q.r # 0
    <3> DEFINE d == r - q.r
               w == Exchange(q.s, i + d, j + d)
               u == f[q]
    <3>1. d \in Nat /\ d < r /\ q.i = i + d /\ q.j = j + d /\ q.r - 1 = r - (d + 1)
          /\ q.r - 1 \in Nat /\ r - (q.r - 1) = d + 1
      BY <2>1, <2>4
    <3>2. u = [s |-> w, i |-> (i + d) + 1, j |-> (j + d) + 1, r |-> q.r - 1]
      BY <2>2, <2>4, <3>1
    <3>3. Traded(q.s, s, i, j, d, n) BY <2>1
    <3> HIDE DEF d, u, f
    <3>4. /\ i + d \in 1 .. n /\ j + d \in 1 .. n /\ i + d < j /\ j + d <= n
          /\ (i + d) + 1 = i + (d + 1) /\ (j + d) + 1 = j + (d + 1)
          /\ (i + d) + 1 \in Nat /\ (j + d) + 1 \in Nat
      BY <3>1
    <3>5. q.s \in Arrays(n) BY <2>1 DEF Rearranges
    <3>6. Exchanged(w, q.s, i + d, j + d, n) BY <3>4, <3>5, SwapArray
    <3>7. Rearranges(w, s, n)
      <4>1. Rearranges(w, q.s, n) BY <3>4, <3>5, SwapRearranges
      <4>. QED BY <2>1, <4>1, RearrangesAgain
    <3> HIDE DEF w
    <3>8. Traded(w, s, i, j, d + 1, n) BY <3>1, <3>3, <3>4, <3>5, <3>6, TradedOne
    <3>9. /\ u \in Trading /\ u.s = w /\ u.i = i + (d + 1) /\ u.j = j + (d + 1) /\ u.r = q.r - 1
      <4>1. w \in Seq(Int) BY <3>7, ArraysAreSeqs DEF Rearranges
      <4>. QED BY <3>1, <3>2, <3>4, <4>1 DEF Trading
    <3>10. u.r <= r /\ r - u.r = d + 1 BY <2>1, <3>1, <3>9
    <3>11. u \in P BY <3>7, <3>8, <3>9, <3>10
    <3>. QED BY <2>4, <3>9, <3>11 DEF u
  <2>. QED BY <2>3, <2>4
<1>3. EndsBy(f, P, V)
  <2>1. V \in [P -> Nat] BY <1>0
  <2>2. ASSUME NEW q \in P PROVE f[q] \in P /\ (f[q] = q \/ V[f[q]] < V[q])
    <3> HIDE DEF f, P
    <3>1. f[q] \in P BY <1>2
    <3>2. V[q] = q.r /\ V[f[q]] = f[q].r BY <3>1
    <3> HIDE DEF V
    <3>. QED BY <1>0, <1>2, <3>1, <3>2
  <2> HIDE DEF f, P, V
  <2>. QED BY <2>1, <2>2 DEF EndsBy
<1>4. last \in P /\ f[last] = last
  <2> HIDE DEF f, P, V, x
  <2>. QED BY <1>1, <1>3, IterateEnds
<1>5. last.r = 0
  <2> HIDE DEF f, P, last
  <2>. QED BY <1>0, <1>2, <1>4
<1>6. VecSwap(s, i, j, r) = last.s BY DEF VecSwap
<1>7. Rearranges(last.s, s, n) /\ Traded(last.s, s, i, j, r - last.r, n) BY <1>4
<1> HIDE DEF last
<1>8. r - last.r = r BY <1>5
<1>. QED BY <1>6, <1>7, <1>8

\* The equal elements come to the middle: the array is banded.
LEMMA GatherEqualOK ==
  ASSUME NEW n \in Nat, NEW s, NEW v \in Int, NEW q \in Parting(s, n, v), q.pb = q.pc + 1
  PROVE  /\ Rearranges(GatherEqual(q), s, n)
         /\ Banded(GatherEqual(q), q.pb - q.pa, n - (q.pd - q.pc), n, v)
<1> DEFINE a == q.pa
           b == q.pb
           c == q.pc
           d == q.pd
           z == q.s
           left  == Smaller(a - 1, b - a)
           right == Smaller(d - c, n - d)
           y == VecSwap(z, 1, b - left, left)
           t == VecSwap(y, b, (n + 1) - right, right)
<1>0. /\ Rearranges(z, s, n) /\ z \in Arrays(n) /\ Len(z) = n
      /\ a \in Nat /\ b \in Nat /\ c \in Nat /\ d \in Nat
      /\ 2 <= a /\ a <= b /\ b = c + 1 /\ c <= d /\ d <= n
      /\ FourBands(z, a, b, c, d, n, v)
  BY PartingFacts
<1>g. /\ Len(q.s) = n
      /\ GatherEqual(q) = LET m == Len(q.s)
                              e == Smaller(d - c, m - d)
                          IN  VecSwap(y, b, (m + 1) - e, e)
  BY <1>0 DEF GatherEqual
<1> HIDE DEF a, b, c, d, z
<1>2. /\ left \in Nat /\ left <= a - 1 /\ left <= b - a /\ (left = a - 1 \/ left = b - a)
      /\ b - left \in Nat /\ 1 + left <= b - left /\ (b - left) + left <= n + 1
      /\ right \in Nat /\ right <= d - c /\ right <= n - d /\ (right = d - c \/ right = n - d)
      /\ (n + 1) - right \in Nat /\ b + right <= (n + 1) - right
      /\ ((n + 1) - right) + right <= n + 1
  BY <1>0 DEF Smaller
<1>1. GatherEqual(q) = t
  <2> HIDE DEF y
  <2>. QED BY <1>g
<1> DEFINE j1 == b - left
           j2 == (n + 1) - right
<1>3. Rearranges(y, z, n) /\ Traded(y, z, 1, j1, left, n)
  <2>1. 1 \in Nat /\ 1 <= 1 OBVIOUS
  <2> HIDE DEF left
  <2>. QED BY <1>0, <1>2, <2>1, VecSwapOK
<1>4. y \in Arrays(n) BY <1>3 DEF Rearranges
<1> HIDE DEF y
<1>5. Rearranges(t, y, n) /\ Traded(t, y, b, j2, right, n)
  <2>1. 1 <= b BY <1>0
  <2> HIDE DEF right
  <2>. QED BY <1>0, <1>2, <1>4, <2>1, VecSwapOK
<1>6. Rearranges(t, s, n) BY <1>0, <1>3, <1>5, RearrangesAgain
<1>j. j1 = b - left /\ j2 = (n + 1) - right OBVIOUS
<1> HIDE DEF t, left, right, j1, j2
<1>7. \A k \in 1 .. n : /\ k < a => z[k] = v
                        /\ a <= k /\ k < b => z[k] < v
                        /\ c < k /\ k <= d => v < z[k]
                        /\ d < k => z[k] = v
  BY <1>0 DEF FourBands
<1>8. ASSUME NEW k \in 1 .. n
      PROVE  /\ k <= b - a => y[k] < v
             /\ b - a < k /\ k < b => y[k] = v
             /\ b <= k => y[k] = z[k]
  <2>0. y[k] = IF 1 <= k /\ k < 1 + left THEN z[k + (j1 - 1)]
               ELSE IF j1 <= k /\ k < j1 + left THEN z[k - (j1 - 1)] ELSE z[k]
    BY <1>3 DEF Traded
  <2>1. CASE k <= left
    <3>1. /\ 1 <= k /\ k < 1 + left /\ k + (j1 - 1) \in 1 .. n /\ a <= k + (j1 - 1)
          /\ k + (j1 - 1) < b /\ k <= b - a /\ ~(b - a < k) /\ ~(b <= k)
      BY <1>0, <1>2, <1>j, <2>1
    <3>2. y[k] = z[k + (j1 - 1)] BY <2>0, <3>1
    <3>3. z[k + (j1 - 1)] < v BY <1>7, <3>1
    <3>. QED BY <3>1, <3>2, <3>3
  <2>2. CASE k > left /\ j1 <= k /\ k < b
    <3>1. /\ ~(k < 1 + left) /\ k < j1 + left /\ k - (j1 - 1) \in 1 .. n
          /\ k - (j1 - 1) < a /\ ~(k <= b - a) /\ ~(b <= k)
      BY <1>0, <1>2, <1>j, <2>2
    <3>2. y[k] = z[k - (j1 - 1)] BY <2>0, <2>2, <3>1
    <3>3. z[k - (j1 - 1)] = v BY <1>7, <3>1
    <3>. QED BY <3>1, <3>2, <3>3
  <2>3. CASE k > left /\ k < j1
    <3>1. y[k] = z[k]
      <4>1. ~(k < 1 + left) /\ ~(j1 <= k) BY <1>0, <1>2, <1>j, <2>3
      <4>. QED BY <2>0, <4>1
    <3>2. ~(b <= k) BY <1>0, <1>2, <1>j, <2>3
    <3>3. CASE left = a - 1
      <4>1. a <= k /\ k < b /\ k <= b - a /\ ~(b - a < k) BY <1>0, <1>2, <1>j, <2>3, <3>3
      <4>. QED BY <1>7, <3>1, <3>2, <4>1
    <3>4. CASE left = b - a
      <4>1. k < a /\ ~(k <= b - a) BY <1>0, <1>2, <1>j, <2>3, <3>4
      <4>. QED BY <1>7, <3>1, <3>2, <4>1
    <3>. QED BY <1>2, <3>3, <3>4
  <2>4. CASE k > left /\ b <= k
    <3>1. /\ ~(k < 1 + left) /\ ~(k < j1 + left) /\ ~(k < b) /\ ~(k <= b - a)
      BY <1>0, <1>2, <1>j, <2>4
    <3>. QED BY <2>0, <3>1
  <2>. QED BY <1>0, <1>2, <1>j, <2>1, <2>2, <2>3, <2>4
<1>9. ASSUME NEW k \in 1 .. n
      PROVE  /\ k <= b - a => t[k] < v
             /\ b - a < k /\ k <= n - (d - c) => t[k] = v
             /\ n - (d - c) < k => v < t[k]
  <2>0. t[k] = IF b <= k /\ k < b + right THEN y[k + (j2 - b)]
               ELSE IF j2 <= k /\ k < j2 + right THEN y[k - (j2 - b)] ELSE y[k]
    BY <1>5 DEF Traded
  <2>1. CASE k < b
    <3>1. ~(b <= k) /\ ~(j2 <= k) /\ ~(n - (d - c) < k) BY <1>0, <1>2, <1>j, <2>1
    <3>. QED BY <1>8, <2>0, <2>1, <3>1
  <2>2. CASE b <= k /\ k < b + right
    <3>1. /\ k + (j2 - b) \in 1 .. n /\ d < k + (j2 - b) /\ b <= k + (j2 - b)
          /\ ~(k <= b - a) /\ ~(n - (d - c) < k)
      BY <1>0, <1>2, <1>j, <2>2
    <3>2. t[k] = y[k + (j2 - b)] BY <2>0, <2>2
    <3>3. y[k + (j2 - b)] = v BY <1>7, <1>8, <3>1
    <3>. QED BY <3>1, <3>2, <3>3
  <2>3. CASE b + right <= k /\ j2 <= k
    <3>1. /\ k < j2 + right /\ k - (j2 - b) \in 1 .. n /\ c < k - (j2 - b) /\ b <= k - (j2 - b)
          /\ k - (j2 - b) <= d /\ ~(k <= b - a) /\ ~(k <= n - (d - c)) /\ ~(k < b + right)
      BY <1>0, <1>2, <1>j, <2>3
    <3>2. t[k] = y[k - (j2 - b)] BY <2>0, <2>3, <3>1
    <3>3. v < y[k - (j2 - b)] BY <1>7, <1>8, <3>1
    <3>. QED BY <3>1, <3>2, <3>3
  <2>4. CASE b + right <= k /\ k < j2
    <3>1. t[k] = z[k]
      <4>1. ~(k < b + right) /\ ~(j2 <= k) /\ b <= k BY <1>0, <1>2, <1>j, <2>4
      <4>. QED BY <1>8, <2>0, <4>1
    <3>2. ~(k <= b - a) BY <1>0, <1>2, <2>4
    <3>3. CASE right = d - c
      <4>1. d < k /\ ~(n - (d - c) < k) BY <1>0, <1>2, <1>j, <2>4, <3>3
      <4>. QED BY <1>7, <3>1, <3>2, <4>1
    <3>4. CASE right = n - d
      <4>1. c < k /\ k <= d /\ ~(k <= n - (d - c)) BY <1>0, <1>2, <1>j, <2>4, <3>4
      <4>. QED BY <1>7, <3>1, <3>2, <4>1
    <3>. QED BY <1>2, <3>3, <3>4
  <2>. QED BY <1>0, <1>2, <1>j, <2>1, <2>2, <2>3, <2>4
<1>10. Banded(t, b - a, n - (d - c), n, v) BY <1>9 DEF Banded
<1>. QED BY <1>1, <1>6, <1>10 DEF a, b, c, d

-----------------------------------------------------------------------------
(* The sorted parts make a sorted whole.                                   *)

LEMMA PivotIn ==
  ASSUME NEW s, Len(s) \in Nat, Len(s) >= 7 PROVE Pivot(s) \in 1 .. Len(s)
<1> DEFINE n == Len(s)
           h == n \div 2
           d == n \div 8
<1>1. n \in Nat /\ n >= 7 OBVIOUS
<1>m. \A a, b, c \in 1 .. n : Med3(s, a, b, c) \in 1 .. n BY DEF Med3
<1>2. h \in Nat /\ 2 * h <= n /\ n <= 2 * h + 1 BY <1>1
<1>3. d \in Nat /\ 8 * d <= n /\ n <= 8 * d + 7 BY <1>1
<1>p. Pivot(s) = IF n = 7 THEN 1 + h
                 ELSE IF n <= 40 THEN Med3(s, 1, 1 + h, n)
                 ELSE Med3(s, Med3(s, 1, 1 + d, 1 + 2 * d), Med3(s, (1 + h) - d, 1 + h, (1 + h) + d),
                           Med3(s, n - 2 * d, n - d, n))
  BY DEF Pivot
<1> HIDE DEF n, h, d
<1>4. /\ 1 \in 1 .. n /\ 1 + h \in 1 .. n /\ n \in 1 .. n /\ 1 + d \in 1 .. n
      /\ 1 + 2 * d \in 1 .. n /\ (1 + h) - d \in 1 .. n /\ (1 + h) + d \in 1 .. n
      /\ n - 2 * d \in 1 .. n /\ n - d \in 1 .. n
  BY <1>1, <1>2, <1>3
<1>5. /\ Med3(s, 1, 1 + h, n) \in 1 .. n
      /\ Med3(s, 1, 1 + d, 1 + 2 * d) \in 1 .. n
      /\ Med3(s, (1 + h) - d, 1 + h, (1 + h) + d) \in 1 .. n
      /\ Med3(s, n - 2 * d, n - d, n) \in 1 .. n
  BY <1>4, <1>m
<1> DEFINE a == Med3(s, 1, 1 + d, 1 + 2 * d)
           b == Med3(s, (1 + h) - d, 1 + h, (1 + h) + d)
           c == Med3(s, n - 2 * d, n - d, n)
<1>6. Pivot(s) \in 1 .. n
  <2>1. a \in 1 .. n /\ b \in 1 .. n /\ c \in 1 .. n BY <1>5
  <2>2. Pivot(s) = IF n = 7 THEN 1 + h
                   ELSE IF n <= 40 THEN Med3(s, 1, 1 + h, n) ELSE Med3(s, a, b, c)
    BY <1>p
  <2> HIDE DEF a, b, c
  <2>3. Med3(s, a, b, c) \in 1 .. n BY <1>m, <2>1
  <2>. QED BY <1>4, <1>5, <2>2, <2>3
<1>. QED BY <1>6 DEF n

\* a permutation of the first l positions and one of those behind h make one of all
LEMMA ShufflesJoin ==
  ASSUME NEW n \in Nat, NEW l \in 0 .. n, NEW h \in l .. n, NEW p, NEW r,
         Shuffles(p, l), Shuffles(r, n - h)
  PROVE  Shuffles([k \in 1 .. n |-> IF k <= l THEN p[k] ELSE IF k <= h THEN k ELSE h + r[k - h]], n)
<1> DEFINE c == [k \in 1 .. n |-> IF k <= l THEN p[k] ELSE IF k <= h THEN k ELSE h + r[k - h]]
<1>p. /\ \A k \in 1 .. l : p[k] \in 1 .. l
      /\ \A i, j \in 1 .. l : p[i] = p[j] => i = j
      /\ \A j \in 1 .. l : \E i \in 1 .. l : p[i] = j
  BY DEF Shuffles
<1>r. /\ \A k \in 1 .. n - h : r[k] \in 1 .. n - h
      /\ \A i, j \in 1 .. n - h : r[i] = r[j] => i = j
      /\ \A j \in 1 .. n - h : \E i \in 1 .. n - h : r[i] = j
  BY DEF Shuffles
<1>1. \A k \in 1 .. n : k <= l => k \in 1 .. l /\ c[k] = p[k] /\ c[k] \in 1 .. l BY <1>p
<1>2. \A k \in 1 .. n : l < k /\ k <= h => c[k] = k OBVIOUS
<1>3. ASSUME NEW k \in 1 .. n, h < k
      PROVE  k - h \in 1 .. n - h /\ c[k] = h + r[k - h] /\ r[k - h] \in 1 .. n - h
  <2>1. k - h \in 1 .. n - h /\ ~(k <= l) /\ ~(k <= h) BY <1>3
  <2>. QED BY <1>r, <2>1
<1> HIDE DEF c
<1>4. ASSUME NEW k \in 1 .. n
      PROVE  /\ c[k] \in 1 .. n
             /\ (k <= l <=> c[k] <= l) /\ (h < k <=> h < c[k])
  <2>1. CASE k <= l BY <1>1, <2>1
  <2>2. CASE l < k /\ k <= h BY <1>2, <2>2
  <2>3. CASE h < k
    <3>1. c[k] = h + r[k - h] /\ r[k - h] \in 1 .. n - h BY <1>3, <2>3
    <3>. QED BY <2>3, <3>1
  <2>. QED BY <2>1, <2>2, <2>3
<1>5. ASSUME NEW i \in 1 .. n, NEW j \in 1 .. n, c[i] = c[j] PROVE i = j
  <2>0. (i <= l <=> j <= l) /\ (h < i <=> h < j) BY <1>4, <1>5
  <2>1. CASE i <= l
    <3>1. p[i] = p[j] /\ i \in 1 .. l /\ j \in 1 .. l BY <1>1, <1>5, <2>0, <2>1
    <3>. QED BY <1>p, <3>1
  <2>2. CASE l < i /\ i <= h BY <1>2, <1>5, <2>0, <2>2
  <2>3. CASE h < i
    <3>1. /\ c[i] = h + r[i - h] /\ c[j] = h + r[j - h] /\ i - h \in 1 .. n - h
          /\ j - h \in 1 .. n - h /\ r[i - h] \in 1 .. n - h /\ r[j - h] \in 1 .. n - h
      BY <1>3, <2>0, <2>3
    <3> DEFINE a == i - h
               b == j - h
    <3>2. a \in 1 .. n - h /\ b \in 1 .. n - h /\ h + r[a] = h + r[b] BY <1>5, <3>1
    <3>3. i = h + a /\ j = h + b OBVIOUS
    <3> HIDE DEF a, b
    <3>4. r[a] = r[b]
      <4>1. r[a] \in 1 .. n - h /\ r[b] \in 1 .. n - h BY <1>r, <3>2
      <4>. QED BY <3>2, <4>1
    <3>5. a = b BY <1>r, <3>2, <3>4
    <3>. QED BY <3>3, <3>5
  <2>. QED BY <2>1, <2>2, <2>3
<1>6. ASSUME NEW j \in 1 .. n PROVE \E i \in 1 .. n : c[i] = j
  <2>1. CASE j <= l
    <3>1. PICK i \in 1 .. l : p[i] = j BY <1>p, <2>1
    <3>2. i \in 1 .. n /\ i <= l OBVIOUS
    <3>. QED BY <1>1, <3>1, <3>2
  <2>2. CASE l < j /\ j <= h BY <1>2, <2>2
  <2>3. CASE h < j
    <3>1. j - h \in 1 .. n - h BY <2>3
    <3>2. PICK k \in 1 .. n - h : r[k] = j - h BY <1>r, <3>1
    <3>3. h + k \in 1 .. n /\ h < h + k /\ (h + k) - h = k BY <3>2
    <3>4. c[h + k] = h + r[k] BY <1>3, <3>3
    <3>5. c[h + k] = j BY <3>2, <3>4
    <3>. QED BY <3>3, <3>5
  <2>. QED BY <2>1, <2>2, <2>3
<1>7. c \in [1 .. n -> 1 .. n]
  <2>1. c = [k \in 1 .. n |-> c[k]] BY DEF c
  <2>. QED BY <1>4, <2>1
<1>. QED BY <1>5, <1>6, <1>7 DEF Shuffles, c

\* x, the elements of t from l + 1 to h, and y, one after the other
Rejoined(u, x, t, y, l, h, n) ==
  /\ u \in Seq(Int) /\ Len(u) = n
  /\ \A k \in 1 .. n : u[k] = IF k <= l THEN x[k] ELSE IF k <= h THEN t[k] ELSE y[k - h]

LEMMA JoinedParts ==
  ASSUME NEW n \in Nat, NEW l \in 0 .. n, NEW h \in l .. n, NEW t \in Arrays(n),
         NEW x \in Arrays(l), NEW y \in Arrays(n - h)
  PROVE  Rejoined(x \o SubSeq(t, l + 1, h) \o y, x, t, y, l, h, n)
<1> DEFINE m == SubSeq(t, l + 1, h)
           u == (x \o m) \o y
<1>1. x \in Seq(Int) /\ Len(x) = l BY ArraysAreSeqs
<1>2. y \in Seq(Int) /\ Len(y) = n - h
  <2>1. n - h \in Nat OBVIOUS
  <2>. QED BY <2>1, ArraysAreSeqs
<1>3. m \in Seq(Int) /\ Len(m) = h - l /\ \A i \in 1 .. h - l : m[i] = t[l + i]
  <2>1. l + 1 \in Int /\ h \in Int /\ \A i \in l + 1 .. h : t[i] \in Int BY DEF Arrays
  <2>2. /\ m \in Seq(Int)
        /\ Len(m) = IF l + 1 <= h THEN h - (l + 1) + 1 ELSE 0
        /\ \A i \in 1 .. h - (l + 1) + 1 : m[i] = t[(l + 1) + i - 1]
    BY <2>1, SubSeqProperties
  <2> HIDE DEF m
  <2>3. Len(m) = h - l BY <2>2
  <2>4. ASSUME NEW i \in 1 .. h - l PROVE m[i] = t[l + i]
    <3>1. i \in 1 .. h - (l + 1) + 1 /\ (l + 1) + i - 1 = l + i OBVIOUS
    <3>. QED BY <2>2, <3>1
  <2>. QED BY <2>2, <2>3, <2>4
<1> HIDE DEF m
<1>4. /\ x \o m \in Seq(Int) /\ Len(x \o m) = l + (h - l)
      /\ \A i \in 1 .. l + (h - l) : (x \o m)[i] = IF i <= l THEN x[i] ELSE m[i - l]
  <2>1. /\ x \o m \in Seq(Int) /\ Len(x \o m) = Len(x) + Len(m)
        /\ \A i \in 1 .. Len(x) + Len(m) :
             (x \o m)[i] = IF i <= Len(x) THEN x[i] ELSE m[i - Len(x)]
    BY <1>1, <1>3, ConcatProperties
  <2> DEFINE e == x \o m
  <2> HIDE DEF e
  <2>2. /\ e \in Seq(Int) /\ Len(e) = l + (h - l)
        /\ \A i \in 1 .. l + (h - l) : e[i] = IF i <= l THEN x[i] ELSE m[i - l]
    BY <1>1, <1>3, <2>1, Zenon DEF e
  <2>. QED BY <2>2 DEF e
<1> DEFINE w == x \o m
<1>5. /\ u \in Seq(Int) /\ Len(u) = (l + (h - l)) + (n - h)
      /\ \A i \in 1 .. (l + (h - l)) + (n - h) :
           u[i] = IF i <= l + (h - l) THEN w[i] ELSE y[i - (l + (h - l))]
  <2>0. w \in Seq(Int) /\ Len(w) = l + (h - l) BY <1>4
  <2> HIDE DEF w
  <2>1. /\ w \o y \in Seq(Int) /\ Len(w \o y) = Len(w) + Len(y)
        /\ \A i \in 1 .. Len(w) + Len(y) :
             (w \o y)[i] = IF i <= Len(w) THEN w[i] ELSE y[i - Len(w)]
    BY <1>2, <2>0, ConcatProperties
  <2> DEFINE e == w \o y
  <2> HIDE DEF e
  <2>2. /\ e \in Seq(Int) /\ Len(e) = (l + (h - l)) + (n - h)
        /\ \A i \in 1 .. (l + (h - l)) + (n - h) :
             e[i] = IF i <= l + (h - l) THEN w[i] ELSE y[i - (l + (h - l))]
    BY <1>2, <2>0, <2>1, Zenon DEF e
  <2>. QED BY <2>2, Zenon DEF e, w
<1>6. l + (h - l) = h /\ (l + (h - l)) + (n - h) = n OBVIOUS
<1> HIDE DEF u, w
<1>7. ASSUME NEW k \in 1 .. n
      PROVE  u[k] = IF k <= l THEN x[k] ELSE IF k <= h THEN t[k] ELSE y[k - h]
  <2>1. u[k] = IF k <= h THEN w[k] ELSE y[k - h] BY <1>5, <1>6
  <2>2. k <= h => w[k] = IF k <= l THEN x[k] ELSE m[k - l]
    <3>1. k <= h => k \in 1 .. h OBVIOUS
    <3>. QED BY <1>4, <1>6, <3>1 DEF w
  <2>3. l < k /\ k <= h => m[k - l] = t[k]
    <3>1. l < k /\ k <= h => k - l \in 1 .. h - l /\ l + (k - l) = k OBVIOUS
    <3>. QED BY <1>3, <3>1
  <2>. QED BY <2>1, <2>2, <2>3
<1>8. Rejoined(u, x, t, y, l, h, n) BY <1>5, <1>6, <1>7 DEF Rejoined
<1>. QED BY <1>8 DEF u, m

\* The parts of a banded array sorted each on its own make a sorted array.
LEMMA SortedParts ==
  ASSUME NEW n \in Nat, NEW l \in 0 .. n, NEW h \in l .. n, NEW t \in Arrays(n), NEW v \in Int,
         NEW x, NEW y, NEW u, Rejoined(u, x, t, y, l, h, n),
         Rearranges(x, SubSeq(t, 1, l), l), Rearranges(y, SubSeq(t, h + 1, n), n - h)
  PROVE  /\ Rearranges(u, t, n)
         /\ Banded(t, l, h, n, v) /\ Sorted(x) /\ Sorted(y) => Sorted(u)
<1>0. /\ u \in Seq(Int) /\ Len(u) = n
      /\ \A k \in 1 .. n : u[k] = IF k <= l THEN x[k] ELSE IF k <= h THEN t[k] ELSE y[k - h]
  BY DEF Rejoined
<1>t. \A k \in 1 .. n : t[k] \in Int BY DEF Arrays
<1>u. u \in Arrays(n) BY <1>0, ArraysAreSeqs
<1>x. x \in Arrays(l) /\ Len(x) = l BY ArraysAreSeqs DEF Rearranges
<1>y. y \in Arrays(n - h) /\ Len(y) = n - h BY ArraysAreSeqs DEF Rearranges
<1>1. \A i \in 1 .. l : SubSeq(t, 1, l)[i] = t[i]
  <2>1. l \in Int /\ 1 \in Int /\ \A i \in 1 .. l : t[i] \in Int BY <1>t
  <2>2. \A i \in 1 .. l - 1 + 1 : SubSeq(t, 1, l)[i] = t[1 + i - 1] BY <2>1, SubSeqProperties
  <2>3. l - 1 + 1 = l /\ \A i \in 1 .. l : 1 + i - 1 = i OBVIOUS
  <2>. QED BY <2>2, <2>3
<1>2. \A i \in 1 .. n - h : SubSeq(t, h + 1, n)[i] = t[h + i]
  <2>1. n \in Int /\ h + 1 \in Int /\ \A i \in h + 1 .. n : t[i] \in Int BY <1>t
  <2>2. \A i \in 1 .. n - (h + 1) + 1 : SubSeq(t, h + 1, n)[i] = t[(h + 1) + i - 1]
    BY <2>1, SubSeqProperties
  <2>3. n - (h + 1) + 1 = n - h /\ \A i \in 1 .. n - h : (h + 1) + i - 1 = h + i OBVIOUS
  <2>. QED BY <2>2, <2>3
<1>3. PICK p : Shuffles(p, l) /\ \A i \in 1 .. l : x[i] = SubSeq(t, 1, l)[p[i]]
  BY DEF Rearranges
<1>4. PICK r : Shuffles(r, n - h) /\ \A i \in 1 .. n - h : y[i] = SubSeq(t, h + 1, n)[r[i]]
  BY DEF Rearranges
<1>5. \A i \in 1 .. l : p[i] \in 1 .. l /\ x[i] = t[p[i]] BY <1>1, <1>3 DEF Shuffles
<1>6. \A i \in 1 .. n - h : r[i] \in 1 .. n - h /\ y[i] = t[h + r[i]]
  BY <1>2, <1>4 DEF Shuffles
<1> DEFINE c == [k \in 1 .. n |-> IF k <= l THEN p[k] ELSE IF k <= h THEN k ELSE h + r[k - h]]
<1>7. Shuffles(c, n) BY <1>3, <1>4, ShufflesJoin
<1>8. ASSUME NEW k \in 1 .. n PROVE u[k] = t[c[k]]
  <2>1. CASE k <= l
    <3>1. k \in 1 .. l /\ c[k] = p[k] BY <2>1
    <3>. QED BY <1>0, <1>5, <2>1, <3>1
  <2>2. CASE l < k /\ k <= h
    <3>1. ~(k <= l) /\ c[k] = k BY <2>2
    <3>. QED BY <1>0, <2>2, <3>1
  <2>3. CASE h < k
    <3>1. ~(k <= l) /\ ~(k <= h) /\ c[k] = h + r[k - h] /\ k - h \in 1 .. n - h BY <2>3
    <3>. QED BY <1>0, <1>6, <3>1
  <2>. QED BY <2>1, <2>2, <2>3
<1> HIDE DEF c
<1>9. Rearranges(u, t, n) BY <1>u, <1>7, <1>8 DEF Rearranges
<1>10. ASSUME Banded(t, l, h, n, v), Sorted(x), Sorted(y),
              NEW i \in 1 .. n, NEW j \in 1 .. n, i <= j
       PROVE  u[i] <= u[j]
  <2>b. \A k \in 1 .. n : /\ k <= l => t[k] < v
                          /\ l < k /\ k <= h => t[k] = v
                          /\ h < k => v < t[k]
    BY <1>10 DEF Banded
  <2>1. \A k \in 1 .. n : /\ k <= l => u[k] = x[k] /\ u[k] < v
                          /\ l < k /\ k <= h => u[k] = v
                          /\ h < k => u[k] = y[k - h] /\ v < u[k]
    <3>1. ASSUME NEW k \in 1 .. n, k <= l PROVE u[k] = x[k] /\ u[k] < v
      <4>1. k \in 1 .. l BY <3>1
      <4>2. p[k] \in 1 .. n /\ p[k] <= l /\ x[k] = t[p[k]] BY <1>5, <4>1
      <4>3. t[p[k]] < v BY <2>b, <4>2
      <4>4. u[k] = x[k] BY <1>0, <3>1
      <4>. QED BY <4>2, <4>3, <4>4
    <3>2. ASSUME NEW k \in 1 .. n, l < k, k <= h PROVE u[k] = v
      <4>1. ~(k <= l) BY <3>2
      <4>. QED BY <1>0, <2>b, <3>2, <4>1
    <3>3. ASSUME NEW k \in 1 .. n, h < k PROVE u[k] = y[k - h] /\ v < u[k]
      <4>1. k - h \in 1 .. n - h /\ ~(k <= l) /\ ~(k <= h) BY <3>3
      <4>2. h + r[k - h] \in 1 .. n /\ h < h + r[k - h] BY <1>6, <4>1
      <4>. QED BY <1>0, <1>6, <2>b, <4>1, <4>2
    <3>. QED BY <3>1, <3>2, <3>3
  <2>2. u[i] \in Int /\ u[j] \in Int BY <1>u DEF Arrays
  <2>3. CASE j <= l
    <3>1. i \in 1 .. l /\ j \in 1 .. l /\ i <= l BY <1>10, <2>3
    <3>2. x[i] <= x[j] BY <1>10, <1>x, <3>1 DEF Sorted
    <3>. QED BY <2>1, <2>3, <3>1, <3>2
  <2>4. CASE h < i
    <3>1. i - h \in 1 .. n - h /\ j - h \in 1 .. n - h /\ i - h <= j - h /\ h < j BY <1>10, <2>4
    <3>2. y[i - h] <= y[j - h] BY <1>10, <1>y, <3>1 DEF Sorted
    <3>. QED BY <2>1, <2>4, <3>1, <3>2
  <2>5. CASE l < j /\ i <= h
    <3>1. u[i] <= v
      <4>1. i <= l \/ (l < i /\ i <= h) BY <2>5
      <4>. QED BY <2>1, <2>2, <4>1
    <3>2. v <= u[j]
      <4>1. h < j \/ (l < j /\ j <= h) BY <2>5
      <4>. QED BY <2>1, <2>2, <4>1
    <3>. QED BY <2>2, <3>1, <3>2
  <2>. QED BY <2>3, <2>4, <2>5
<1>. QED BY <1>0, <1>9, <1>10 DEF Sorted

-----------------------------------------------------------------------------
(* One turn of quicksort, whatever its recursive calls do so long as they sort;
   then all of it, by induction on the depth limit.                        *)

\* what quicksort does of s beyond its recursive calls: t is cut into three parts
Cuts(s, t, l, h) ==
  \A sort :
    Quick(sort, s) = Part(sort, SubSeq(t, 1, l)) \o SubSeq(t, l + 1, h)
                            \o Part(sort, SubSeq(t, h + 1, Len(s)))

\* ... or it finds it sorted after a few exchanges
Finds(s, t) == Sorted(t) /\ \A sort : Quick(sort, s) = t

LEMMA QuickCuts ==
  ASSUME NEW s \in Seq(Int), Len(s) >= 7
  PROVE  \E t : /\ Rearranges(t, s, Len(s))
                /\ \/ Finds(s, t)
                   \/ \E l \in 0 .. Len(s) : \E h \in l .. Len(s) : \E v \in Int :
                        Banded(t, l, h, Len(s), v) /\ Cuts(s, t, l, h)
<1> DEFINE n == Len(s)
           z == Exchange(s, 1, Pivot(s))
           q == Partition(z)
           whole == GatherEqual(q)
           r == 1 + (n \div 4)
           once == Insertion(whole, r)
           t == IF q.swapped THEN whole ELSE once.s
           l == q.pb - q.pa
           e == q.pd - q.pc
           h == n - e
<1>1. n \in Nat /\ n >= 7 /\ s \in Arrays(n) /\ r \in Nat BY ArraysAreSeqs
<1>2. Pivot(s) \in 1 .. n /\ 1 \in 1 .. n BY <1>1, PivotIn
<1>3. Rearranges(z, s, n) BY <1>1, <1>2, SwapRearranges
<1>4. z \in Seq(Int) /\ Len(z) = n /\ Len(z) >= 1 /\ z \in Arrays(n)
  BY <1>1, <1>3, ArraysAreSeqs DEF Rearranges
<1> DEFINE v == z[1]
<1>5. v \in Int BY <1>2, <1>4 DEF Arrays
<1>6. q \in Parting(z, n, v) /\ q.pb = q.pc + 1 BY <1>4, PartitionOK
<1>7. /\ q.pa \in Nat /\ q.pb \in Nat /\ q.pc \in Nat /\ q.pd \in Nat
      /\ 2 <= q.pa /\ q.pa <= q.pb /\ q.pb = q.pc + 1 /\ q.pc <= q.pd /\ q.pd <= n
      /\ q.swapped \in BOOLEAN
  <2>1. q \in Partitions BY <1>1, <1>5, <1>6, PartingFacts
  <2>2. q.swapped \in BOOLEAN BY <2>1 DEF Partitions
  <2>. QED BY <1>1, <1>5, <1>6, <2>2, PartingFacts
<1>8. Rearranges(whole, z, n) /\ Banded(whole, l, h, n, v)
  BY <1>1, <1>5, <1>6, GatherEqualOK
<1>9. l \in 0 .. n /\ h \in l .. n /\ n - h = e
  <2>1. l \in Nat /\ l <= q.pc
    <3> DEFINE a == q.pa
               b == q.pb
               c == q.pc
    <3>1. a \in Nat /\ b \in Nat /\ c \in Nat /\ 2 <= a /\ a <= b /\ b = c + 1 /\ l = b - a
      BY <1>7
    <3> HIDE DEF a, b
    <3>2. l = b - a BY <3>1
    <3> HIDE DEF l, c
    <3>3. l \in Nat /\ l <= c BY <3>1, <3>2
    <3>. QED BY <3>3 DEF c
  <2>2. e \in Nat /\ q.pc + e = q.pd /\ e <= n
    <3> HIDE DEF q, n
    <3>1. q.pc \in Nat /\ q.pd \in Nat /\ q.pc <= q.pd /\ q.pd <= n /\ n \in Nat BY <1>1, <1>7
    <3>. QED BY <3>1
  <2>3. q.pc \in Nat /\ q.pd <= n /\ q.pd \in Nat BY <1>7
  <2> HIDE DEF l, e, q, n
  <2>4. n - e \in Nat /\ l <= n - e /\ n - e <= n /\ l <= n /\ n - (n - e) = e
    BY <1>1, <2>1, <2>2, <2>3
  <2> DEFINE m == n - e
  <2>5. m \in Nat /\ l <= m /\ m <= n /\ l <= n /\ n - m = e BY <2>4
  <2>6. h = m OBVIOUS
  <2> HIDE DEF m
  <2>7. l \in 0 .. n /\ m \in l .. n BY <1>1, <2>1, <2>5
  <2> HIDE DEF h
  <2>. QED BY <2>5, <2>6, <2>7
<1>10. Rearranges(whole, s, n) BY <1>1, <1>3, <1>8, RearrangesAgain
<1> HIDE DEF whole
<1>11. whole \in Seq(Int) /\ Len(whole) = n BY <1>1, <1>10, ArraysAreSeqs DEF Rearranges
<1>12. /\ once \in Insertions /\ Rearranges(once.s, whole, n) /\ KeepsBands(once.s, whole, n)
       /\ once.swaps <= r => Sorted(once.s)
  BY <1>1, <1>11, InsertionOK
<1>13. Rearranges(once.s, s, n) BY <1>1, <1>10, <1>12, RearrangesAgain
<1>14. Banded(once.s, l, h, n, v)
  <2>1. l \in 0 .. n /\ h \in 0 .. n BY <1>1, <1>9
  <2> HIDE DEF l, h, v, once
  <2>. QED BY <1>5, <1>8, <1>12, <2>1 DEF KeepsBands
<1>15. \A sort :
         Quick(sort, s) =
           IF ~q.swapped /\ once.swaps <= r THEN once.s
           ELSE Part(sort, SubSeq(t, 1, l)) \o SubSeq(t, l + 1, n - e)
                \o Part(sort, SubSeq(t, (n - e) + 1, n))
  BY DEF Quick, whole
<1>16. CASE ~q.swapped /\ once.swaps <= r
  <2>1. Finds(s, once.s) BY <1>12, <1>15, <1>16 DEF Finds
  <2>. QED BY <1>13, <2>1
<1>17. CASE ~(~q.swapped /\ once.swaps <= r)
  <2>1. Rearranges(t, s, n) /\ Banded(t, l, h, n, v) BY <1>8, <1>10, <1>13, <1>14
  <2>2. Cuts(s, t, l, h) BY <1>15, <1>17 DEF Cuts
  <2> HIDE DEF t, l, h, v, n
  <2>3. \E a \in 0 .. n : \E b \in a .. n : \E c \in Int : Banded(t, a, b, n, c) /\ Cuts(s, t, a, b)
    BY <1>5, <1>9, <2>1, <2>2
  <2>. QED BY <2>1, <2>3 DEF n
<1>. QED BY <1>16, <1>17

\* r is what sorting x should give: with no memory for heapsort, at least the same elements
AsSorted(r, x, memory) == Rearranges(r, x, Len(x)) /\ (memory => Sorted(r))

LEMMA PartDone ==
  ASSUME NEW memory \in BOOLEAN, NEW sort, NEW x \in Seq(Int),
         AsSorted(sort[x], x, memory)
  PROVE  AsSorted(Part(sort, x), x, memory)
<1>1. CASE Len(x) > 1 BY <1>1 DEF Part
<1>2. CASE ~(Len(x) > 1)
  <2>1. Len(x) \in Nat /\ x \in Arrays(Len(x)) BY ArraysAreSeqs
  <2>2. Sorted(x) BY <1>2, <2>1 DEF Sorted, Arrays
  <2>. QED BY <1>2, <2>1, <2>2, RearrangesSelf DEF AsSorted, Part
<1>. QED BY <1>1, <1>2

LEMMA QuickOK ==
  ASSUME NEW s \in Seq(Int), Len(s) >= 7, NEW memory \in BOOLEAN, NEW sort,
         \A x \in Seq(Int) : AsSorted(sort[x], x, memory)
  PROVE  AsSorted(Quick(sort, s), s, memory)
<1> DEFINE n == Len(s)
<1>1. n \in Nat /\ s \in Arrays(n) BY ArraysAreSeqs
<1>2. PICK t : /\ Rearranges(t, s, n)
               /\ \/ Finds(s, t)
                  \/ \E l \in 0 .. n : \E h \in l .. n : \E v \in Int :
                       Banded(t, l, h, n, v) /\ Cuts(s, t, l, h)
  BY QuickCuts
<1>3. CASE Finds(s, t) BY <1>2, <1>3 DEF Finds, AsSorted
<1>4. CASE \E l \in 0 .. n : \E h \in l .. n : \E v \in Int :
             Banded(t, l, h, n, v) /\ Cuts(s, t, l, h)
  <2>1. PICK l \in 0 .. n, h \in 0 .. n, v \in Int :
               l <= h /\ Banded(t, l, h, n, v) /\ Cuts(s, t, l, h)
    <3>1. \A l \in 0 .. n : \A h \in l .. n : h \in 0 .. n /\ l <= h BY <1>1
    <3>. QED BY <1>4, <3>1
  <2>2. t \in Arrays(n) /\ \A k \in 1 .. n : t[k] \in Int BY <1>2 DEF Rearranges, Arrays
  <2> DEFINE a == SubSeq(t, 1, l)
             b == SubSeq(t, h + 1, n)
             x == Part(sort, a)
             y == Part(sort, b)
             u == x \o SubSeq(t, l + 1, h) \o y
  <2> HIDE DEF n
  <2>3. a \in Seq(Int) /\ Len(a) = l
    <3>1. l \in Int /\ 1 \in Int /\ \A i \in 1 .. l : t[i] \in Int BY <1>1, <2>2
    <3>2. a \in Seq(Int) /\ Len(a) = IF 1 <= l THEN l - 1 + 1 ELSE 0 BY <3>1, SubSeqProperties
    <3>. QED BY <3>2
  <2>4. b \in Seq(Int) /\ Len(b) = n - h
    <3>1. n \in Int /\ h + 1 \in Int /\ \A i \in h + 1 .. n : t[i] \in Int BY <1>1, <2>2
    <3>2. b \in Seq(Int) /\ Len(b) = IF h + 1 <= n THEN n - (h + 1) + 1 ELSE 0
      BY <3>1, SubSeqProperties
    <3>. QED BY <1>1, <3>2
  <2>5. AsSorted(x, a, memory) BY <2>3, PartDone
  <2>6. AsSorted(y, b, memory) BY <2>4, PartDone
  <2> HIDE DEF x, y
  <2>7. Rearranges(x, a, l) /\ Rearranges(y, b, n - h) BY <2>3, <2>4, <2>5, <2>6 DEF AsSorted
  <2>8. h \in l .. n BY <1>1, <2>1
  <2>9. Rejoined(u, x, t, y, l, h, n)
    <3>1. x \in Arrays(l) /\ y \in Arrays(n - h) BY <2>7 DEF Rearranges
    <3>. QED BY <1>1, <2>2, <2>8, <3>1, JoinedParts
  <2> HIDE DEF u
  <2>10. /\ Rearranges(u, t, n)
         /\ Banded(t, l, h, n, v) /\ Sorted(x) /\ Sorted(y) => Sorted(u)
    BY <1>1, <2>2, <2>7, <2>8, <2>9, SortedParts
  <2>11. Rearranges(u, s, n) BY <1>1, <1>2, <2>10, RearrangesAgain
  <2>12. memory => Sorted(u) BY <2>1, <2>5, <2>6, <2>10 DEF AsSorted
  <2>13. Quick(sort, s) = u BY <2>1 DEF Cuts, u, x, y, n
  <2>. QED BY <2>11, <2>12, <2>13 DEF AsSorted, n
<1>. QED BY <1>2, <1>3, <1>4

\* Quicksort asks sort for parts of s only, and gives a sequence.
LEMMA QuickAsks ==
  ASSUME NEW s \in Seq(Int), Len(s) >= 7, NEW sort, NEW other,
         \A x \in Seq(Int) : sort[x] \in Seq(Int)
  PROVE  /\ Quick(sort, s) \in Seq(Int)
         /\ (\A x \in Seq(Int) : other[x] = sort[x])
            => Quick(other, s) = Quick(sort, s)
<1> DEFINE n == Len(s)
<1>1. n \in Nat BY LenProperties
<1>2. PICK t : /\ Rearranges(t, s, n)
               /\ \/ Finds(s, t)
                  \/ \E l \in 0 .. n : \E h \in l .. n : \E v \in Int :
                       Banded(t, l, h, n, v) /\ Cuts(s, t, l, h)
  BY QuickCuts
<1>3. t \in Seq(Int) BY <1>1, <1>2, ArraysAreSeqs DEF Rearranges
<1>4. CASE Finds(s, t) BY <1>3, <1>4 DEF Finds
<1>5. CASE \E l \in 0 .. n : \E h \in l .. n : \E v \in Int :
             Banded(t, l, h, n, v) /\ Cuts(s, t, l, h)
  <2>1. PICK l \in 0 .. n, h \in 0 .. n : Cuts(s, t, l, h)
    <3>1. \A l \in 0 .. n : \A h \in l .. n : h \in 0 .. n BY <1>1
    <3>. QED BY <1>5, <3>1
  <2>2. t \in Arrays(n) /\ \A k \in 1 .. n : t[k] \in Int BY <1>2 DEF Rearranges, Arrays
  <2> DEFINE a == SubSeq(t, 1, l)
             m == SubSeq(t, l + 1, h)
             b == SubSeq(t, h + 1, n)
  <2>3. a \in Seq(Int) /\ m \in Seq(Int) /\ b \in Seq(Int)
    <3>1. \A i \in 1 .. l : t[i] \in Int BY <1>1, <2>2
    <3>2. \A i \in l + 1 .. h : t[i] \in Int BY <1>1, <2>2
    <3>3. \A i \in h + 1 .. n : t[i] \in Int BY <1>1, <2>2
    <3>4. l \in Int /\ h \in Int /\ n \in Int /\ l + 1 \in Int /\ h + 1 \in Int /\ 1 \in Int
      BY <1>1
    <3>. QED BY <3>1, <3>2, <3>3, <3>4, SubSeqProperties
  <2>4. Quick(sort, s) = Part(sort, a) \o m \o Part(sort, b)
    BY <2>1 DEF Cuts
  <2>5. Quick(other, s) = Part(other, a) \o m \o Part(other, b)
    BY <2>1 DEF Cuts
  <2> HIDE DEF a, m, b
  <2>6. Part(sort, a) \in Seq(Int) /\ Part(sort, b) \in Seq(Int)
    BY <2>3 DEF Part
  <2>7. Quick(sort, s) \in Seq(Int)
    <3> DEFINE x == Part(sort, a)
               y == Part(sort, b)
    <3>0. x \in Seq(Int) /\ y \in Seq(Int) BY <2>6
    <3> HIDE DEF x, y
    <3>1. x \o m \in Seq(Int) BY <2>3, <3>0, ConcatProperties
    <3>2. (x \o m) \o y \in Seq(Int) BY <3>0, <3>1, ConcatProperties
    <3>. QED BY <2>4, <3>2 DEF x, y
  <2>8. ASSUME \A x \in Seq(Int) : other[x] = sort[x]
        PROVE  Part(other, a) = Part(sort, a)
               /\ Part(other, b) = Part(sort, b)
    BY <2>3, <2>8 DEF Part
  <2>. QED BY <2>4, <2>5, <2>7, <2>8
<1>. QED BY <1>2, <1>4, <1>5

\* what a call that may nest to a depth above the limit does, sort being what its calls do
Turn(sort) ==
  [s \in Seq(Int) |-> IF Len(s) < 7 THEN Insertion(s, Len(s) * Len(s)).s ELSE Quick(sort, s)]

Limit0(memory) == [s \in Seq(Int) |-> HeapSort(s, memory)]

\* the sorting functions, for every depth
IsSort(sort, memory) ==
  sort = [depth \in Int |-> [s \in Seq(Int) |->
            IF depth <= 0 THEN HeapSort(s, memory)
            ELSE IF Len(s) < 7 THEN Insertion(s, Len(s) * Len(s)).s
            ELSE Quick(sort[depth - 1], s)]]

LEMMA ShortOK ==
  ASSUME NEW s \in Seq(Int), NEW memory \in BOOLEAN
  PROVE  AsSorted(Insertion(s, Len(s) * Len(s)).s, s, memory)
<1>1. Len(s) * Len(s) \in Nat BY LenProperties
<1>. QED BY <1>1, InsertionOK DEF AsSorted

LEMMA TurnGivesSequences ==
  ASSUME NEW sort \in [Seq(Int) -> Seq(Int)] PROVE Turn(sort) \in [Seq(Int) -> Seq(Int)]
<1>1. ASSUME NEW s \in Seq(Int)
      PROVE  (IF Len(s) < 7 THEN Insertion(s, Len(s) * Len(s)).s ELSE Quick(sort, s)) \in Seq(Int)
  <2>0. Len(s) \in Nat BY LenProperties
  <2>1. CASE Len(s) < 7
    <3>1. Rearranges(Insertion(s, Len(s) * Len(s)).s, s, Len(s)) BY ShortOK DEF AsSorted
    <3>2. Insertion(s, Len(s) * Len(s)).s \in Seq(Int) BY <2>0, <3>1, ArraysAreSeqs DEF Rearranges
    <3>. QED BY <2>1, <3>2
  <2>2. CASE ~(Len(s) < 7)
    <3>1. Len(s) >= 7 BY <2>0, <2>2
    <3>2. \A x \in Seq(Int) : sort[x] \in Seq(Int) OBVIOUS
    <3>3. Quick(sort, s) \in Seq(Int) BY <3>1, <3>2, QuickAsks
    <3>. QED BY <2>2, <3>3
  <2>. QED BY <2>1, <2>2
<1>. QED BY <1>1 DEF Turn

LEMMA Limit0GivesSequences ==
  ASSUME NEW memory \in BOOLEAN PROVE Limit0(memory) \in [Seq(Int) -> Seq(Int)]
<1>1. ASSUME NEW s \in Seq(Int) PROVE HeapSort(s, memory) \in Seq(Int)
  <2>1. Len(s) \in Nat /\ Rearranges(HeapSort(s, memory), s, Len(s))
    BY HeapSortSorts, LenProperties
  <2>. QED BY <2>1, ArraysAreSeqs DEF Rearranges
<1>. QED BY <1>1 DEF Limit0

\* The recursion of _qsort is well defined: it ends at the depth limit.
LEMMA SortExists ==
  ASSUME NEW memory \in BOOLEAN PROVE \E sort : IsSort(sort, memory)
<1> DEFINE F == [Seq(Int) -> Seq(Int)]
           f == [sort \in F |-> Turn(sort)]
           It(k) == Iterate(f, Limit0(memory), k)
           sort == [depth \in Int |-> IF depth <= 0 THEN Limit0(memory) ELSE It(depth)]
<1>1. Limit0(memory) \in F /\ \A q \in F : f[q] \in F
  BY TurnGivesSequences, Limit0GivesSequences
<1>2. \A k \in Nat : It(k) \in F
  <2> HIDE DEF F, f
  <2>. QED BY <1>1, IterateKeeps
<1>3. It(0) = Limit0(memory) /\ \A k \in Nat : It(k + 1) = Turn(It(k))
  <2>1. \A k \in Nat : It(k + 1) = f[It(k)]
    <3> HIDE DEF f
    <3>. QED BY IterateStep
  <2>2. It(0) = Limit0(memory)
    <3>1. 0 \in Nat OBVIOUS
    <3> HIDE DEF f
    <3>. QED BY <3>1, IterateStep
  <2> HIDE DEF It
  <2>3. \A k \in Nat : f[It(k)] = Turn(It(k)) BY <1>2
  <2>. QED BY <2>1, <2>2, <2>3
<1> HIDE DEF F, f, It
<1>4. ASSUME NEW depth \in Int
      PROVE  sort[depth] = [s \in Seq(Int) |->
                              IF depth <= 0 THEN HeapSort(s, memory)
                              ELSE IF Len(s) < 7 THEN Insertion(s, Len(s) * Len(s)).s
                              ELSE Quick(sort[depth - 1], s)]
  <2>1. CASE depth <= 0 BY <2>1 DEF Limit0
  <2>2. CASE ~(depth <= 0)
    <3>1. depth - 1 \in Nat /\ (depth - 1) + 1 = depth /\ depth - 1 \in Int BY <2>2
    <3>2. sort[depth] = It(depth) BY <2>2
    <3>3. sort[depth - 1] = It(depth - 1)
      <4>1. CASE depth = 1
        <5>1. sort[0] = Limit0(memory) OBVIOUS
        <5>2. depth - 1 = 0 BY <4>1
        <5>. QED BY <1>3, <5>1, <5>2
      <4>2. CASE depth # 1
        <5>1. ~(depth - 1 <= 0) BY <2>2, <4>2
        <5>. QED BY <3>1, <5>1
      <4>. QED BY <4>1, <4>2
    <3>4. It(depth) = Turn(It(depth - 1)) BY <1>3, <3>1
    <3> HIDE DEF sort
    <3>5. sort[depth] = Turn(sort[depth - 1]) BY <3>2, <3>3, <3>4
    <3>. QED BY <2>2, <3>5 DEF Turn
  <2>. QED BY <2>1, <2>2
<1>5. sort = [depth \in Int |-> sort[depth]] OBVIOUS
<1> HIDE DEF sort
<1>6. IsSort(sort, memory) BY <1>4, <1>5 DEF IsSort
<1>. QED BY <1>6

LEMMA QSortToIs ==
  ASSUME NEW memory \in BOOLEAN PROVE IsSort(QSortTo(memory), memory)
<1> DEFINE sort == CHOOSE q : IsSort(q, memory)
<1>1. IsSort(sort, memory)
  <2>1. \E q : IsSort(q, memory) BY SortExists
  <2>. QED BY <2>1, Zenon
<1>2. QSortTo(memory) = sort BY DEF QSortTo, IsSort
<1>. QED BY <1>1, <1>2

\* Whatever the depth limit, quicksort loses no element, and sorts unless heapsort finds no
\* memory (qsort.c).
THEOREM QSortToSorts ==
  ASSUME NEW memory \in BOOLEAN, NEW depth \in Int, NEW s \in Seq(Int)
  PROVE  /\ Rearranges(QSortTo(memory)[depth][s], s, Len(s))
         /\ memory => Sorted(QSortTo(memory)[depth][s])
<1> DEFINE sort == QSortTo(memory)
           Right(d) == \A x \in Seq(Int) : AsSorted(sort[d][x], x, memory)
           T == {k \in Nat : Right(k)}
<1>1. \A d \in Int : sort[d] = [x \in Seq(Int) |->
                          IF d <= 0 THEN HeapSort(x, memory)
                          ELSE IF Len(x) < 7 THEN Insertion(x, Len(x) * Len(x)).s
                          ELSE Quick(sort[d - 1], x)]
  <2> HIDE DEF sort
  <2>1. IsSort(sort, memory) BY QSortToIs DEF sort
  <2>. QED BY <2>1 DEF IsSort
<1> HIDE DEF sort
<1>2. \A d \in Int : d <= 0 => Right(d)
  <2>1. ASSUME NEW d \in Int, d <= 0, NEW x \in Seq(Int) PROVE AsSorted(sort[d][x], x, memory)
    <3>1. sort[d][x] = HeapSort(x, memory) BY <1>1, <2>1
    <3>. QED BY <3>1, HeapSortSorts DEF AsSorted
  <2>. QED BY <2>1
<1>3. 0 \in T BY <1>2
<1>4. ASSUME NEW k \in T PROVE k + 1 \in T
  <2>1. k \in Nat /\ k + 1 \in Int /\ (k + 1) - 1 = k /\ ~(k + 1 <= 0) /\ Right(k) OBVIOUS
  <2>2. ASSUME NEW x \in Seq(Int) PROVE AsSorted(sort[k + 1][x], x, memory)
    <3>1. sort[k + 1][x] = IF Len(x) < 7 THEN Insertion(x, Len(x) * Len(x)).s ELSE Quick(sort[k], x)
      <4> DEFINE d == k + 1
      <4>1. d \in Int /\ ~(d <= 0) /\ d - 1 = k BY <2>1
      <4> HIDE DEF d
      <4>2. sort[d][x] = IF d <= 0 THEN HeapSort(x, memory)
                         ELSE IF Len(x) < 7 THEN Insertion(x, Len(x) * Len(x)).s
                         ELSE Quick(sort[d - 1], x)
        BY <1>1, <4>1
      <4>. QED BY <4>1, <4>2 DEF d
    <3>2. CASE Len(x) < 7 BY <3>1, <3>2, ShortOK
    <3>3. CASE ~(Len(x) < 7)
      <4>1. Len(x) >= 7 BY <3>3, LenProperties
      <4>2. AsSorted(Quick(sort[k], x), x, memory) BY <2>1, <4>1, QuickOK
      <4>. QED BY <3>1, <3>3, <4>2
    <3>. QED BY <3>2, <3>3
  <2>. QED BY <2>1, <2>2
<1>5. T \subseteq Nat OBVIOUS
<1> HIDE DEF T
<1>6. T = Nat BY <1>3, <1>4, <1>5, SetInduction
<1>7. Right(depth)
  <2>1. CASE depth <= 0 BY <1>2, <2>1
  <2>2. CASE ~(depth <= 0)
    <3>1. depth \in T BY <1>6, <2>2
    <3>. QED BY <3>1 DEF T
  <2>. QED BY <2>1, <2>2
<1>8. AsSorted(sort[depth][s], s, memory) BY <1>7
<1>. QED BY <1>8 DEF AsSorted, sort
=============================================================================

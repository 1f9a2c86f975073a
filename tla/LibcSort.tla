------------------------------ MODULE LibcSort ------------------------------
(***************************************************************************)
(* The sorting and searching of examples/libc/stdlib: qsort (Bentley and   *)
(* McIlroy's quicksort, with a depth limit below which it hands over to    *)
(* heapsort), heapsort and bsearch.  An array is a sequence of integers,   *)
(* compared by their difference; positions are indices of that sequence    *)
(* instead of addresses, so one element stands for es bytes, and swapping  *)
(* by long or by char is the same exchange.  Part of an array that is      *)
(* sorted on its own is a sequence of its own.  A loop is a function from  *)
(* the values of its variables to those after one pass (see Loops); it is  *)
(* applied as often as it can take to end.                                 *)
(***************************************************************************)
EXTENDS Integers, Sequences, Loops

Exchange(s, i, j) == [s EXCEPT ![i] = s[j], ![j] = s[i]]

\* the r elements from i on change places with those from j on
VecSwap(s, i, j, r) ==
  Iterate([q \in [s : Seq(Int), i : Nat, j : Nat, r : Nat] |->
             IF q.r = 0 THEN q
             ELSE [s |-> Exchange(q.s, q.i, q.j), i |-> q.i + 1, j |-> q.j + 1, r |-> q.r - 1]],
          [s |-> s, i |-> i, j |-> j, r |-> r], r).s

Smaller(a, b) == IF a < b THEN a ELSE b

(***************************************************************************)
(* heapsort: the first n elements are built into a heap; then the largest  *)
(* goes to the end, the hole it leaves moves down to a leaf (Descend) and  *)
(* up again to the place of the displaced element k (Ascend).              *)
(***************************************************************************)
Cursors == [s : Seq(Int), i : Nat]

\* Mutant: the last of an even number of children is never looked at.
BugLargerChild(s, i, n) == IF 2 * i < n - 1 /\ s[2 * i] < s[2 * i + 1] THEN 2 * i + 1 ELSE 2 * i

LargerChild(s, i, n) == IF 2 * i < n /\ s[2 * i] < s[2 * i + 1] THEN 2 * i + 1 ELSE 2 * i

SiftDown(n) ==
  [q \in Cursors |->
     LET c == LargerChild(q.s, q.i, n)
     IN  IF 2 * q.i > n \/ q.s[c] <= q.s[q.i] THEN q ELSE [s |-> Exchange(q.s, q.i, c), i |-> c]]

CreateHeap(s, i, n) == Iterate(SiftDown(n), [s |-> s, i |-> i], n).s

Descend(n) ==
  [q \in Cursors |->
     LET c == LargerChild(q.s, q.i, n)
     IN  IF 2 * q.i > n THEN q ELSE [s |-> [q.s EXCEPT ![q.i] = q.s[c]], i |-> c]]

\* no hole is left (0) once k has its place
Ascend(k) ==
  [q \in Cursors |->
     LET par == q.i \div 2
     IN  IF q.i = 0 THEN q
         ELSE IF q.i = 1 \/ k < q.s[par] THEN [s |-> [q.s EXCEPT ![q.i] = k], i |-> 0]
         ELSE [s |-> [q.s EXCEPT ![q.i] = q.s[par]], i |-> par]]

Select(s, n, k) == Iterate(Ascend(k), Iterate(Descend(n), [s |-> s, i |-> 1], n), n).s

Build(n) ==
  [q \in Cursors |-> IF q.i = 0 THEN q ELSE [s |-> CreateHeap(q.s, q.i, n), i |-> q.i - 1]]

Extract ==
  [q \in Cursors |->
     IF q.i <= 1 THEN q
     ELSE [s |-> Select([q.s EXCEPT ![q.i] = q.s[1]], q.i - 1, q.s[q.i]), i |-> q.i - 1]]

\* memory: whether malloc finds room for the one element heapsort sets aside
HeapSort(s, memory) ==
  LET n == Len(s)
      heap == Iterate(Build(n), [s |-> s, i |-> n \div 2], n).s
  IN  IF n <= 1 \/ ~memory THEN s ELSE Iterate(Extract, [s |-> heap, i |-> n], n).s

(***************************************************************************)
(* Insertion sort, which gives up after r + 1 exchanges: for a run that    *)
(* partitioning found in order already.                                    *)
(***************************************************************************)
Insertions == [s : Seq(Int), p : Nat, swaps : Nat]

Sink(r) ==
  [t \in Insertions |->
     IF t.p = 1 \/ t.swaps > r \/ t.s[t.p - 1] <= t.s[t.p] THEN t
     ELSE [s |-> Exchange(t.s, t.p, t.p - 1), p |-> t.p - 1, swaps |-> t.swaps + 1]]

InsertNext(r) ==
  [t \in Insertions |->
     IF t.p > Len(t.s) THEN t ELSE [Iterate(Sink(r), t, t.p) EXCEPT !.p = t.p + 1]]

Insertion(s, r) == Iterate(InsertNext(r), [s |-> s, p |-> 2, swaps |-> 0], Len(s))

Med3(s, a, b, c) ==
  IF s[a] < s[b]
  THEN IF s[b] < s[c] THEN b ELSE IF s[a] < s[c] THEN c ELSE a
  ELSE IF s[b] > s[c] THEN b ELSE IF s[a] < s[c] THEN a ELSE c

Pivot(s) ==
  LET n  == Len(s)
      pm == 1 + (n \div 2)
      d  == n \div 8
  IN  IF n = 7 THEN pm
      ELSE IF n <= 40 THEN Med3(s, 1, pm, n)
      ELSE Med3(s, Med3(s, 1, 1 + d, 1 + 2 * d), Med3(s, pm - d, pm, pm + d),
                Med3(s, n - 2 * d, n - d, n))

(***************************************************************************)
(* Partitioning around the first element: those equal to it gather before  *)
(* pa and behind pd, the smaller ones before pb, the larger ones behind pc.*)
(***************************************************************************)
Partitions == [s : Seq(Int), pa : Nat, pb : Nat, pc : Nat, pd : Nat, swapped : BOOLEAN]

FromLeft ==
  [q \in Partitions |->
     IF q.pb > q.pc \/ q.s[q.pb] > q.s[1] THEN q
     ELSE IF q.s[q.pb] < q.s[1] THEN [q EXCEPT !.pb = @ + 1]
     ELSE [q EXCEPT !.s = Exchange(@, q.pa, q.pb), !.swapped = TRUE, !.pa = @ + 1, !.pb = @ + 1]]

FromRight ==
  [q \in Partitions |->
     IF q.pb > q.pc \/ q.s[q.pc] < q.s[1] THEN q
     ELSE IF q.s[q.pc] > q.s[1] THEN [q EXCEPT !.pc = @ - 1]
     ELSE [q EXCEPT !.s = Exchange(@, q.pc, q.pd), !.swapped = TRUE, !.pd = @ - 1, !.pc = @ - 1]]

FromBothEnds ==
  [q \in Partitions |->
     LET n == Len(q.s)
         p == Iterate(FromRight, Iterate(FromLeft, q, n), n)
     IN  IF p.pb > p.pc THEN p
         ELSE [p EXCEPT !.s = Exchange(@, p.pb, p.pc), !.swapped = TRUE,
                        !.pb = @ + 1, !.pc = @ - 1]]

Partition(s) ==
  LET n == Len(s)
  IN  Iterate(FromBothEnds,
              [s |-> s, pa |-> 2, pb |-> 2, pc |-> n, pd |-> n, swapped |-> FALSE], n)

\* the equal ones come from both ends to the middle
GatherEqual(q) ==
  LET n     == Len(q.s)
      left  == Smaller(q.pa - 1, q.pb - q.pa)
      right == Smaller(q.pd - q.pc, n - q.pd)
  IN  VecSwap(VecSwap(q.s, 1, q.pb - left, left), q.pb, (n + 1) - right, right)

(***************************************************************************)
(* One call of _qsort, or one turn of its loop, above the depth limit:     *)
(* sort is what the calls it makes for the two parts do.                   *)
(***************************************************************************)
Part(sort, s) == IF Len(s) > 1 THEN sort[s] ELSE s

Quick(sort, s) ==
  LET n     == Len(s)
      q     == Partition(Exchange(s, 1, Pivot(s)))
      whole == GatherEqual(q)
      once  == Insertion(whole, 1 + (n \div 4))
      t     == IF q.swapped THEN whole ELSE once.s
      left  == q.pb - q.pa
      right == q.pd - q.pc
  IN  IF ~q.swapped /\ once.swaps <= 1 + (n \div 4) THEN once.s
      ELSE Part(sort, SubSeq(t, 1, left)) \o SubSeq(t, left + 1, n - right)
           \o Part(sort, SubSeq(t, (n - right) + 1, n))

QSortTo(memory) ==
  LET sort[depth \in Int] ==
        [s \in Seq(Int) |->
           IF depth <= 0 THEN HeapSort(s, memory)
           ELSE IF Len(s) < 7 THEN Insertion(s, Len(s) * Len(s)).s
           ELSE Quick(sort[depth - 1], s)]
  IN  sort

\* the number of bits of x
Fls(x) ==
  Iterate([q \in [x : Nat, bits : Nat] |->
             IF q.x = 0 THEN q ELSE [x |-> q.x \div 2, bits |-> q.bits + 1]],
          [x |-> x, bits |-> 0], x).bits

QSort(s, memory) == QSortTo(memory)[2 * (Fls(Len(s)) - 1)][s]

(***************************************************************************)
(* bsearch: found is the position it returns, or 0 for NULL.               *)
(***************************************************************************)
\* one pass of its loop
Halve(key, s) ==
  [q \in [base : Nat, lim : Nat, found : Nat] |->
     LET p == q.base + (q.lim \div 2)
     IN  IF q.lim = 0 \/ q.found # 0 THEN q
         ELSE IF key = s[p] THEN [q EXCEPT !.found = p]
         ELSE IF key > s[p] THEN [q EXCEPT !.base = p + 1, !.lim = (@ - 1) \div 2]
         ELSE [q EXCEPT !.lim = @ \div 2]]

BSearch(key, s) ==
  Iterate(Halve(key, s), [base |-> 1, lim |-> Len(s), found |-> 0], Len(s)).found
=============================================================================

---- MODULE Runtime_proofs ----
(*****************************************************************************)
(* Proofs about the runtime the programs rest on: libc sorts, searches,      *)
(* copies and allocates as it should (LibcCalls), the timed mutexes are      *)
(* locks (TimedMutex), std::lock cannot deadlock (LockAll), call_once runs a *)
(* function once (CallOnce), the ThreadX heap is created before it is used   *)
(* (MallocThreadX), and the free list is an allocator (FreeList): for any    *)
(* arrays and memory, and any number of threads, locks and flags.            *)
(*****************************************************************************)
EXTENDS LibcCalls, TimedMutex, LockAll, CallOnce, MallocThreadX, FreeList,
        Data_proofs, FiniteSetTheorems

(* LibcCalls: qsort and bsearch.  Data_proofs proves the algorithms; what is *)
(* left is that rearranging keeps how often an element is there.             *)

\* fls counts no more bits than the number is big
LEMMA FlsType == ASSUME NEW n \in Nat PROVE Fls(n) \in Nat
<1> DEFINE P == [x : Nat, bits : Nat]
           f == [q \in P |-> IF q.x = 0 THEN q ELSE [x |-> q.x \div 2, bits |-> q.bits + 1]]
           x0 == [x |-> n, bits |-> 0]
           last == Iterate(f, x0, n)
<1>1. x0 \in P OBVIOUS
<1>2. \A q \in P : f[q] \in P BY HalvesOf
<1>3. Fls(n) = last.bits BY DEF Fls
<1> HIDE DEF P, f, x0
<1>4. last \in P BY <1>1, <1>2, IterateKeeps
<1>. QED BY <1>3, <1>4 DEF P

LEMMA SortedIsOrdered ==
  ASSUME NEW n \in Nat, NEW s \in Arrays(n)
  PROVE  Sorted(s) <=> Ordered(s)
<1>0. Len(s) = n /\ \A c \in 1 .. n : s[c] \in Int BY ArraysAreSeqs DEF Arrays
<1>1. ASSUME Sorted(s) PROVE Ordered(s) BY <1>0, <1>1 DEF Sorted, Ordered
<1>2. ASSUME Ordered(s) PROVE Sorted(s)
  <2> DEFINE T == {d \in Nat : \A c, j \in 1 .. n : j = c + d => s[c] <= s[j]}
  <2>1. 0 \in T BY <1>0
  <2>2. ASSUME NEW d \in T PROVE d + 1 \in T
    <3>1. ASSUME NEW c \in 1 .. n, NEW j \in 1 .. n, j = c + (d + 1) PROVE s[c] <= s[j]
      <4> DEFINE h == c + d
      <4>1. h \in 1 .. n /\ j \in 2 .. n /\ j - 1 = h /\ h = c + d BY <3>1
      <4>2. s[c] <= s[h] BY <4>1
      <4>3. s[h] <= s[j] BY <4>1, <1>2, <1>0 DEF Ordered
      <4> HIDE DEF h
      <4>. QED BY <4>1, <4>2, <4>3, <1>0
    <3>. QED BY <3>1
  <2>3. T \subseteq Nat OBVIOUS
  <2>4. \A d \in T : \A c, j \in 1 .. n : j = c + d => s[c] <= s[j] OBVIOUS
  <2> HIDE DEF T
  <2>5. T = Nat BY <2>1, <2>2, <2>3, SetInduction
  <2>6. ASSUME NEW c \in 1 .. n, NEW j \in 1 .. n, c <= j PROVE s[c] <= s[j]
    <3>1. j - c \in Nat /\ j = c + (j - c) BY <2>6
    <3>. QED BY <2>4, <2>5, <3>1
  <2>. QED BY <1>0, <2>6 DEF Sorted
<1>. QED BY <1>1, <1>2

LEMMA CountKept ==
  ASSUME NEW n \in Nat, NEW s \in Arrays(n), NEW t, Rearranges(t, s, n), NEW v
  PROVE  Count(t, v) = Count(s, v)
<1>1. PICK p : Shuffles(p, n) /\ \A c \in 1 .. n : t[c] = s[p[c]] BY DEF Rearranges
<1>0. DOMAIN s = 1 .. n /\ DOMAIN t = 1 .. n BY DEF Rearranges, Arrays
<1> DEFINE A == {c \in 1 .. n : t[c] = v}
           B == {c \in 1 .. n : s[c] = v}
           g == [c \in A |-> p[c]]
<1>2. /\ p \in [1 .. n -> 1 .. n]
      /\ \A c, j \in 1 .. n : p[c] = p[j] => c = j
      /\ \A j \in 1 .. n : \E c \in 1 .. n : p[c] = j
  BY <1>1 DEF Shuffles
<1>3. g \in [A -> B] BY <1>1, <1>2
<1>4. \A c, j \in A : g[c] = g[j] => c = j BY <1>2
<1>5. ASSUME NEW b \in B PROVE \E a \in A : g[a] = b
  <2>1. b \in 1 .. n /\ s[b] = v OBVIOUS
  <2>2. PICK a \in 1 .. n : p[a] = b BY <1>2, <2>1
  <2>3. a \in A BY <1>1, <2>1, <2>2
  <2>4. g[a] = b BY <2>2, <2>3
  <2>. QED BY <2>3, <2>4
<1>6. IsFiniteSet(A)
  <2>1. IsFiniteSet(1 .. n) BY FS_Interval
  <2>. QED BY <2>1, FS_Subset
<1>7. Count(t, v) = Cardinality(A) /\ Count(s, v) = Cardinality(B) BY <1>0 DEF Count
<1> HIDE DEF A, B, g
<1>8. g \in Bijection(A, B)
  BY <1>3, <1>4, <1>5 DEF Bijection, Injection, Surjection, IsInjective
<1>9. ExistsBijection(A, B) BY <1>8 DEF ExistsBijection
<1>. QED BY <1>6, <1>7, <1>9, FS_Bijection

\* What a call of qsort gives, at any depth limit.
LEMMA SortAnswer ==
  ASSUME NEW s \in Inputs, NEW memory \in BOOLEAN, NEW depth \in Int,
         NEW t, t = QSortTo(memory)[depth][s]
  PROVE  (\A v : Count(t, v) = Count(s, v)) /\ (memory => Ordered(t))
<1>1. s \in Seq(Int) /\ Len(s) \in Nat BY ArraysAssumption
<1>2. Rearranges(t, s, Len(s)) /\ (memory => Sorted(t)) BY <1>1, QSortToSorts
<1>3. s \in Arrays(Len(s)) /\ t \in Arrays(Len(s)) BY <1>1, <1>2, ArraysAreSeqs DEF Rearranges
<1>. QED BY <1>1, <1>2, <1>3, CountKept, SortedIsOrdered

\* For all arrays, keys and depth limits: sorting loses nothing and sorts, searching finds.
THEOREM LibcSorts == CallsSpec => []SortsAndSearches
<1>1. CallsInit => SortsAndSearches BY DEF CallsInit, SortsAndSearches
<1>2. SortsAndSearches /\ [CallsNext]_callvars => SortsAndSearches'
  <2> SUFFICES ASSUME SortsAndSearches, [CallsNext]_callvars PROVE SortsAndSearches' OBVIOUS
  <2>1. CASE Sorting
    <3>1. PICK s \in Inputs, memory \in BOOLEAN :
            /\ call' = [fn |-> "qsort", s |-> s, memory |-> memory]
            /\ \/ result' = QSort(s, memory)
               \/ \E depth \in Depths : result' = QSortTo(memory)[depth][s]
      BY <2>1 DEF Sorting
    <3>2. \E depth \in Int : result' = QSortTo(memory)[depth][s]
      <4>1. 2 * (Fls(Len(s)) - 1) \in Int
        <5>1. Len(s) \in Nat BY ArraysAssumption
        <5>2. Fls(Len(s)) \in Nat BY <5>1, FlsType
        <5>. QED BY <5>2
      <4>. QED BY <3>1, <4>1, ArraysAssumption DEF QSort
    <3>3. (\A v : Count(result', v) = Count(s, v)) /\ (memory => Ordered(result'))
      BY <3>2, SortAnswer
    <3>4. /\ call'.fn = "qsort" /\ call'.s = s /\ call'.memory = memory
      BY <3>1
    <3>. QED BY <3>3, <3>4 DEF SortsAndSearches
  <2>2. CASE Searching
    <3>1. PICK s \in Inputs, key \in Keys :
            /\ Ordered(s) /\ call' = [fn |-> "bsearch", key |-> key, s |-> s]
            /\ result' = BSearch(key, s)
      BY <2>2 DEF Searching
    <3>2. s \in Seq(Int) /\ Len(s) \in Nat /\ key \in Int /\ DOMAIN s = 1 .. Len(s)
      BY ArraysAssumption
    <3>3. Sorted(s) BY <3>1, <3>2, ArraysAreSeqs, SortedIsOrdered
    <3>4. /\ result' = 0 => \A c \in 1 .. Len(s) : s[c] # key
          /\ result' # 0 => result' \in 1 .. Len(s) /\ s[result'] = key
      BY <3>1, <3>2, <3>3, BSearchFinds
    <3>5. call'.fn = "bsearch" /\ call'.s = s /\ call'.key = key BY <3>1
    <3>. QED BY <3>2, <3>4, <3>5 DEF SortsAndSearches, ToSet
  <2>4. CASE Moving \/ Allocating
    <3>1. call'.fn \in {"memcpy", "memset", "calloc", "aligned_malloc"}
      BY <2>4 DEF Moving, Allocating
    <3>. QED BY <3>1 DEF SortsAndSearches
  <2>3. CASE UNCHANGED callvars BY <2>3 DEF callvars, SortsAndSearches
  <2>. QED BY <2>1, <2>2, <2>3, <2>4 DEF CallsNext
<1>. QED BY <1>1, <1>2, PTL DEF CallsSpec

-----------------------------------------------------------------------------
(* LibcCalls: memcpy's loops, in bytes and in words.                         *)

\* n bytes from s on, copied to d on below them, all in the memory m of domain D; or the n
\* bytes before s to those before d, which is above
SourceAbove(D, m, d, s, n) ==
  /\ D \subseteq Int /\ m \in [D -> Int] /\ d \in Int /\ s \in Int /\ d < s
  /\ n \in Nat /\ s .. s + n - 1 \subseteq D
SourceBelow(D, m, d, s, n) ==
  /\ D \subseteq Int /\ m \in [D -> Int] /\ d \in Int /\ s \in Int /\ s < d
  /\ n \in Nat /\ s - n .. s - 1 \subseteq D

\* Copying goes on where it stopped: upwards, nothing is read that was overwritten ...
LEMMA CopyOn ==
  ASSUME NEW D, NEW m, NEW d, NEW s, NEW n, SourceAbove(D, m, d, s, n),
         NEW j \in Nat, NEW g \in Nat, j + g <= n
  PROVE  Copy(Copy(m, d, s, j), d + j, s + j, g) = Copy(m, d, s, j + g)
<1>h. /\ D \subseteq Int /\ m \in [D -> Int] /\ d \in Int /\ s \in Int /\ d < s
      /\ s .. s + j + g - 1 \subseteq D
  <2>1. /\ D \subseteq Int /\ m \in [D -> Int] /\ d \in Int /\ s \in Int /\ d < s
        /\ n \in Nat /\ s .. s + n - 1 \subseteq D
    BY DEF SourceAbove
  <2>2. s .. s + j + g - 1 \subseteq s .. s + n - 1 BY <2>1
  <2>. QED BY <2>1, <2>2
<1> USE <1>h
<1> DEFINE r == Copy(m, d, s, j)
           u == Copy(r, d + j, s + j, g)
           v == Copy(m, d, s, j + g)
<1>1. DOMAIN m = D BY <1>h
<1>2. r = [x \in D |-> IF x \in d .. d + j - 1 THEN m[s + (x - d)] ELSE m[x]] BY <1>1 DEF Copy
<1>3. u = [x \in D |-> IF x \in d + j .. d + j + g - 1 THEN r[s + j + (x - (d + j))] ELSE r[x]]
  BY <1>2 DEF Copy
<1>4. v = [x \in D |-> IF x \in d .. d + (j + g) - 1 THEN m[s + (x - d)] ELSE m[x]]
  BY <1>1 DEF Copy
<1> HIDE DEF r, u, v
<1>5. ASSUME NEW x \in D PROVE u[x] = v[x]
  <2>0. x \in Int OBVIOUS
  <2>1. CASE x \in d + j .. d + j + g - 1
    <3> DEFINE y == s + (x - d)
    <3>1. y \in s .. s + j + g - 1 /\ ~(y \in d .. d + j - 1) /\ s + j + (x - (d + j)) = y
          /\ x \in d .. d + (j + g) - 1
      BY <2>0, <2>1
    <3> HIDE DEF y
    <3>2. y \in D BY <3>1
    <3>3. u[x] = r[y] BY <1>3, <2>1, <3>1
    <3>4. r[y] = m[y] BY <1>2, <3>1, <3>2
    <3>5. v[x] = m[y] BY <1>4, <3>1 DEF y
    <3>. QED BY <3>3, <3>4, <3>5
  <2>2. CASE ~(x \in d + j .. d + j + g - 1)
    <3>1. u[x] = r[x] BY <1>3, <2>2
    <3>2. x \in d .. d + j - 1 <=> x \in d .. d + (j + g) - 1 BY <2>0, <2>2
    <3>. QED BY <1>2, <1>4, <3>1, <3>2
  <2>. QED BY <2>1, <2>2
<1>6. DOMAIN u = D /\ DOMAIN v = D BY <1>3, <1>4
<1>. QED BY <1>3, <1>4, <1>5, <1>6 DEF r, u, v

\* ... and downwards neither, when the source lies below.
LEMMA CopyBack ==
  ASSUME NEW D, NEW m, NEW d, NEW s, NEW n, SourceBelow(D, m, d, s, n),
         NEW j \in Nat, NEW g \in Nat, j + g <= n
  PROVE  Copy(Copy(m, d - j, s - j, j), d - j - g, s - j - g, g)
           = Copy(m, d - (j + g), s - (j + g), j + g)
<1>h. /\ D \subseteq Int /\ m \in [D -> Int] /\ d \in Int /\ s \in Int /\ s < d
      /\ s - (j + g) .. s - 1 \subseteq D
  <2>1. /\ D \subseteq Int /\ m \in [D -> Int] /\ d \in Int /\ s \in Int /\ s < d
        /\ n \in Nat /\ s - n .. s - 1 \subseteq D
    BY DEF SourceBelow
  <2>2. s - (j + g) .. s - 1 \subseteq s - n .. s - 1 BY <2>1
  <2>. QED BY <2>1, <2>2
<1> USE <1>h
<1> DEFINE r == Copy(m, d - j, s - j, j)
           u == Copy(r, d - j - g, s - j - g, g)
           v == Copy(m, d - (j + g), s - (j + g), j + g)
<1>1. DOMAIN m = D BY <1>h
<1>2. r = [x \in D |-> IF x \in d - j .. d - j + j - 1 THEN m[s - j + (x - (d - j))] ELSE m[x]]
  BY <1>1 DEF Copy
<1>3. u = [x \in D |-> IF x \in d - j - g .. d - j - g + g - 1 THEN r[s - j - g + (x - (d - j - g))] ELSE r[x]]
  BY <1>2 DEF Copy
<1>4. v = [x \in D |-> IF x \in d - (j + g) .. d - (j + g) + (j + g) - 1
                       THEN m[s - (j + g) + (x - (d - (j + g)))] ELSE m[x]]
  BY <1>1 DEF Copy
<1> HIDE DEF r, u, v
<1>5. ASSUME NEW x \in D PROVE u[x] = v[x]
  <2> DEFINE y == s + (x - d)
  <2>0. x \in Int /\ y \in Int OBVIOUS
  <2>3. s - j + (x - (d - j)) = y /\ s - j - g + (x - (d - j - g)) = y
        /\ s - (j + g) + (x - (d - (j + g))) = y
    BY <2>0
  <2>1. CASE x \in d - j - g .. d - j - g + g - 1
    <3>1. y \in s - (j + g) .. s - 1 /\ ~(y \in d - j .. d - j + j - 1)
          /\ x \in d - (j + g) .. d - (j + g) + (j + g) - 1
      BY <2>0, <2>1
    <3> HIDE DEF y
    <3>2. y \in D BY <3>1
    <3>3. u[x] = r[y] BY <1>3, <2>1, <2>3
    <3>4. r[y] = m[y] BY <1>2, <3>1, <3>2
    <3>5. v[x] = m[y] BY <1>4, <3>1, <2>3
    <3>. QED BY <3>3, <3>4, <3>5
  <2>2. CASE ~(x \in d - j - g .. d - j - g + g - 1)
    <3>1. u[x] = r[x] BY <1>3, <2>2
    <3>2. x \in d - j .. d - j + j - 1 <=> x \in d - (j + g) .. d - (j + g) + (j + g) - 1
      BY <2>0, <2>2
    <3> HIDE DEF y
    <3>. QED BY <1>2, <1>4, <3>1, <3>2, <2>3
  <2>. QED BY <2>1, <2>2
<1>6. DOMAIN u = D /\ DOMAIN v = D BY <1>3, <1>4
<1>. QED BY <1>3, <1>4, <1>5, <1>6 DEF r, u, v

LEMMA CopyTyped ==
  ASSUME NEW D, D \subseteq Int, NEW m \in [D -> Int], NEW d \in Int, NEW s \in Int,
         NEW g \in Nat, s .. s + g - 1 \subseteq D
  PROVE  Copy(m, d, s, g) \in [D -> Int]
<1>1. ASSUME NEW x \in D, x \in d .. d + g - 1 PROVE s + (x - d) \in D
  <2>1. x \in Int OBVIOUS
  <2>2. s + (x - d) \in s .. s + g - 1 BY <1>1, <2>1
  <2>. QED BY <2>2
<1>. QED BY <1>1 DEF Copy

\* where a copy of j bytes upwards has got to, and one downwards
UpStep(m, d, s, j) == [m |-> Copy(m, d, s, j), dst |-> d + j, src |-> s + j]
DownStep(m, d, s, j) == [m |-> Copy(m, d - j, s - j, j), dst |-> d - j, src |-> s - j]

LEMMA UpPass ==
  ASSUME NEW D, NEW m, NEW d, NEW s, NEW n, SourceAbove(D, m, d, s, n),
         NEW j \in Nat, NEW g \in Nat, j + g <= n
  PROVE  Up(m, g)[UpStep(m, d, s, j)] = UpStep(m, d, s, j + g)
<1>h. /\ D \subseteq Int /\ m \in [D -> Int] /\ d \in Int /\ s \in Int /\ d < s
      /\ s .. s + j + g - 1 \subseteq D
  <2>1. /\ D \subseteq Int /\ m \in [D -> Int] /\ d \in Int /\ s \in Int /\ d < s
        /\ n \in Nat /\ s .. s + n - 1 \subseteq D
    BY DEF SourceAbove
  <2>2. s .. s + j + g - 1 \subseteq s .. s + n - 1 BY <2>1
  <2>. QED BY <2>1, <2>2
<1> USE <1>h
<1> DEFINE q == UpStep(m, d, s, j)
<1>1. q.m = Copy(m, d, s, j) /\ q.dst = d + j /\ q.src = s + j BY DEF UpStep
<1>2. q \in Transfers(m)
  <2>1. s .. s + j - 1 \subseteq D
    <3>1. s .. s + j - 1 \subseteq s .. s + j + g - 1 OBVIOUS
    <3>. QED BY <3>1
  <2>2. Copy(m, d, s, j) \in [D -> Int] BY <2>1, CopyTyped
  <2>3. DOMAIN m = D OBVIOUS
  <2>. QED BY <2>2, <2>3 DEF UpStep, Transfers
<1> HIDE DEF q
<1>3. Up(m, g)[q] = [m |-> Copy(q.m, q.dst, q.src, g), dst |-> q.dst + g, src |-> q.src + g]
  BY <1>2 DEF Up
<1>4. Copy(q.m, q.dst, q.src, g) = Copy(m, d, s, j + g)
  <2>1. Copy(Copy(m, d, s, j), d + j, s + j, g) = Copy(m, d, s, j + g) BY CopyOn
  <2>. QED BY <1>1, <2>1
<1>5. q.dst + g = d + (j + g) /\ q.src + g = s + (j + g) BY <1>1
<1>. QED BY <1>3, <1>4, <1>5 DEF UpStep, q

LEMMA DownPass ==
  ASSUME NEW D, NEW m, NEW d, NEW s, NEW n, SourceBelow(D, m, d, s, n),
         NEW j \in Nat, NEW g \in Nat, j + g <= n
  PROVE  Down(m, g)[DownStep(m, d, s, j)] = DownStep(m, d, s, j + g)
<1>h. /\ D \subseteq Int /\ m \in [D -> Int] /\ d \in Int /\ s \in Int /\ s < d
      /\ s - (j + g) .. s - 1 \subseteq D
  <2>1. /\ D \subseteq Int /\ m \in [D -> Int] /\ d \in Int /\ s \in Int /\ s < d
        /\ n \in Nat /\ s - n .. s - 1 \subseteq D
    BY DEF SourceBelow
  <2>2. s - (j + g) .. s - 1 \subseteq s - n .. s - 1 BY <2>1
  <2>. QED BY <2>1, <2>2
<1> USE <1>h
<1> DEFINE q == DownStep(m, d, s, j)
<1>1. q.m = Copy(m, d - j, s - j, j) /\ q.dst = d - j /\ q.src = s - j BY DEF DownStep
<1>2. q \in Transfers(m)
  <2>1. s - j .. s - j + j - 1 \subseteq D
    <3>1. s - j .. s - j + j - 1 \subseteq s - (j + g) .. s - 1 OBVIOUS
    <3>. QED BY <3>1
  <2>2. Copy(m, d - j, s - j, j) \in [D -> Int]
    <3>1. d - j \in Int /\ s - j \in Int OBVIOUS
    <3>. QED BY <2>1, <3>1, CopyTyped
  <2>3. DOMAIN m = D OBVIOUS
  <2>. QED BY <2>2, <2>3 DEF DownStep, Transfers
<1> HIDE DEF q
<1>3. Down(m, g)[q] = [m |-> Copy(q.m, q.dst - g, q.src - g, g), dst |-> q.dst - g, src |-> q.src - g]
  BY <1>2 DEF Down
<1>4. Copy(q.m, q.dst - g, q.src - g, g) = Copy(m, d - (j + g), s - (j + g), j + g)
  <2>1. Copy(Copy(m, d - j, s - j, j), d - j - g, s - j - g, g)
          = Copy(m, d - (j + g), s - (j + g), j + g)
    BY CopyBack
  <2>. QED BY <1>1, <2>1
<1>5. q.dst - g = d - (j + g) /\ q.src - g = s - (j + g) BY <1>1
<1>. QED BY <1>3, <1>4, <1>5 DEF DownStep, q

\* multiples, one at a time
LEMMA OneMore ==
  ASSUME NEW n \in Nat, NEW g \in Nat
  PROVE  n * g \in Nat /\ (n + 1) * g = n * g + g /\ 0 * g = 0
OBVIOUS

LEMMA UpLoop ==
  ASSUME NEW D, NEW m, NEW d, NEW s, NEW N, SourceAbove(D, m, d, s, N),
         NEW j \in Nat, NEW g \in Nat, NEW n \in Nat, j + n * g <= N
  PROVE  Iterate(Up(m, g), UpStep(m, d, s, j), n) = UpStep(m, d, s, j + n * g)
<1> DEFINE f == Up(m, g)
           x == UpStep(m, d, s, j)
           T == {c \in Nat : c <= n => Iterate(f, x, c) = UpStep(m, d, s, j + c * g)}
<1>1. 0 \in T
  <2>1. Iterate(f, x, 0) = x BY IterateStep
  <2>2. j + 0 * g = j BY OneMore
  <2>. QED BY <2>1, <2>2
<1>2. ASSUME NEW c \in T PROVE c + 1 \in T
  <2>1. c \in Nat /\ (c <= n => Iterate(f, x, c) = UpStep(m, d, s, j + c * g)) OBVIOUS
  <2> HIDE DEF T
  <2>2. ASSUME c + 1 <= n PROVE Iterate(f, x, c + 1) = UpStep(m, d, s, j + (c + 1) * g)
    <3> DEFINE e == c * g
    <3>1. e \in Nat /\ (c + 1) * g = e + g BY <2>1, OneMore
    <3>2. e + g <= n * g
      <4>1. PICK h \in Nat : n = (c + 1) + h
        <5>1. n - (c + 1) \in Nat /\ n = (c + 1) + (n - (c + 1)) BY <2>1, <2>2
        <5>. QED BY <5>1
      <4>2. n * g = (c + 1) * g + h * g /\ h * g \in Nat BY <2>1, <4>1
      <4>. QED BY <3>1, <4>2
    <3>3. n * g \in Nat BY OneMore
    <3>4. Iterate(f, x, c + 1) = f[Iterate(f, x, c)] BY <2>1, IterateStep
    <3>5. Iterate(f, x, c) = UpStep(m, d, s, j + e) BY <2>1, <2>2
    <3> HIDE DEF e
    <3>6. (j + e) + g <= N
      <4> DEFINE M == n * g
      <4>1. M \in Nat /\ e + g <= M /\ j + M <= N BY <3>2, <3>3
      <4>2. N \in Nat BY DEF SourceAbove
      <4> HIDE DEF M
      <4>. QED BY <3>1, <4>1, <4>2
    <3>7. j + e \in Nat /\ (j + e) + g = j + (e + g) BY <3>1
    <3>8. f[UpStep(m, d, s, j + e)] = UpStep(m, d, s, (j + e) + g) BY <3>6, <3>7, UpPass
    <3>. QED BY <3>1, <3>4, <3>5, <3>7, <3>8
  <2>. QED BY <2>1, <2>2 DEF T
<1>3. T \subseteq Nat OBVIOUS
<1> HIDE DEF f, x
<1>4. \A c \in T : c <= n => Iterate(f, x, c) = UpStep(m, d, s, j + c * g) OBVIOUS
<1> HIDE DEF T
<1>5. T = Nat BY <1>1, <1>2, <1>3, SetInduction
<1>. QED BY <1>4, <1>5 DEF f, x

LEMMA DownLoop ==
  ASSUME NEW D, NEW m, NEW d, NEW s, NEW N, SourceBelow(D, m, d, s, N),
         NEW j \in Nat, NEW g \in Nat, NEW n \in Nat, j + n * g <= N
  PROVE  Iterate(Down(m, g), DownStep(m, d, s, j), n) = DownStep(m, d, s, j + n * g)
<1> DEFINE f == Down(m, g)
           x == DownStep(m, d, s, j)
           T == {c \in Nat : c <= n => Iterate(f, x, c) = DownStep(m, d, s, j + c * g)}
<1>1. 0 \in T
  <2>1. Iterate(f, x, 0) = x BY IterateStep
  <2>2. j + 0 * g = j BY OneMore
  <2>. QED BY <2>1, <2>2
<1>2. ASSUME NEW c \in T PROVE c + 1 \in T
  <2>1. c \in Nat /\ (c <= n => Iterate(f, x, c) = DownStep(m, d, s, j + c * g)) OBVIOUS
  <2> HIDE DEF T
  <2>2. ASSUME c + 1 <= n PROVE Iterate(f, x, c + 1) = DownStep(m, d, s, j + (c + 1) * g)
    <3> DEFINE e == c * g
    <3>1. e \in Nat /\ (c + 1) * g = e + g BY <2>1, OneMore
    <3>2. e + g <= n * g
      <4>1. PICK h \in Nat : n = (c + 1) + h
        <5>1. n - (c + 1) \in Nat /\ n = (c + 1) + (n - (c + 1)) BY <2>1, <2>2
        <5>. QED BY <5>1
      <4>2. n * g = (c + 1) * g + h * g /\ h * g \in Nat BY <2>1, <4>1
      <4>. QED BY <3>1, <4>2
    <3>3. n * g \in Nat BY OneMore
    <3>4. Iterate(f, x, c + 1) = f[Iterate(f, x, c)] BY <2>1, IterateStep
    <3>5. Iterate(f, x, c) = DownStep(m, d, s, j + e) BY <2>1, <2>2
    <3> HIDE DEF e
    <3>6. (j + e) + g <= N
      <4> DEFINE M == n * g
      <4>1. M \in Nat /\ e + g <= M /\ j + M <= N BY <3>2, <3>3
      <4>2. N \in Nat BY DEF SourceBelow
      <4> HIDE DEF M
      <4>. QED BY <3>1, <4>1, <4>2
    <3>7. j + e \in Nat /\ (j + e) + g = j + (e + g) BY <3>1
    <3>8. f[DownStep(m, d, s, j + e)] = DownStep(m, d, s, (j + e) + g) BY <3>6, <3>7, DownPass
    <3>. QED BY <3>1, <3>4, <3>5, <3>7, <3>8
  <2>. QED BY <2>1, <2>2 DEF T
<1>3. T \subseteq Nat OBVIOUS
<1> HIDE DEF f, x
<1>4. \A c \in T : c <= n => Iterate(f, x, c) = DownStep(m, d, s, j + c * g) OBVIOUS
<1> HIDE DEF T
<1>5. T = Nat BY <1>1, <1>2, <1>3, SetInduction
<1>. QED BY <1>4, <1>5 DEF f, x

\* how a length falls into bytes, words and bytes
LEMMA InWords ==
  ASSUME NEW a \in Nat
  PROVE  /\ a \div W \in Nat /\ a % W \in Nat
         /\ a = (a \div W) * W + (a % W)
<1>1. CASE W = 1 BY <1>1
<1>2. CASE W = 2 BY <1>2
<1>3. CASE W = 4 BY <1>3
<1>. QED BY <1>1, <1>2, <1>3, WidthsAssumption

\* what goes before the words is part of the length
LEMMA BytesFirst ==
  ASSUME NEW d \in Int, NEW s \in Int, NEW n \in Nat
  PROVE  Upwards(d, s, n) \in 0 .. n /\ Downwards(d, s, n) \in 0 .. n
<1>1. CASE W = 1 BY <1>1 DEF Upwards, Downwards, Aligned
<1>2. CASE W = 2 BY <1>2 DEF Upwards, Downwards, Aligned
<1>3. CASE W = 4 BY <1>3 DEF Upwards, Downwards, Aligned
<1>. QED BY <1>1, <1>2, <1>3, WidthsAssumption

LEMMA FirstWordAligned ==
  ASSUME NEW dst \in Nat, NEW src \in Nat, NEW n \in Nat
  PROVE  WordsAligned(dst, src, n)
<1>1. CASE W = 1 BY <1>1 DEF WordsAligned, Upwards, Downwards, Aligned
<1>2. CASE W = 2 BY <1>2 DEF WordsAligned, Upwards, Downwards, Aligned
<1>3. CASE W = 4 BY <1>3 DEF WordsAligned, Upwards, Downwards, Aligned
<1>. QED BY <1>1, <1>2, <1>3, WidthsAssumption

-----------------------------------------------------------------------------
(* LibcCalls: the memory functions.                                          *)

\* The bytes, words and bytes together are the whole range, upwards ...
LEMMA TransferUp ==
  ASSUME NEW D, NEW m, NEW d, NEW s, NEW n, SourceAbove(D, m, d, s, n), NEW t \in 0 .. n
  PROVE  Transfer(Up(m, 1), Up(m, W), [m |-> m, dst |-> d, src |-> s], t, n) = Copy(m, d, s, n)
<1>h. /\ D \subseteq Int /\ m \in [D -> Int] /\ d \in Int /\ s \in Int /\ n \in Nat /\ W \in Nat
  BY WidthsAssumption DEF SourceAbove
<1> DEFINE x == [m |-> m, dst |-> d, src |-> s]
           words == (n - t) \div W
           rest == (n - t) % W
           b == Iterate(Up(m, 1), x, t)
           w == Iterate(Up(m, W), b, words)
<1>1. x = UpStep(m, d, s, 0)
  <2>1. Copy(m, d, s, 0) = m
    <3>1. \A y \in D : ~(y \in d .. d + 0 - 1) BY <1>h
    <3>. QED BY <1>h, <3>1 DEF Copy
  <2>. QED BY <1>h, <2>1 DEF UpStep
<1>2. words \in Nat /\ rest \in Nat /\ t \in Nat /\ n - t = words * W + rest
  <2>1. n - t \in Nat BY <1>h
  <2>. QED BY <2>1, InWords
<1> DEFINE M == words * W
<1>3. M \in Nat /\ t + M + rest = n BY <1>h, <1>2, OneMore
<1>4. b = UpStep(m, d, s, t)
  <2>1. t * 1 = t /\ 0 + t = t BY <1>2
  <2>2. 0 + t * 1 <= n BY <1>h, <1>2
  <2> HIDE DEF x
  <2>3. Iterate(Up(m, 1), UpStep(m, d, s, 0), t) = UpStep(m, d, s, 0 + t * 1)
    BY <1>2, <2>2, UpLoop
  <2>. QED BY <1>1, <2>1, <2>3
<1>5. w = UpStep(m, d, s, t + M)
  <2>1. t + words * W <= n BY <1>h, <1>2, <1>3
  <2> HIDE DEF words, b
  <2>2. Iterate(Up(m, W), UpStep(m, d, s, t), words) = UpStep(m, d, s, t + words * W)
    BY <1>h, <1>2, <2>1, UpLoop
  <2>. QED BY <1>4, <2>2
<1> HIDE DEF w, M
<1>6. Iterate(Up(m, 1), w, rest) = UpStep(m, d, s, n)
  <2> DEFINE j == t + M
  <2>1. j \in Nat /\ rest * 1 = rest /\ j + rest = n /\ j + rest * 1 <= n BY <1>h, <1>2, <1>3
  <2> HIDE DEF j, rest
  <2>2. Iterate(Up(m, 1), UpStep(m, d, s, j), rest) = UpStep(m, d, s, j + rest * 1)
    BY <1>2, <2>1, UpLoop
  <2>. QED BY <1>5, <2>1, <2>2 DEF j
<1>7. Transfer(Up(m, 1), Up(m, W), x, t, n) = Iterate(Up(m, 1), w, rest).m BY DEF Transfer, w
<1>. QED BY <1>6, <1>7 DEF UpStep

\* ... and downwards.
LEMMA TransferDown ==
  ASSUME NEW D, NEW m, NEW d, NEW s, NEW n, SourceBelow(D, m, d, s, n), NEW t \in 0 .. n
  PROVE  Transfer(Down(m, 1), Down(m, W), [m |-> m, dst |-> d, src |-> s], t, n)
           = Copy(m, d - n, s - n, n)
<1>h. /\ D \subseteq Int /\ m \in [D -> Int] /\ d \in Int /\ s \in Int /\ n \in Nat /\ W \in Nat
  BY WidthsAssumption DEF SourceBelow
<1> DEFINE x == [m |-> m, dst |-> d, src |-> s]
           words == (n - t) \div W
           rest == (n - t) % W
           b == Iterate(Down(m, 1), x, t)
           w == Iterate(Down(m, W), b, words)
<1>1. x = DownStep(m, d, s, 0)
  <2>0. d - 0 = d /\ s - 0 = s BY <1>h
  <2>1. Copy(m, d, s, 0) = m
    <3>1. \A y \in D : ~(y \in d .. d + 0 - 1) BY <1>h
    <3>. QED BY <1>h, <3>1 DEF Copy
  <2>. QED BY <2>0, <2>1 DEF DownStep
<1>2. words \in Nat /\ rest \in Nat /\ t \in Nat /\ n - t = words * W + rest
  <2>1. n - t \in Nat BY <1>h
  <2>. QED BY <2>1, InWords
<1> DEFINE M == words * W
<1>3. M \in Nat /\ t + M + rest = n BY <1>h, <1>2, OneMore
<1>4. b = DownStep(m, d, s, t)
  <2>1. t * 1 = t /\ 0 + t = t BY <1>2
  <2>2. 0 + t * 1 <= n BY <1>h, <1>2
  <2> HIDE DEF x
  <2>3. Iterate(Down(m, 1), DownStep(m, d, s, 0), t) = DownStep(m, d, s, 0 + t * 1)
    BY <1>2, <2>2, DownLoop
  <2>. QED BY <1>1, <2>1, <2>3
<1>5. w = DownStep(m, d, s, t + M)
  <2>1. t + words * W <= n BY <1>h, <1>2, <1>3
  <2> HIDE DEF words, b
  <2>2. Iterate(Down(m, W), DownStep(m, d, s, t), words) = DownStep(m, d, s, t + words * W)
    BY <1>h, <1>2, <2>1, DownLoop
  <2>. QED BY <1>4, <2>2
<1> HIDE DEF w, M
<1>6. Iterate(Down(m, 1), w, rest) = DownStep(m, d, s, n)
  <2> DEFINE j == t + M
  <2>1. j \in Nat /\ rest * 1 = rest /\ j + rest = n /\ j + rest * 1 <= n BY <1>h, <1>2, <1>3
  <2> HIDE DEF j, rest
  <2>2. Iterate(Down(m, 1), DownStep(m, d, s, j), rest) = DownStep(m, d, s, j + rest * 1)
    BY <1>2, <2>1, DownLoop
  <2>. QED BY <1>5, <2>1, <2>2 DEF j
<1>7. Transfer(Down(m, 1), Down(m, W), x, t, n) = Iterate(Down(m, 1), w, rest).m BY DEF Transfer, w
<1>. QED BY <1>6, <1>7 DEF DownStep

\* memcpy is memmove: for every overlap, alignment and length it copies the range (memcpy.c:57).
THEOREM MemCpyCopies ==
  ASSUME NEW D \in SUBSET Int, NEW m \in [D -> Int], NEW dst \in Nat, NEW src \in Nat,
         NEW n \in Nat, src .. src + n - 1 \subseteq D
  PROVE  MemCpy(m, dst, src, n) = Copy(m, dst, src, n)
<1>1. CASE n = 0 \/ dst = src
  <2>1. ASSUME NEW x \in D, x \in dst .. dst + n - 1 PROVE src + (x - dst) = x
    BY <1>1, <2>1
  <2>2. Copy(m, dst, src, n) = m BY <2>1 DEF Copy
  <2>. QED BY <1>1, <2>2 DEF MemCpy
<1>2. CASE ~(n = 0 \/ dst = src) /\ dst < src
  <2>1. SourceAbove(D, m, dst, src, n) BY <1>2 DEF SourceAbove
  <2> DEFINE t == Upwards(dst, src, n)
  <2>2. t \in 0 .. n BY BytesFirst
  <2>3. MemCpy(m, dst, src, n)
          = Transfer(Up(m, 1), Up(m, W), [m |-> m, dst |-> dst, src |-> src], t, n)
    BY <1>2 DEF MemCpy
  <2> HIDE DEF t
  <2>. QED BY <2>1, <2>2, <2>3, TransferUp
<1>3. CASE ~(n = 0 \/ dst = src) /\ ~(dst < src)
  <2> DEFINE d == dst + n
             s == src + n
             t == Downwards(d, s, n)
  <2>0. d \in Int /\ s \in Int /\ s < d /\ d - n = dst /\ s - n = src /\ s - n .. s - 1 \subseteq D
    BY <1>3
  <2>2. t \in 0 .. n BY <2>0, BytesFirst
  <2>3. MemCpy(m, dst, src, n)
          = Transfer(Down(m, 1), Down(m, W), [m |-> m, dst |-> d, src |-> s], t, n)
    BY <1>3 DEF MemCpy
  <2> HIDE DEF t, d, s
  <2>1. SourceBelow(D, m, d, s, n) BY <2>0 DEF SourceBelow
  <2>4. Transfer(Down(m, 1), Down(m, W), [m |-> m, dst |-> d, src |-> s], t, n)
          = Copy(m, d - n, s - n, n)
    BY <2>1, <2>2, TransferDown
  <2>. QED BY <2>0, <2>3, <2>4
<1>. QED BY <1>1, <1>2, <1>3

\* memset stores every byte of its range, and none outside (memset.c:7).
LEMMA MemSetFills ==
  ASSUME NEW D \in SUBSET Int, NEW m \in [D -> Int], NEW dest \in Nat, NEW c, NEW n \in Nat
  PROVE  MemSet(m, dest, c, n)
           = [x \in DOMAIN m |-> IF x \in dest .. dest + n - 1 THEN c ELSE m[x]]
<1> DEFINE ends == IF n <= 2 THEN 1 ELSE IF n <= 6 THEN 3 ELSE 4
           head == (-dest) % 4
           words == (n - head) \div 4
           Stored(x) == \/ /\ n > 0
                           /\ \E front \in 0 .. ends - 1 : x = dest + front \/ x = dest + n - 1 - front
                        \/ n > 8 /\ x \in dest + head .. dest + head + words * 4 - 1
<1>1. MemSet(m, dest, c, n) = [x \in DOMAIN m |-> IF Stored(x) THEN c ELSE m[x]] BY DEF MemSet
<1>2. head \in 0 .. 3 OBVIOUS
<1>3. n > 8 => words \in Nat /\ words * 4 <= n - head /\ n - head < words * 4 + 4 BY <1>2
<1>4. ASSUME NEW x \in D PROVE Stored(x) <=> x \in dest .. dest + n - 1
  <2>0. x \in Int /\ ends \in {1, 3, 4} OBVIOUS
  <2> HIDE DEF head, words
  <2>1. ASSUME Stored(x) PROVE x \in dest .. dest + n - 1
    <3>1. CASE n > 8 /\ x \in dest + head .. dest + head + words * 4 - 1
      <4> DEFINE w == words * 4
      <4>1. w \in Nat /\ w <= n - head BY <1>2, <1>3, <3>1
      <4> HIDE DEF w
      <4>. QED BY <1>2, <2>0, <3>1, <4>1 DEF w
    <3>2. CASE n > 0 /\ \E front \in 0 .. ends - 1 : x = dest + front \/ x = dest + n - 1 - front
      <4>1. PICK front \in 0 .. ends - 1 : x = dest + front \/ x = dest + n - 1 - front BY <3>2
      <4>. QED BY <2>0, <3>2, <4>1
    <3>. QED BY <2>1, <3>1, <3>2
  <2>2. ASSUME x \in dest .. dest + n - 1 PROVE Stored(x)
    <3> DEFINE front == x - dest
               j == n - 1 - front
    <3>1. front \in 0 .. n - 1 /\ j \in 0 .. n - 1 /\ x = dest + front /\ x = dest + n - 1 - j /\ front + j = n - 1
      BY <2>0, <2>2
    <3>2. CASE front <= ends - 1
      <4>1. front \in 0 .. ends - 1 /\ n > 0 BY <2>0, <3>1, <3>2
      <4>. QED BY <3>1, <4>1
    <3>3. CASE j <= ends - 1
      <4>1. j \in 0 .. ends - 1 /\ n > 0 BY <2>0, <3>1, <3>3
      <4>. QED BY <3>1, <4>1
    <3>4. CASE front > ends - 1 /\ j > ends - 1
      <4> HIDE DEF front, j
      <4>1. ends = 4 /\ n > 8 /\ front >= 4 /\ j >= 4 BY <3>1, <3>4
      <4> DEFINE w == words * 4
      <4>2. w \in Nat /\ n - head < w + 4 BY <1>2, <1>3, <4>1
      <4>3. x \in dest + head .. dest + head + w - 1
        <5> HIDE DEF w
        <5>. QED BY <1>2, <2>0, <3>1, <4>1, <4>2
      <4>. QED BY <4>1, <4>3
    <3>. QED BY <2>0, <3>1, <3>2, <3>3, <3>4
  <2>. QED BY <2>1, <2>2
<1> HIDE DEF Stored
<1>. QED BY <1>1, <1>4

\* calloc refuses exactly what does not fit a size_t (calloc.c:14).
LEMMA CallocIsExact ==
  ASSUME NEW num \in Nat, NEW each \in Nat, num <= SizeMax, each <= SizeMax
  PROVE  CallocRefuses(num, each) <=> num * each > SizeMax
<1> DEFINE R == MulNoOverflow
<1>0. R \in Nat /\ R > 0 BY WidthsAssumption
<1>s. SizeMax = R * R - 1 /\ R * R \in Nat /\ R * R > 0 BY <1>0 DEF SizeMax
<1>1. CASE num < R /\ each < R
  <2>1. num * each <= R * each
    <3>1. PICK h \in Nat : R = num + h
      <4>1. R - num \in Nat /\ R = num + (R - num) BY <1>0, <1>1
      <4>. QED BY <4>1
    <3>2. R * each = num * each + h * each /\ h * each \in Nat BY <3>1
    <3>3. num * each \in Nat OBVIOUS
    <3>. QED BY <3>2, <3>3
  <2>2. R * each + R <= R * R
    <3>1. PICK h \in Nat : R = each + 1 + h
      <4>1. R - (each + 1) \in Nat /\ R = each + 1 + (R - (each + 1)) BY <1>0, <1>1
      <4>. QED BY <4>1
    <3>2. R * (each + 1 + h) = R * each + R + R * h /\ R * h \in Nat /\ R * each \in Nat
      BY <1>0, <3>1
    <3>. QED BY <3>1, <3>2, <1>0
  <2>3. num * each <= SizeMax
    <3> DEFINE A == num * each
               B == R * each
               C == R * R
    <3>1. A \in Nat /\ B \in Nat /\ C \in Nat /\ A <= B /\ B + R <= C /\ SizeMax = C - 1
      BY <1>0, <1>s, <2>1, <2>2
    <3> HIDE DEF A, B, C, R
    <3>2. A <= SizeMax BY <1>0, <3>1
    <3>. QED BY <3>2 DEF A
  <2>4. num * each \in Nat /\ SizeMax \in Nat BY <1>s
  <2>5. ~CallocRefuses(num, each) BY <1>0, <1>1 DEF CallocRefuses
  <2>. QED BY <2>3, <2>4, <2>5
<1>2. CASE num = 0
  <2>1. num * each = 0 BY <1>2
  <2>. QED BY <1>2, <1>s, <2>1 DEF CallocRefuses
<1>3. CASE num > 0 /\ ~(num < R /\ each < R)
  <2>1. CallocRefuses(num, each) <=> SizeMax \div num < each
    BY <1>0, <1>3 DEF CallocRefuses
  <2> DEFINE S == SizeMax
             h == S \div num
             r == S % num
  <2>2. S \in Nat BY <1>s
  <2> HIDE DEF S
  <2>3. h \in Nat /\ r \in 0 .. num - 1 /\ S = h * num + r BY <1>3, <2>2
  <2> HIDE DEF h, r
  <2>4. CASE h < each
    <3>1. PICK g \in Nat : each = h + 1 + g
      <4>1. each - (h + 1) \in Nat /\ each = h + 1 + (each - (h + 1)) BY <2>3, <2>4
      <4>. QED BY <4>1
    <3>2. num * each = h * num + num + num * g /\ num * g \in Nat /\ h * num \in Nat BY <2>3, <3>1
    <3>3. num * each > S
      <4> DEFINE A == num * each
                 B == h * num
                 C == num * g
      <4>1. A = B + num + C /\ B \in Nat /\ C \in Nat /\ S = B + r BY <2>3, <3>2
      <4> HIDE DEF A, B, C
      <4>2. A > S BY <2>3, <4>1
      <4>. QED BY <4>2 DEF A
    <3>. QED BY <2>1, <2>4, <3>3 DEF S, h
  <2>5. CASE ~(h < each)
    <3>1. PICK g \in Nat : h = each + g
      <4>1. h - each \in Nat /\ h = each + (h - each) BY <2>3, <2>5
      <4>. QED BY <4>1
    <3>2. h * num = num * each + g * num /\ g * num \in Nat /\ num * each \in Nat BY <2>3, <3>1
    <3>3. ~(num * each > S)
      <4> DEFINE A == num * each
                 B == h * num
                 C == g * num
      <4>1. B = A + C /\ A \in Nat /\ C \in Nat /\ S = B + r BY <2>3, <3>2
      <4> HIDE DEF A, B, C
      <4>2. ~(A > S) BY <2>3, <4>1
      <4>. QED BY <4>2 DEF A
    <3>. QED BY <2>1, <2>5, <3>3 DEF S, h
  <2>. QED BY <2>4, <2>5
<1>. QED BY <1>1, <1>2, <1>3, <1>0

\* aligned_malloc's pointer is aligned, lies behind its header, has its bytes in the
\* block, and leads back to it.
LEMMA AlignedMallocFits ==
  ASSUME NEW p \in Nat \ {0}, NEW align \in Nat \ {0}, NEW bytes \in Nat \ {0},
         RoomFits(align, bytes), p + Requested(align, bytes) <= SizeMax + 1,
         NEW a, a = AlignedMalloc(p, align, bytes)
  PROVE  /\ a.ptr % align = 0
         /\ p + PtrOffsetSz <= a.ptr
         /\ a.ptr + bytes <= p + Requested(align, bytes)
         /\ 2 * align <= OffsetMod => AlignedFree(a) = p
<1>1. PICK M : M = SizeMax + 1 OBVIOUS
<1>2. M \in Nat /\ M > 0
  <2>1. MulNoOverflow * MulNoOverflow \in Nat /\ MulNoOverflow * MulNoOverflow > 0
    BY WidthsAssumption
  <2>. QED BY <1>1, <2>1 DEF SizeMax
<1>3. align + 1 < HeaderMod /\ bytes + align + 1 < M
  <2>1. PICK h, s : h = HeaderMod /\ s = SizeMax OBVIOUS
  <2>2. h \in Nat /\ s \in Int /\ M = s + 1 BY <1>1, <1>2, <2>1, WidthsAssumption DEF SizeMax
  <2>3. PtrOffsetSz + (align - 1) = align + 1 BY DEF PtrOffsetSz
  <2>4. align + 1 < h /\ bytes + (align + 1) <= s BY <2>1, <2>3 DEF RoomFits
  <2>. QED BY <2>1, <2>2, <2>4
<1>4. HeaderSize(align) = align + 1
  <2>1. PICK h : h = HeaderMod OBVIOUS
  <2>2. h \in Nat /\ h > 0 /\ align + 1 \in 0 .. h - 1 BY <1>3, <2>1, WidthsAssumption
  <2>3. (align + 1) % h = align + 1 BY <2>2
  <2>4. PtrOffsetSz + (align - 1) = align + 1 BY DEF PtrOffsetSz
  <2>. QED BY <2>1, <2>3, <2>4 DEF HeaderSize
<1>5. Requested(align, bytes) = bytes + align + 1
  <2>1. PICK r : r = bytes + (align + 1) OBVIOUS
  <2>2. r \in 0 .. M - 1 BY <1>2, <1>3, <2>1
  <2>3. r % M = r BY <1>2, <2>2
  <2>. QED BY <1>1, <1>4, <2>1, <2>3 DEF Requested
<1>6. PICK x : x = p + align + 1 OBVIOUS
<1>7. x \in 0 .. M - 1 BY <1>1, <1>2, <1>5, <1>6
<1>8. PICK r, ptr : r = x % align /\ ptr = x - r OBVIOUS
<1>9. r \in 0 .. align - 1 /\ ptr \in Int /\ ptr <= x /\ p + 2 <= ptr
  <2>1. r \in 0 .. align - 1 BY <1>7, <1>8
  <2>. QED BY <1>6, <1>7, <1>8, <2>1
<1>10. ptr % align = 0
  <2>1. PICK h : h = x \div align OBVIOUS
  <2>2. h \in Int /\ x = h * align + r BY <1>7, <1>8, <2>1
  <2>3. ptr = h * align
    <3>1. PICK A : A = h * align OBVIOUS
    <3>2. A \in Int /\ x = A + r BY <2>2, <3>1
    <3>. QED BY <1>8, <1>9, <3>1, <3>2
  <2>4. (h * align) % align = 0 BY <2>2
  <2>. QED BY <2>3, <2>4
<1>11. a = [ptr |-> ptr, offset |-> (ptr - p) % OffsetMod]
  <2>1. AlignUp(p + PtrOffsetSz, align) = ptr
    <3>1. p + PtrOffsetSz + (align - 1) = x BY <1>6 DEF PtrOffsetSz
    <3>2. x % M = x BY <1>2, <1>7
    <3>. QED BY <1>1, <1>8, <3>1, <3>2 DEF AlignUp
  <2>. QED BY <2>1 DEF AlignedMalloc
<1>12. ASSUME 2 * align <= OffsetMod PROVE (ptr - p) % OffsetMod = ptr - p
  <2>1. PICK o, h : o = ptr - p /\ h = OffsetMod OBVIOUS
  <2>2. h \in Nat /\ o \in 0 .. h - 1 BY <1>6, <1>9, <1>12, <2>1, WidthsAssumption
  <2>3. o % h = o BY <2>2
  <2>. QED BY <2>1, <2>3
<1>13. a.ptr + bytes <= p + Requested(align, bytes) /\ p + PtrOffsetSz <= a.ptr
  BY <1>5, <1>6, <1>9, <1>11 DEF PtrOffsetSz
<1>14. 2 * align <= OffsetMod => AlignedFree(a) = p
  BY <1>9, <1>11, <1>12 DEF AlignedFree
<1>. QED BY <1>10, <1>11, <1>13, <1>14

\* For every memory, range, size and alignment, and whatever malloc answers: memcpy
\* moves and memset fills what they should and nothing else, calloc's test is exact,
\* and aligned_malloc gives NULL where it must; its pointers fit, with their bytes,
\* unless the size overflows, and lead back up to half the range of offset_t.
THEOREM LibcMoves == CallsSpec => []Memories
<1>1. CallsInit => Memories BY DEF CallsInit, Memories, Moves, Allocates
<1>2. Memories /\ [CallsNext]_callvars => Memories'
  <2> SUFFICES ASSUME Memories, [CallsNext]_callvars PROVE Memories' OBVIOUS
  <2>1. CASE Sorting \/ Searching
    <3>1. call'.fn \in {"qsort", "bsearch"} BY <2>1 DEF Sorting, Searching
    <3>. QED BY <3>1 DEF Memories, Moves, Allocates
  <2>2. CASE Moving
    <3>1. PICK m \in Contents, dst \in 0 .. Top, n \in 0 .. Top + 1 :
            /\ Within(dst, n)
            /\ \/ \E src \in 0 .. Top :
                    /\ Within(src, n)
                    /\ call' = [fn |-> "memcpy", m |-> m, dst |-> dst, src |-> src, n |-> n]
                    /\ result' = MemCpy(m, dst, src, n)
               \/ \E c \in Bytes : /\ call' = [fn |-> "memset", m |-> m, dst |-> dst, c |-> c, n |-> n]
                                   /\ result' = MemSet(m, dst, c, n)
      BY <2>2 DEF Moving
    <3> DEFINE D == 0 .. Top
    <3>2. D \in SUBSET Int /\ m \in [D -> Int] /\ dst \in Nat /\ n \in Nat /\ Top \in Nat
      BY MemoryAssumption
    <3>3. CASE \E src \in 0 .. Top :
                 /\ Within(src, n)
                 /\ call' = [fn |-> "memcpy", m |-> m, dst |-> dst, src |-> src, n |-> n]
                 /\ result' = MemCpy(m, dst, src, n)
      <4>1. PICK src \in 0 .. Top :
                 /\ Within(src, n)
                 /\ call' = [fn |-> "memcpy", m |-> m, dst |-> dst, src |-> src, n |-> n]
                 /\ result' = MemCpy(m, dst, src, n)
        BY <3>3
      <4>2. src \in Nat /\ src .. src + n - 1 \subseteq D BY <3>2, <4>1 DEF Within
      <4> HIDE DEF D
      <4>3. result' = Copy(m, dst, src, n) BY <3>2, <4>1, <4>2, MemCpyCopies
      <4>4. WordsAligned(dst, src, n) BY <3>2, <4>2, FirstWordAligned
      <4>5. /\ call'.fn = "memcpy" /\ call'.m = m /\ call'.dst = dst /\ call'.src = src /\ call'.n = n
        BY <4>1
      <4>6. call'.fn = "memcpy" => /\ result' = Copy(call'.m, call'.dst, call'.src, call'.n)
                                   /\ WordsAligned(call'.dst, call'.src, call'.n)
        BY <4>3, <4>4, <4>5
      <4>7. call'.fn # "memset" /\ call'.fn # "calloc" /\ call'.fn # "aligned_malloc" BY <4>5
      <4>. QED BY <4>6, <4>7 DEF Memories, Moves, Allocates
    <3>4. CASE \E c \in Bytes : /\ call' = [fn |-> "memset", m |-> m, dst |-> dst, c |-> c, n |-> n]
                                /\ result' = MemSet(m, dst, c, n)
      <4>1. PICK c \in Bytes : /\ call' = [fn |-> "memset", m |-> m, dst |-> dst, c |-> c, n |-> n]
                               /\ result' = MemSet(m, dst, c, n)
        BY <3>4
      <4> HIDE DEF D
      <4>3. result' = [x \in DOMAIN m |-> IF x \in dst .. dst + n - 1 THEN c ELSE m[x]]
        BY <3>2, <4>1, MemSetFills
      <4>5. /\ call'.fn = "memset" /\ call'.m = m /\ call'.dst = dst /\ call'.c = c /\ call'.n = n
        BY <4>1
      <4>. QED BY <4>3, <4>5 DEF Memories, Moves, Allocates
    <3>. QED BY <3>1, <3>3, <3>4
  <2>3. CASE Allocating
    <3>1. CASE \E num, each \in 0 .. SizeMax : /\ call' = [fn |-> "calloc", num |-> num, size |-> each]
                                               /\ result' = CallocRefuses(num, each)
      <4>1. PICK num \in 0 .. SizeMax, each \in 0 .. SizeMax :
                 /\ call' = [fn |-> "calloc", num |-> num, size |-> each]
                 /\ result' = CallocRefuses(num, each)
        BY <3>1
      <4>2. SizeMax \in Int BY WidthsAssumption DEF SizeMax
      <4>3. result' <=> num * each > SizeMax BY <4>1, <4>2, CallocIsExact
      <4>4. call'.fn = "calloc" /\ call'.num = num /\ call'.size = each BY <4>1
      <4>. QED BY <4>3, <4>4 DEF Memories, Moves, Allocates
    <3>2. CASE \E p \in Pointers \cup {0}, align \in Alignments, bytes \in 0 .. SizeMax :
                 /\ p = 0 \/ p + Requested(align, bytes) <= SizeMax + 1
                 /\ call' = [fn |-> "aligned_malloc", p |-> p, align |-> align, size |-> bytes]
                 /\ result' = AlignedMalloc(p, align, bytes)
      <4>1. PICK p \in Pointers \cup {0}, align \in Alignments, bytes \in 0 .. SizeMax :
                 /\ p = 0 \/ p + Requested(align, bytes) <= SizeMax + 1
                 /\ call' = [fn |-> "aligned_malloc", p |-> p, align |-> align, size |-> bytes]
                 /\ result' = AlignedMalloc(p, align, bytes)
        BY <3>2
      <4>2. p \in Nat /\ align \in Nat /\ bytes \in Nat BY PointersAssumption
      <4>3. CASE align = 0 \/ bytes = 0 \/ p = 0
        <5>1. result' = Null BY <4>1, <4>3 DEF AlignedMalloc
        <5>. QED BY <4>1, <4>3, <5>1 DEF Memories, Moves, Allocates
      <4>4. CASE ~(align = 0 \/ bytes = 0 \/ p = 0)
        <5>1. PICK answer : answer = result' OBVIOUS
        <5>2. RoomFits(align, bytes) =>
                /\ answer.ptr % align = 0
                /\ p + PtrOffsetSz <= answer.ptr
                /\ answer.ptr + bytes <= p + Requested(align, bytes)
                /\ 2 * align <= OffsetMod => AlignedFree(answer) = p
          BY <4>1, <4>2, <4>4, <5>1, AlignedMallocFits
        <5>3. /\ call'.fn = "aligned_malloc" /\ call'.p = p /\ call'.align = align
              /\ call'.size = bytes
          BY <4>1
        <5>. QED BY <4>4, <5>1, <5>2, <5>3 DEF Memories, Moves, Allocates
      <4>. QED BY <4>3, <4>4
    <3>. QED BY <2>3, <3>1, <3>2 DEF Allocating
  <2>4. CASE UNCHANGED callvars BY <2>4 DEF callvars, Memories, Moves, Allocates
  <2>. QED BY <2>1, <2>2, <2>3, <2>4 DEF CallsNext
<1>. QED BY <1>1, <1>2, PTL DEF CallsSpec

-----------------------------------------------------------------------------
(* TimedMutex: the inductive invariant.                                      *)

Labels == {"idle", "enter", "asleep", "check", "answer",
           "unlock", "leave", "leave to notify", "notify"}

TypeOK ==
  /\ recursive \in BOOLEAN /\ pc \in [Threads -> Labels]
  /\ holder \in Threads \cup {None} /\ id \in Threads \cup {None}
  /\ count \in 0 .. Limit /\ held \in [Threads -> Nat]
  /\ gone \in BOOLEAN

\* what the two words say of the callers: the lock is free, or one thread, whom
\* a recursive lock knows, has taken it as often as they count
Sole(t) == /\ held[t] = count /\ (recursive => id = t)
           /\ \A u \in Threads \ {t} : held[u] = 0
Agrees == \/ count = 0 /\ \A t \in Threads : held[t] = 0
          \/ count > 0 /\ \E t \in Threads : Sole(t)

\* what a thread's place tells of it
Places == \A t \in Threads :
  /\ pc[t] = "unlock" => held[t] > 0
  /\ pc[t] \in {"enter", "asleep", "check"} => recursive \/ held[t] = 0
  /\ pc[t] \in {"check", "answer", "leave", "leave to notify"} => holder = t
  /\ pc[t] \in {"leave to notify", "notify"} => recursive

Inv == TypeOK /\ Agrees /\ Places /\ QuietAfterDestroy
-----------------------------------------------------------------------------
USE CallersAssumption, TimedMutexAssumption

\* Who gains is the only one to hold the lock then.
LEMMA GainAgrees ==
  ASSUME Inv, NEW t \in Threads, Gains(t), recursive \/ held[t] = 0, Gain(t),
         recursive' = recursive
  PROVE  /\ Agrees' /\ Abstract!Acquire(t)
         /\ count' \in 0 .. Limit /\ held' \in [Threads -> Nat] /\ id' \in Threads \cup {None}
<1>0. /\ held \in [Threads -> Nat] /\ count \in 0 .. Limit /\ Limit \in Nat \ {0}
      /\ id \in Threads \cup {None} /\ recursive \in BOOLEAN
  BY DEF Inv, TypeOK
<1>1. held[t] = count /\ \A u \in Threads \ {t} : held[u] = 0
  <2>1. CASE count = 0
    BY <1>0, <2>1 DEF Inv, Agrees, Sole
  <2>2. CASE count # 0
    <3>1. recursive /\ id = t
      BY <2>2 DEF Gains, Owned
    <3>2. PICK u \in Threads : Sole(u)
      BY <1>0, <2>2 DEF Inv, Agrees
    <3>. QED BY <3>1, <3>2 DEF Sole
  <2>. QED BY <2>1, <2>2
<1>2. count < Limit
  BY <1>0 DEF Gains
<1>3. /\ count' = count + 1 /\ held' = [held EXCEPT ![t] = @ + 1]
      /\ id' = IF recursive THEN t ELSE id
  BY DEF Gain
<1>4. Sole(t)'
  BY <1>0, <1>1, <1>3 DEF Sole
<1>5. Agrees'
  <2>1. count' > 0
    BY <1>0, <1>3
  <2>. QED BY <1>4, <2>1 DEF Agrees
<1>6. Abstract!Acquire(t)
  BY <1>0, <1>1, <1>2, <1>3 DEF Abstract!Acquire
<1>7. held' \in [Threads -> Nat]
  BY <1>0, <1>3
<1>8. count' \in 0 .. Limit /\ id' \in Threads \cup {None}
  BY <1>0, <1>2, <1>3
<1>. QED BY <1>5, <1>6, <1>7, <1>8

\* Who unlocks held the lock, and leaves it to nobody or to itself.
LEMMA UnlockAgrees ==
  ASSUME Inv, NEW t \in Threads, Unlock(t)
  PROVE  /\ Agrees' /\ Abstract!Release(t)
         /\ count' \in 0 .. Limit /\ held' \in [Threads -> Nat] /\ id' \in Threads \cup {None}
<1>0. /\ held \in [Threads -> Nat] /\ count \in 0 .. Limit /\ Limit \in Nat \ {0}
      /\ id \in Threads \cup {None} /\ recursive \in BOOLEAN
  BY DEF Inv, TypeOK
<1>1. /\ pc[t] = "unlock" /\ held' = [held EXCEPT ![t] = @ - 1] /\ count' = count - 1
      /\ recursive' = recursive /\ id' = IF recursive /\ count = 1 THEN None ELSE id
  BY DEF Unlock
<1>2. held[t] > 0
  BY <1>1 DEF Inv, Places
<1>3. held[t] = count /\ (recursive => id = t) /\ \A u \in Threads \ {t} : held[u] = 0
  <2>1. PICK u \in Threads : Sole(u)
    BY <1>0, <1>2 DEF Inv, Agrees
  <2>2. u = t
    BY <1>0, <1>2, <2>1 DEF Sole
  <2>. QED BY <2>1, <2>2 DEF Sole
<1>4. Agrees'
  <2>1. CASE count = 1
    BY <1>0, <1>1, <1>3, <2>1 DEF Agrees
  <2>2. CASE count # 1
    <3>1. count' > 0 /\ Sole(t)'
      BY <1>0, <1>1, <1>2, <1>3, <2>2 DEF Sole
    <3>. QED BY <3>1 DEF Agrees
  <2>. QED BY <2>1, <2>2
<1>5. held' \in [Threads -> Nat]
  BY <1>0, <1>1, <1>2
<1>6. count' \in 0 .. Limit
  BY <1>0, <1>1, <1>2, <1>3
<1>7. id' \in Threads \cup {None}
  BY <1>0, <1>1
<1>8. Abstract!Release(t)
  BY <1>1, <1>2 DEF Abstract!Release
<1>. QED BY <1>4, <1>5, <1>6, <1>7, <1>8

\* A step of one thread moves it to a label and leaves the others where they are.
LEMMA GotoEffect ==
  ASSUME Inv, NEW t \in Threads, NEW l \in Labels, Goto(t, l)
  PROVE  /\ pc' \in [Threads -> Labels] /\ pc'[t] = l
         /\ \A u \in Threads : u # t => pc'[u] = pc[u]
  BY DEF Inv, TypeOK, Goto

\* The steps that change no word of the lock.
LEMMA AgreesKept ==
  ASSUME Agrees, UNCHANGED <<recursive, count, id, held>>
  PROVE  Agrees'
  BY DEF Agrees, Sole

LEMMA CallKeeps ==
  ASSUME Inv, NEW t \in Threads, Call(t) PROVE Inv' /\ UNCHANGED held
<1>1. Goto(t, "enter") /\ MayLock(t) /\ UNCHANGED <<recursive, holder, count, id, waiting, held, gone>>
  BY DEF Call
<1>2. /\ pc' \in [Threads -> Labels] /\ pc'[t] = "enter"
      /\ \A u \in Threads : u # t => pc'[u] = pc[u]
  BY <1>1, GotoEffect DEF Labels
<1>3. TypeOK' BY <1>1, <1>2 DEF Inv, TypeOK
<1>4. Agrees' BY <1>1, AgreesKept DEF Inv
<1>5. Places' BY <1>1, <1>2 DEF Inv, Places, MayLock
<1>6. QuietAfterDestroy' BY <1>1 DEF MayLock, QuietAfterDestroy
<1>. QED BY <1>1, <1>3, <1>4, <1>5, <1>6 DEF Inv

LEMMA EnterKeeps ==
  ASSUME Inv, NEW t \in Threads, Enter(t) PROVE Inv' /\ UNCHANGED held
<1>1. /\ Goto(t, "check") /\ Take(t) /\ pc[t] \in {"enter", "asleep"}
      /\ UNCHANGED <<recursive, count, id, held, gone>>
  BY DEF Enter
<1>2. /\ pc' \in [Threads -> Labels] /\ pc'[t] = "check"
      /\ \A u \in Threads : u # t => pc'[u] = pc[u]
  BY <1>1, GotoEffect DEF Labels
<1>3. TypeOK' BY <1>1, <1>2 DEF Inv, TypeOK, Take
<1>4. Agrees' BY <1>1, AgreesKept DEF Inv
<1>5. Places' BY <1>1, <1>2 DEF Inv, Places, Take
<1>6. QuietAfterDestroy' BY <1>1 DEF Inv, QuietAfterDestroy
<1>. QED BY <1>1, <1>3, <1>4, <1>5, <1>6 DEF Inv

LEMMA CheckKeeps ==
  ASSUME Inv, NEW t \in Threads, Check(t)
  PROVE  Inv' /\ (UNCHANGED held \/ Abstract!Acquire(t))
<1>0. pc[t] = "check" /\ UNCHANGED <<recursive, gone>> /\ ~gone
      /\ holder = t /\ (recursive \/ held[t] = 0)
  BY DEF Check, Inv, Places, QuietAfterDestroy
<1>1. CASE Sleeps(t)
  <2>1. Goto(t, "asleep") /\ holder' = None /\ UNCHANGED <<count, id, held>>
    BY <1>1 DEF Check
  <2>2. /\ pc' \in [Threads -> Labels] /\ pc'[t] = "asleep"
        /\ \A u \in Threads : u # t => pc'[u] = pc[u]
    BY <2>1, GotoEffect DEF Labels
  <2>3. TypeOK' BY <1>0, <2>1, <2>2 DEF Inv, TypeOK
  <2>4. Agrees' BY <1>0, <2>1, AgreesKept DEF Inv
  <2>5. Places' BY <1>0, <2>1, <2>2 DEF Inv, Places
  <2>6. QuietAfterDestroy' BY <1>0 DEF QuietAfterDestroy
  <2>. QED BY <2>1, <2>3, <2>4, <2>5, <2>6 DEF Inv
<1>2. CASE ~Sleeps(t)
  <2>1. Goto(t, "answer") /\ UNCHANGED holder
    BY <1>2 DEF Check
  <2>2. /\ pc' \in [Threads -> Labels] /\ pc'[t] = "answer"
        /\ \A u \in Threads : u # t => pc'[u] = pc[u]
    BY <2>1, GotoEffect DEF Labels
  <2>3. CASE Gains(t)
    <3>1. Gain(t)
      BY <1>2, <2>3 DEF Check
    <3>2. /\ Agrees' /\ Abstract!Acquire(t) /\ count' \in 0 .. Limit
          /\ held' \in [Threads -> Nat] /\ id' \in Threads \cup {None}
      BY <1>0, <2>3, <3>1, GainAgrees
    <3>3. TypeOK' BY <1>0, <2>1, <2>2, <3>2 DEF Inv, TypeOK
    <3>4. \A u \in Threads \ {t} : held'[u] = held[u]
      BY <3>1 DEF Gain, Inv, TypeOK
    <3>5. Places' BY <1>0, <2>1, <2>2, <3>4 DEF Inv, Places
    <3>6. QuietAfterDestroy' BY <1>0 DEF QuietAfterDestroy
    <3>. QED BY <3>2, <3>3, <3>5, <3>6 DEF Inv
  <2>4. CASE ~Gains(t)
    <3>1. UNCHANGED <<count, id, held>>
      BY <1>2, <2>4 DEF Check
    <3>2. TypeOK' BY <1>0, <2>1, <2>2, <3>1 DEF Inv, TypeOK
    <3>3. Agrees' BY <1>0, <3>1, AgreesKept DEF Inv
    <3>4. Places' BY <1>0, <2>1, <2>2, <3>1 DEF Inv, Places
    <3>5. QuietAfterDestroy' BY <1>0 DEF QuietAfterDestroy
    <3>. QED BY <3>1, <3>2, <3>3, <3>4, <3>5 DEF Inv
  <2>. QED BY <2>3, <2>4
<1>. QED BY <1>1, <1>2

LEMMA TryLockKeeps ==
  ASSUME Inv, NEW t \in Threads, TryLock(t)
  PROVE  Inv' /\ (UNCHANGED held \/ Abstract!Acquire(t))
<1>1. /\ MayLock(t) /\ ~gone /\ (recursive \/ held[t] = 0) /\ pc[t] = "idle"
      /\ Take(t) /\ Goto(t, "answer") /\ UNCHANGED <<recursive, gone>>
  BY DEF TryLock, MayLock
<1>2. /\ pc' \in [Threads -> Labels] /\ pc'[t] = "answer"
      /\ \A u \in Threads : u # t => pc'[u] = pc[u]
  BY <1>1, GotoEffect DEF Labels
<1>3. QuietAfterDestroy' BY <1>1 DEF QuietAfterDestroy
<1>4. CASE Gains(t)
  <2>1. Gain(t)
    BY <1>4 DEF TryLock
  <2>2. /\ Agrees' /\ Abstract!Acquire(t) /\ count' \in 0 .. Limit
        /\ held' \in [Threads -> Nat] /\ id' \in Threads \cup {None}
    BY <1>1, <1>4, <2>1, GainAgrees
  <2>3. TypeOK' BY <1>1, <1>2, <2>2 DEF Inv, TypeOK, Take
  <2>4. \A u \in Threads \ {t} : held'[u] = held[u]
    BY <2>1 DEF Gain, Inv, TypeOK
  <2>5. Places' BY <1>1, <1>2, <2>4 DEF Inv, Places, Take
  <2>. QED BY <1>3, <2>2, <2>3, <2>5 DEF Inv
<1>5. CASE ~Gains(t)
  <2>1. UNCHANGED <<count, id, held>>
    BY <1>5 DEF TryLock
  <2>2. TypeOK' BY <1>1, <1>2, <2>1 DEF Inv, TypeOK, Take
  <2>3. Agrees' BY <1>1, <2>1, AgreesKept DEF Inv
  <2>4. Places' BY <1>1, <1>2, <2>1 DEF Inv, Places, Take
  <2>. QED BY <1>3, <2>1, <2>2, <2>3, <2>4 DEF Inv
<1>. QED BY <1>4, <1>5

LEMMA CallUnlockKeeps ==
  ASSUME Inv, NEW t \in Threads, CallUnlock(t) PROVE Inv' /\ UNCHANGED held
<1>1. /\ Goto(t, "unlock") /\ ~gone /\ held[t] > 0
      /\ UNCHANGED <<recursive, holder, count, id, held, gone>>
  BY DEF CallUnlock
<1>2. /\ pc' \in [Threads -> Labels] /\ pc'[t] = "unlock"
      /\ \A u \in Threads : u # t => pc'[u] = pc[u]
  BY <1>1, GotoEffect DEF Labels
<1>3. TypeOK' BY <1>1, <1>2 DEF Inv, TypeOK
<1>4. Agrees' BY <1>1, AgreesKept DEF Inv
<1>5. Places' BY <1>1, <1>2 DEF Inv, Places
<1>6. QuietAfterDestroy' BY <1>1 DEF QuietAfterDestroy
<1>. QED BY <1>1, <1>3, <1>4, <1>5, <1>6 DEF Inv

LEMMA UnlockKeeps ==
  ASSUME Inv, NEW t \in Threads, Unlock(t) PROVE Inv' /\ Abstract!Release(t)
<1>1. /\ pc[t] = "unlock" /\ Take(t) /\ ~gone /\ UNCHANGED <<recursive, gone>>
      /\ held' = [held EXCEPT ![t] = @ - 1]
  BY DEF Unlock, Inv, QuietAfterDestroy
<1>2. PICK l \in {"leave", "leave to notify"} :
         Goto(t, l) /\ (l = "leave to notify" => recursive)
  BY DEF Unlock
<1>3. /\ pc' \in [Threads -> Labels] /\ pc'[t] = l
      /\ \A u \in Threads : u # t => pc'[u] = pc[u]
  BY <1>2, GotoEffect DEF Labels
<1>4. /\ Agrees' /\ Abstract!Release(t) /\ count' \in 0 .. Limit
      /\ held' \in [Threads -> Nat] /\ id' \in Threads \cup {None}
  BY UnlockAgrees
<1>5. TypeOK' BY <1>1, <1>3, <1>4 DEF Inv, TypeOK, Take
<1>6. \A u \in Threads \ {t} : held'[u] = held[u]
  BY <1>1 DEF Inv, TypeOK
<1>7. Places' BY <1>1, <1>2, <1>3, <1>6 DEF Inv, Places, Take
<1>8. QuietAfterDestroy' BY <1>1 DEF QuietAfterDestroy
<1>. QED BY <1>4, <1>5, <1>7, <1>8 DEF Inv

LEMMA LeaveKeeps ==
  ASSUME Inv, NEW t \in Threads, Leave(t) PROVE Inv' /\ UNCHANGED held
<1>1. /\ pc[t] \in {"answer", "leave", "leave to notify"} /\ holder' = None /\ holder = t
      /\ UNCHANGED <<recursive, count, id, held, gone>> /\ ~gone
  BY DEF Leave, Inv, Places, QuietAfterDestroy
<1>2. PICK l \in {"idle", "notify"} : Goto(t, l) /\ (l = "notify" => recursive)
  BY DEF Leave, Inv, Places
<1>3. /\ pc' \in [Threads -> Labels] /\ pc'[t] = l
      /\ \A u \in Threads : u # t => pc'[u] = pc[u]
  BY <1>2, GotoEffect DEF Labels
<1>4. TypeOK' BY <1>1, <1>3 DEF Inv, TypeOK
<1>5. Agrees' BY <1>1, AgreesKept DEF Inv
<1>6. Places' BY <1>1, <1>2, <1>3 DEF Inv, Places
<1>7. QuietAfterDestroy' BY <1>1 DEF QuietAfterDestroy
<1>. QED BY <1>1, <1>4, <1>5, <1>6, <1>7 DEF Inv

LEMMA NotifyKeeps ==
  ASSUME Inv, NEW t \in Threads, Notify(t) PROVE Inv' /\ UNCHANGED held
<1>1. Goto(t, "idle") /\ UNCHANGED <<recursive, holder, count, id, held, gone>>
  BY DEF Notify
<1>2. /\ pc' \in [Threads -> Labels] /\ pc'[t] = "idle"
      /\ \A u \in Threads : u # t => pc'[u] = pc[u]
  BY <1>1, GotoEffect DEF Labels
<1>3. TypeOK' BY <1>1, <1>2 DEF Inv, TypeOK
<1>4. Agrees' BY <1>1, AgreesKept DEF Inv
<1>5. Places' BY <1>1, <1>2 DEF Inv, Places
<1>6. QuietAfterDestroy' BY <1>1, <1>2 DEF Inv, QuietAfterDestroy
<1>. QED BY <1>1, <1>3, <1>4, <1>5, <1>6 DEF Inv

\* With the inner mutex in its hand the destructor knows that nobody is on the
\* way out but a thread that has yet to notify.
LEMMA DestroyKeeps ==
  ASSUME Inv, NEW t \in Threads, Destroy(t) PROVE Inv' /\ UNCHANGED held
<1>1. /\ holder = None /\ gone' = TRUE
      /\ \A u \in Threads : pc[u] \in {"idle", "leave", "leave to notify", "notify"}
      /\ UNCHANGED <<recursive, pc, holder, count, id, held>>
  BY DEF Destroy, Destroys
<1>2. TypeOK' BY <1>1 DEF Inv, TypeOK
<1>3. Agrees' BY <1>1, AgreesKept DEF Inv
<1>4. Places' BY <1>1 DEF Inv, Places
<1>5. QuietAfterDestroy' BY <1>1 DEF Inv, Places, QuietAfterDestroy
<1>. QED BY <1>1, <1>2, <1>3, <1>4, <1>5 DEF Inv

LEMMA OtherKeeps ==
  ASSUME Inv, UNCHANGED <<recursive, pc, holder, count, id, held, gone>>
  PROVE  Inv'
<1>1. TypeOK' BY DEF Inv, TypeOK
<1>2. Agrees' BY AgreesKept DEF Inv
<1>3. Places' BY DEF Inv, Places
<1>4. QuietAfterDestroy' BY DEF Inv, QuietAfterDestroy
<1>. QED BY <1>1, <1>2, <1>3, <1>4 DEF Inv

LEMMA InitEstablishes == ASSUME TMInit PROVE Inv /\ Abstract!Init
<1>1. TypeOK
  <2>1. 0 \in 0 .. Limit
    OBVIOUS
  <2>2. pc \in [Threads -> Labels] /\ held \in [Threads -> Nat]
    BY DEF TMInit, Labels
  <2>. QED BY <2>1, <2>2, Zenon DEF TMInit, TypeOK
<1>2. Agrees BY DEF TMInit, Agrees
<1>3. Places BY DEF TMInit, Places
<1>4. QuietAfterDestroy BY DEF TMInit, QuietAfterDestroy
<1>. QED BY <1>1, <1>2, <1>3, <1>4 DEF Inv, TMInit, Abstract!Init

LEMMA StepKeeps ==
  ASSUME Inv, [TMNext]_tmvars PROVE Inv' /\ [Abstract!Next]_held
<1>1. CASE UNCHANGED tmvars
  BY <1>1, OtherKeeps DEF tmvars
<1>2. CASE TMNext
  <2>1. PICK t \in Threads :
           \/ Call(t) \/ TryLock(t) \/ CallUnlock(t) \/ Inside(t)
           \/ Expire(t) \/ WakeUp(t) \/ Destroy(t)
    BY <1>2 DEF TMNext
  <2>2. CASE Call(t) BY <2>2, CallKeeps
  <2>3. CASE TryLock(t) BY <2>3, TryLockKeeps DEF Abstract!Next
  <2>4. CASE CallUnlock(t) BY <2>4, CallUnlockKeeps
  <2>5. CASE Enter(t) BY <2>5, EnterKeeps
  <2>6. CASE Check(t) BY <2>6, CheckKeeps DEF Abstract!Next
  <2>7. CASE Unlock(t) BY <2>7, UnlockKeeps DEF Abstract!Next
  <2>8. CASE Leave(t) BY <2>8, LeaveKeeps
  <2>9. CASE Notify(t) BY <2>9, NotifyKeeps
  <2>10. CASE Expire(t) BY <2>10, OtherKeeps DEF Expire
  <2>11. CASE WakeUp(t) BY <2>11, OtherKeeps DEF WakeUp
  <2>12. CASE Destroy(t) BY <2>12, DestroyKeeps
  <2>. QED
    BY <2>1, <2>2, <2>3, <2>4, <2>5, <2>6, <2>7, <2>8, <2>9, <2>10, <2>11, <2>12 DEF Inside
<1>. QED BY <1>1, <1>2

\* The inductive invariant: the two words of the mutex agree with what the
\* callers have been told.
THEOREM Invariance == TMSpec => []Inv
<1>1. TMInit => Inv
  BY InitEstablishes
<1>2. Inv /\ [TMNext]_tmvars => Inv'
  BY StepKeeps
<1>. QED BY <1>1, <1>2, PTL DEF TMSpec

\* After the destructor of a timed_mutex nobody is inside a call, and after that
\* of a recursive_timed_mutex nobody but a thread that is about to notify.
THEOREM QuietOnceDestroyed == TMSpec => []QuietAfterDestroy
<1>1. Inv => QuietAfterDestroy
  BY DEF Inv
<1>. QED BY <1>1, Invariance, PTL

\* timed_mutex and recursive_timed_mutex are locks, for any number of threads
\* and whatever the timeouts, wake-ups and the barging of try_lock().
THEOREM Refinement == TMSpec => ImplementsLock
<1>1. TMInit => Abstract!Init
  BY InitEstablishes
<1>2. Inv /\ [TMNext]_tmvars => [Abstract!Next]_held
  BY StepKeeps
<1>. QED BY <1>1, <1>2, Invariance, PTL DEF TMSpec, ImplementsLock, Abstract!Spec

-----------------------------------------------------------------------------

(* LockAll: the inductive invariant.                                         *)
LATypeOK ==
  /\ owner \in [Locks -> Threads \cup {None}]
  /\ args \in [Threads -> Seq(Locks)]
  /\ i \in [Threads -> {0, 1}] /\ k \in [Threads -> Nat]
  /\ DOMAIN refused = Threads
  /\ \A t \in Threads : args[t] # <<>> => i[t] < Len(args[t]) /\ k[t] <= Len(args[t])

\* until it has them all a thread holds the first k locks of its round and nothing
\* else, and after its call nothing at all
Mine ==
  \A t \in Threads, l \in Locks :
    /\ args[t] = <<>> => owner[l] # t
    /\ args[t] # <<>> /\ k[t] < Len(args[t]) =>
         (owner[l] = t <=> \E j \in 1 .. k[t] : l = Round(t)[j])

\* a round begins with the lock that refused the last one
Resumes ==
  \A t \in Threads :
    args[t] # <<>> /\ k[t] = 0 /\ refused[t] # None => Round(t)[1] = refused[t]

LAInv == LATypeOK /\ Mine /\ Resumes
-----------------------------------------------------------------------------
\* rotating moves the elements, wrapping round at the end, and keeps them all
LEMMA RotatedAt ==
  ASSUME NEW S, NEW s \in Seq(S), NEW n \in Nat, n < Len(s)
  PROVE  /\ Rotated(s, n) \in Seq(S) /\ Len(Rotated(s, n)) = Len(s)
         /\ \A j \in 1 .. Len(s) :
              Rotated(s, n)[j] = s[IF n + j <= Len(s) THEN n + j ELSE n + j - Len(s)]
<1> DEFINE p == SubSeq(s, n + 1, Len(s))
           q == SubSeq(s, 1, n)
<1>0. Len(s) \in Nat BY LenProperties
<1>1. p \in Seq(S) /\ Len(p) = Len(s) - n /\ \A j \in 1 .. Len(s) - n : p[j] = s[n + j]
  BY <1>0, SubSeqProperties
<1>2. q \in Seq(S) /\ Len(q) = n /\ \A j \in 1 .. n : q[j] = s[j]
  BY <1>0, SubSeqProperties
<1>3. /\ p \o q \in Seq(S) /\ Len(p \o q) = Len(s)
      /\ \A j \in 1 .. Len(s) : (p \o q)[j] = IF j <= Len(p) THEN p[j] ELSE q[j - Len(p)]
  <2> HIDE DEF p, q
  <2>1. Len(p) + Len(q) = Len(s) BY <1>0, <1>1, <1>2
  <2>2. /\ p \o q \in Seq(S) /\ Len(p \o q) = Len(p) + Len(q)
        /\ \A j \in 1 .. Len(p) + Len(q) : (p \o q)[j] = IF j <= Len(p) THEN p[j] ELSE q[j - Len(p)]
    BY <1>1, <1>2, ConcatProperties, Zenon
  <2>. QED BY <2>1, <2>2, Zenon
<1> HIDE DEF p, q
<1>4. Rotated(s, n) = p \o q BY DEF Rotated, p, q
<1>5. ASSUME NEW j \in 1 .. Len(s)
      PROVE  (p \o q)[j] = s[IF n + j <= Len(s) THEN n + j ELSE n + j - Len(s)]
  <2>1. CASE j <= Len(s) - n BY <1>0, <1>1, <1>3, <2>1
  <2>2. CASE ~(j <= Len(s) - n)
    <3>1. j - Len(p) \in 1 .. n BY <1>0, <1>1, <2>2
    <3>. QED BY <1>0, <1>1, <1>2, <1>3, <2>2, <3>1
  <2>. QED BY <2>1, <2>2
<1>. QED BY <1>3, <1>4, <1>5

LEMMA RoundAt ==
  ASSUME LAInv, NEW t \in Threads, args[t] # <<>>
  PROVE  /\ args[t] \in Seq(Locks) /\ Len(args[t]) \in Nat /\ i[t] < Len(args[t])
         /\ Round(t) \in Seq(Locks) /\ Len(Round(t)) = Len(args[t])
         /\ \A j \in 1 .. Len(args[t]) :
              /\ Round(t)[j] = args[t][IF i[t] + j <= Len(args[t]) THEN i[t] + j
                                                                   ELSE i[t] + j - Len(args[t])]
              /\ Round(t)[j] \in ToSet(args[t]) /\ Round(t)[j] \in Locks
<1>1. /\ args[t] \in Seq(Locks) /\ Len(args[t]) \in Nat /\ i[t] \in {0, 1} /\ i[t] < Len(args[t])
  BY LenProperties DEF LAInv, LATypeOK
<1>2. /\ Round(t) \in Seq(Locks) /\ Len(Round(t)) = Len(args[t])
      /\ \A j \in 1 .. Len(args[t]) :
           Round(t)[j] = args[t][IF i[t] + j <= Len(args[t]) THEN i[t] + j ELSE i[t] + j - Len(args[t])]
  BY <1>1, RotatedAt DEF Round
<1>3. DOMAIN args[t] = 1 .. Len(args[t]) BY <1>1, LenProperties
<1>4. ASSUME NEW j \in 1 .. Len(args[t]) PROVE Round(t)[j] \in ToSet(args[t]) /\ Round(t)[j] \in Locks
  <2>1. PICK n \in 1 .. Len(args[t]) : Round(t)[j] = args[t][n]
    BY <1>1, <1>2
  <2>2. args[t][n] \in Locks BY <1>1, ElementOfSeq
  <2>. QED BY <1>3, <2>1, <2>2 DEF ToSet
<1>. QED BY <1>1, <1>2, <1>4

LEMMA LockCallKeeps ==
  ASSUME LAInv, NEW t \in Threads, LockCall(t) PROVE LAInv'
<1>0. /\ args[t] = <<>> /\ owner' = owner
      /\ args' = [args EXCEPT ![t] = Wants[t]] /\ i' = [i EXCEPT ![t] = 0]
      /\ k' = [k EXCEPT ![t] = 0] /\ refused' = [refused EXCEPT ![t] = None]
  BY DEF LockCall, Set
<1>1. Wants[t] \in Seq(Locks) BY WantsAssumption
<1>2. Wants[t] # <<>> => 0 < Len(Wants[t]) BY <1>1, EmptySeq, LenProperties
<1>3. /\ args'[t] = Wants[t] /\ i'[t] = 0 /\ k'[t] = 0 /\ refused'[t] = None
      /\ \A u \in Threads : u # t => args'[u] = args[u] /\ i'[u] = i[u] /\ k'[u] = k[u]
                                                    /\ refused'[u] = refused[u]
  BY <1>0 DEF LAInv, LATypeOK
<1>4. LATypeOK'
  <2>1. owner' \in [Locks -> Threads \cup {None}] BY <1>0 DEF LAInv, LATypeOK
  <2>2. args' \in [Threads -> Seq(Locks)] BY <1>0, <1>1 DEF LAInv, LATypeOK
  <2>3. i' \in [Threads -> {0, 1}] /\ k' \in [Threads -> Nat] BY <1>0 DEF LAInv, LATypeOK
  <2>4. DOMAIN refused' = Threads BY <1>0 DEF LAInv, LATypeOK
  <2>5. ASSUME NEW u \in Threads, args'[u] # <<>> PROVE i'[u] < Len(args'[u]) /\ k'[u] <= Len(args'[u])
    <3>1. CASE u = t
      <4>1. Len(Wants[t]) \in Nat BY <1>1, LenProperties
      <4>. QED BY <1>2, <1>3, <2>5, <3>1, <4>1
    <3>2. CASE u # t BY <1>3, <2>5, <3>2 DEF LAInv, LATypeOK
    <3>. QED BY <3>1, <3>2
  <2>. QED BY <2>1, <2>2, <2>3, <2>4, <2>5 DEF LATypeOK
<1>5. \A u \in Threads : u # t => Round(u)' = Round(u)
  BY <1>3 DEF Round
<1>6. Mine' BY <1>0, <1>3, <1>5 DEF LAInv, Mine
<1>7. Resumes' BY <1>3, <1>5 DEF LAInv, Resumes
<1>. QED BY <1>4, <1>6, <1>7 DEF LAInv

LEMMA LockNextKeeps ==
  ASSUME LAInv, NEW t \in Threads, LockNext(t) PROVE LAInv'
<1>0. /\ args[t] # <<>> /\ k[t] < Len(args[t]) /\ owner[Round(t)[k[t] + 1]] = None
      /\ owner' = [owner EXCEPT ![Round(t)[k[t] + 1]] = t] /\ k' = [k EXCEPT ![t] = k[t] + 1]
      /\ UNCHANGED <<args, i, refused>>
  BY DEF LockNext, Set
<1>1. /\ k[t] \in Nat /\ Len(args[t]) \in Nat /\ k[t] + 1 \in 1 .. Len(args[t])
  BY <1>0, RoundAt DEF LAInv, LATypeOK
<1>2. PICK n \in Locks : n = Round(t)[k[t] + 1]
  BY <1>0, <1>1, RoundAt
<1>3. /\ owner'[n] = t /\ owner[n] = None /\ \A l \in Locks : l # n => owner'[l] = owner[l]
      /\ owner' \in [Locks -> Threads \cup {None}]
      /\ k'[t] = k[t] + 1 /\ \A u \in Threads : u # t => k'[u] = k[u]
  BY <1>0, <1>2 DEF LAInv, LATypeOK
<1>4. LATypeOK'
  BY <1>0, <1>1, <1>3 DEF LAInv, LATypeOK
<1>5. \A u \in Threads : Round(u)' = Round(u)
  BY <1>0 DEF Round
<1>6. Mine'
  <2> SUFFICES ASSUME NEW u \in Threads, NEW l \in Locks
               PROVE  /\ args[u] = <<>> => owner'[l] # u
                      /\ args[u] # <<>> /\ k'[u] < Len(args[u]) =>
                           (owner'[l] = u <=> \E j \in 1 .. k'[u] : l = Round(u)[j])
    BY <1>0, <1>5 DEF Mine
  <2>1. CASE u # t
    <3>1. owner'[l] = u <=> owner[l] = u
      BY <1>3, <2>1, CallersAssumption
    <3>. QED BY <1>3, <2>1, <3>1 DEF LAInv, Mine
  <2>2. CASE u = t
    <3>1. owner[l] = t <=> \E j \in 1 .. k[t] : l = Round(t)[j]
      BY <1>0 DEF LAInv, Mine
    <3>2. (\E j \in 1 .. k[t] + 1 : l = Round(t)[j])
          <=> (\E j \in 1 .. k[t] : l = Round(t)[j]) \/ l = Round(t)[k[t] + 1]
      BY <1>1
    <3>. QED BY <1>0, <1>2, <1>3, <2>2, <3>1, <3>2
  <2>. QED BY <2>1, <2>2
<1>7. Resumes' BY <1>0, <1>1, <1>3, <1>5 DEF LAInv, Resumes
<1>. QED BY <1>4, <1>6, <1>7 DEF LAInv

LEMMA Halves ==
  ASSUME NEW n \in Nat
  PROVE  /\ 2 * (n \div 2) \in Nat /\ n % 2 \in Nat /\ n % 2 \in {0, 1} /\ n % 2 < 2
         /\ 2 * (n \div 2) + (n % 2) = n
  OBVIOUS

\* with the new arguments and the new __i the round begins with the lock that refused
LEMMA NextRound ==
  ASSUME LAInv, NEW t \in Threads, args[t] # <<>>, k[t] \in 1 .. Len(args[t]) - 1,
         NEW n, n = NextI(t, k[t] - 1)
  PROVE  LET new == Rotated(args[t], 2 * (n \div 2))
         IN  /\ new \in Seq(Locks) /\ Len(new) = Len(args[t]) /\ n % 2 \in {0, 1}
             /\ n % 2 < Len(new)
             /\ Rotated(new, n % 2)[1] = Round(t)[k[t] + 1]
<1>a. PICK s \in Seq(Locks), L \in Nat : s = args[t] /\ L = Len(s)
  BY LenProperties DEF LAInv, LATypeOK
<1>0. /\ i[t] \in {0, 1} /\ k[t] \in Nat /\ k[t] + 1 \in 1 .. L /\ k[t] - 1 \in Nat
      /\ L >= 2
  BY <1>a DEF LAInv, LATypeOK
<1>b. Round(t)[k[t] + 1] = s[IF i[t] + (k[t] + 1) <= L THEN i[t] + (k[t] + 1) ELSE i[t] + (k[t] + 1) - L]
  BY <1>0, <1>a, RoundAt, Zenon
<1>1. n \in Nat /\ n < L /\ Round(t)[k[t] + 1] = s[n + 1]
  <2>1. CASE i[t] = 0
    <3>1. n = k[t] BY <1>0, <2>1 DEF NextI
    <3>2. i[t] + (k[t] + 1) = n + 1 /\ i[t] + (k[t] + 1) <= L /\ n \in Nat /\ n < L
      BY <1>0, <2>1, <3>1
    <3>. QED BY <1>b, <3>2, Zenon
  <2>2. CASE i[t] = 1 /\ k[t] = L - 1
    <3>1. n = 0 BY <1>0, <1>a, <2>2 DEF NextI
    <3>2. i[t] + (k[t] + 1) - L = n + 1 /\ ~(i[t] + (k[t] + 1) <= L) /\ n \in Nat /\ n < L
      BY <1>0, <2>2, <3>1
    <3>. QED BY <1>b, <3>2, Zenon
  <2>3. CASE i[t] = 1 /\ k[t] # L - 1
    <3>1. n = k[t] + 1 BY <1>0, <1>a, <2>3 DEF NextI
    <3>2. i[t] + (k[t] + 1) = n + 1 /\ i[t] + (k[t] + 1) <= L /\ n \in Nat /\ n < L
      BY <1>0, <2>3, <3>1
    <3>. QED BY <1>b, <3>2, Zenon
  <2>4. i[t] = 0 \/ i[t] = 1 BY <1>0
  <2>. QED BY <2>1, <2>2, <2>3, <2>4, Zenon
<1>2. PICK m, q : m = 2 * (n \div 2) /\ q = n % 2
  BY Zenon
<1>3. m + q = n /\ m \in Nat /\ q \in Nat /\ q \in {0, 1} /\ q < 2
  BY <1>1, <1>2, Halves, Zenon
<1>c. m < L /\ q < L /\ 1 \in 1 .. L /\ q + 1 \in 1 .. L /\ m + (q + 1) = n + 1 /\ n + 1 <= L
  BY <1>0, <1>1, <1>3
<1>4. PICK new \in Seq(Locks) :
        /\ new = Rotated(s, m) /\ Len(new) = L
        /\ \A j \in 1 .. L : new[j] = s[IF m + j <= L THEN m + j ELSE m + j - L]
  <2>1. m \in Nat /\ m < Len(s) BY <1>a, <1>3, <1>c
  <2>2. Rotated(s, m) \in Seq(Locks) /\ Len(Rotated(s, m)) = Len(s)
    BY <2>1, RotatedAt, Zenon
  <2>3. \A j \in 1 .. Len(s) :
          Rotated(s, m)[j] = s[IF m + j <= Len(s) THEN m + j ELSE m + j - Len(s)]
    BY <2>1, RotatedAt, Zenon
  <2>. QED BY <1>a, <2>2, <2>3, Zenon
<1>5. Rotated(new, q)[1] = new[IF q + 1 <= L THEN q + 1 ELSE q + 1 - L]
  <2>1. q \in Nat /\ q < Len(new) /\ 1 \in 1 .. Len(new) /\ Len(new) = L BY <1>3, <1>4, <1>c
  <2>2. Rotated(new, q)[1] = new[IF q + 1 <= Len(new) THEN q + 1 ELSE q + 1 - Len(new)]
    BY <2>1, RotatedAt, Zenon
  <2>. QED BY <2>1, <2>2, Zenon
<1>6. new[q + 1] = s[n + 1]
  BY <1>4, <1>c
<1>7. Rotated(new, q)[1] = Round(t)[k[t] + 1]
  <2>1. q + 1 <= L BY <1>c
  <2>. QED BY <1>1, <1>5, <1>6, <2>1, Zenon
<1>. QED BY <1>a, <1>2, <1>3, <1>4, <1>7, <1>c, Zenon

LEMMA LockRefusedKeeps ==
  ASSUME LAInv, NEW t \in Threads, LockRefused(t) PROVE LAInv'
<1> DEFINE n == NextI(t, k[t] - 1)
           new == Rotated(args[t], 2 * (n \div 2))
<1>0. /\ args[t] # <<>> /\ k[t] \in 1 .. Len(args[t]) - 1
      /\ owner' = [l \in Locks |-> IF l \in GivenBack(t) THEN None ELSE owner[l]]
      /\ args' = [args EXCEPT ![t] = new] /\ i' = [i EXCEPT ![t] = n % 2]
      /\ refused' = [refused EXCEPT ![t] = Round(t)[k[t] + 1]] /\ k' = [k EXCEPT ![t] = 0]
  BY DEF LockRefused, Set
<1>1. /\ new \in Seq(Locks) /\ Len(new) = Len(args[t]) /\ n % 2 \in {0, 1}
      /\ n % 2 < Len(new) /\ Rotated(new, n % 2)[1] = Round(t)[k[t] + 1]
  BY <1>0, NextRound
<1>2. /\ Len(args[t]) \in Nat /\ k[t] \in Nat /\ k[t] < Len(args[t])
      /\ \A j \in 1 .. Len(args[t]) : Round(t)[j] \in ToSet(args[t])
  BY <1>0, RoundAt DEF LAInv, LATypeOK
<1> HIDE DEF n, new
<1>3. /\ args'[t] = new /\ i'[t] = n % 2 /\ k'[t] = 0 /\ refused'[t] = Round(t)[k[t] + 1]
      /\ \A u \in Threads : u # t => args'[u] = args[u] /\ i'[u] = i[u] /\ k'[u] = k[u]
                                                    /\ refused'[u] = refused[u]
  BY <1>0 DEF LAInv, LATypeOK
<1>4. /\ owner' \in [Locks -> Threads \cup {None}]
      /\ \A l \in Locks : owner'[l] = IF owner[l] = t THEN None ELSE owner[l]
  <2>1. ASSUME NEW l \in Locks PROVE l \in GivenBack(t) <=> owner[l] = t
    <3>1. owner[l] = t => \E j \in 1 .. k[t] : l = Round(t)[j]
      BY <1>0, <1>2 DEF LAInv, Mine
    <3>2. owner[l] = t => l \in ToSet(args[t])
      BY <1>2, <3>1
    <3>. QED BY <3>2 DEF GivenBack
  <2>. QED BY <1>0, <2>1 DEF LAInv, LATypeOK
<1>5. LATypeOK'
  BY <1>0, <1>1, <1>2, <1>3, <1>4 DEF LAInv, LATypeOK
<1>6. \A u \in Threads : u # t => Round(u)' = Round(u)
  BY <1>3 DEF Round
<1>7. Mine'
  <2> SUFFICES ASSUME NEW u \in Threads, NEW l \in Locks
               PROVE  /\ args'[u] = <<>> => owner'[l] # u
                      /\ args'[u] # <<>> /\ k'[u] < Len(args'[u]) =>
                           (owner'[l] = u <=> \E j \in 1 .. k'[u] : l = Round(u)'[j])
    BY DEF Mine
  <2>1. CASE u # t
    <3>1. owner'[l] = u <=> owner[l] = u
      BY <1>4, <2>1, CallersAssumption
    <3>. QED BY <1>3, <1>6, <2>1, <3>1 DEF LAInv, Mine
  <2>2. CASE u = t
    <3>1. owner'[l] # t BY <1>4, CallersAssumption
    <3>2. ~ \E j \in 1 .. k'[t] : l = Round(t)'[j] BY <1>3
    <3>. QED BY <2>2, <3>1, <3>2
  <2>. QED BY <2>1, <2>2
<1>8. Resumes'
  <2>1. Round(t)'[1] = refused'[t]
    BY <1>1, <1>3 DEF Round
  <2>. QED BY <1>3, <1>6, <2>1 DEF LAInv, Resumes
<1>. QED BY <1>5, <1>7, <1>8 DEF LAInv

LEMMA UnlockOneKeeps ==
  ASSUME LAInv, NEW t \in Threads, UnlockOne(t) PROVE LAInv'
<1>0. PICK n \in Locks :
        /\ owner[n] = t /\ owner' = [owner EXCEPT ![n] = None]
        /\ IF \E m \in Locks \ {n} : owner[m] = t THEN UNCHANGED args
                                                   ELSE args' = [args EXCEPT ![t] = <<>>]
  BY DEF UnlockOne, Set
<1>1. args[t] # <<>> /\ k[t] = Len(args[t]) /\ UNCHANGED <<i, k, refused>>
  BY DEF UnlockOne, LockDone
<1>2. /\ owner' \in [Locks -> Threads \cup {None}] /\ owner'[n] = None
      /\ \A l \in Locks : l # n => owner'[l] = owner[l]
  BY <1>0 DEF LAInv, LATypeOK
<1>3. /\ args' \in [Threads -> Seq(Locks)]
      /\ \A u \in Threads : u # t => args'[u] = args[u]
      /\ args'[t] = args[t] \/ (args'[t] = <<>> /\ \A l \in Locks : owner'[l] # t)
  <2>1. <<>> \in Seq(Locks) BY EmptySeq
  <2>2. CASE \E m \in Locks \ {n} : owner[m] = t BY <1>0, <2>2 DEF LAInv, LATypeOK
  <2>3. CASE ~ \E m \in Locks \ {n} : owner[m] = t
    BY <1>0, <1>2, <2>1, <2>3, CallersAssumption DEF LAInv, LATypeOK
  <2>. QED BY <2>2, <2>3
<1>4. LATypeOK'
  BY <1>1, <1>2, <1>3 DEF LAInv, LATypeOK
<1>5. \A u \in Threads : u # t => Round(u)' = Round(u)
  BY <1>1, <1>3 DEF Round
<1>6. Mine'
  <2>1. \A u \in Threads, l \in Locks : u # t => (owner'[l] = u <=> owner[l] = u)
    BY <1>0, <1>2, CallersAssumption
  <2>2. Len(args[t]) \in Nat BY LenProperties DEF LAInv, LATypeOK
  <2>. QED BY <1>1, <1>3, <1>5, <2>1, <2>2 DEF LAInv, Mine
<1>7. Resumes'
  <2>1. k[t] # 0
    BY <1>1 DEF LAInv, LATypeOK
  <2>. QED BY <1>1, <1>3, <1>5, <2>1 DEF LAInv, Resumes
<1>. QED BY <1>4, <1>6, <1>7 DEF LAInv

\* std::lock cannot deadlock: for any number of threads, locks and argument lists a
\* thread that blocks holds nothing and waits for the lock that refused it, and the
\* locks it holds are those of its round, to the last one when it returns.
THEOREM LockNeverDeadlocks == LASpec => []LocksSafely
<1>1. LAInv => LocksSafely
  <2> SUFFICES ASSUME LAInv PROVE LocksSafely OBVIOUS
  <2>1. BlocksEmptyHanded
    <3> SUFFICES ASSUME NEW t \in Threads, args[t] # <<>>, k[t] = 0
                 PROVE  /\ \A l \in Locks : owner[l] # t
                        /\ refused[t] # None => Round(t)[1] = refused[t]
      BY DEF BlocksEmptyHanded
    <3>1. 0 < Len(args[t]) BY RoundAt DEF LAInv, LATypeOK
    <3>2. \A l \in Locks : owner[l] # t BY <3>1 DEF LAInv, Mine
    <3>. QED BY <3>2 DEF LAInv, Resumes
  <2>2. HoldsItsRound
    <3> SUFFICES ASSUME NEW t \in Threads
                 PROVE  /\ args[t] # <<>> /\ ~LockDone(t) =>
                             {l \in Locks : owner[l] = t} = {Round(t)[j] : j \in 1 .. k[t]}
                        /\ args[t] = <<>> => \A l \in Locks : owner[l] # t
      BY DEF HoldsItsRound
    <3>1. ASSUME args[t] # <<>>, ~LockDone(t)
          PROVE  {l \in Locks : owner[l] = t} = {Round(t)[j] : j \in 1 .. k[t]}
      <4>1. k[t] \in Nat /\ Len(args[t]) \in Nat /\ k[t] < Len(args[t])
        BY <3>1, RoundAt DEF LAInv, LATypeOK, LockDone
      <4>2. \A j \in 1 .. k[t] : Round(t)[j] \in Locks
        BY <3>1, <4>1, RoundAt
      <4>3. \A l \in Locks : owner[l] = t <=> \E j \in 1 .. k[t] : l = Round(t)[j]
        BY <3>1, <4>1 DEF LAInv, Mine
      <4>. QED BY <4>2, <4>3
    <3>. QED BY <3>1 DEF LAInv, Mine
  <2>. QED BY <2>1, <2>2 DEF LocksSafely
<1>2. LAInit => LAInv
  <2> SUFFICES ASSUME LAInit PROVE LAInv OBVIOUS
  <2>1. <<>> \in Seq(Locks) BY EmptySeq
  <2>2. LATypeOK BY <2>1 DEF LAInit, LATypeOK
  <2>3. Mine BY CallersAssumption DEF LAInit, Mine
  <2>4. Resumes BY DEF LAInit, Resumes
  <2>. QED BY <2>2, <2>3, <2>4 DEF LAInv
<1>3. LAInv /\ [LANext]_lavars => LAInv'
  <2>1. ASSUME LAInv, UNCHANGED lavars PROVE LAInv'
    BY <2>1 DEF LAInv, LATypeOK, Mine, Resumes, Round, lavars
  <2>2. ASSUME LAInv, LANext PROVE LAInv'
    BY <2>2, LockCallKeeps, LockNextKeeps, LockRefusedKeeps, UnlockOneKeeps DEF LANext
  <2>. QED BY <2>1, <2>2
<1>. QED BY <1>1, <1>2, <1>3, PTL DEF LASpec

-----------------------------------------------------------------------------

(* CallOnce: the inductive invariant.                                        *)
OncePlaces == {"out", "enter", "asleep", "run", "ran", "threw", "wake", "wake and throw"}

OnceTypeOK ==
  /\ flag \in [Flags -> {0, 1, Done}] /\ completed \in [Flags -> Nat]
  /\ at \in [Threads -> OncePlaces] /\ DOMAIN on = Threads
  /\ \A t \in Threads : at[t] # "out" => on[t] \in Flags
  /\ returned \subseteq Threads \X Flags

\* who is in the function of f, or has just left it
Running(t, f) == on[t] = f /\ at[t] \in {"run", "ran", "threw"}

\* what the word of a flag tells: 1 that one thread is in its function, Done that
\* it has returned once; nobody returns before that
OneRuns == \A f \in Flags :
  /\ \A t \in Threads : Running(t, f) => flag[f] = 1
  /\ \A t, u \in Threads : Running(t, f) /\ Running(u, f) => t = u
Counted == \A f \in Flags :
  /\ completed[f] \in {0, 1}
  /\ completed[f] = 1 <=> \/ flag[f] = Done
                          \/ \E t \in Threads : Running(t, f) /\ at[t] = "ran"
Told == \A t \in Threads :
  /\ at[t] = "wake" => flag[on[t]] = Done
  /\ \A f \in Flags : <<t, f>> \in returned => flag[f] = Done

OnceInv == OnceTypeOK /\ OneRuns /\ Counted /\ Told
-----------------------------------------------------------------------------
LEMMA AtEffect ==
  ASSUME OnceInv, NEW t \in Threads, NEW l \in OncePlaces, At(t, l)
  PROVE  /\ at' \in [Threads -> OncePlaces] /\ at'[t] = l
         /\ \A u \in Threads : u # t => at'[u] = at[u]
  BY DEF OnceInv, OnceTypeOK, At

LEMMA OnceCallKeeps ==
  ASSUME OnceInv, NEW t \in Threads, NEW f \in Flags, OnceCall(t, f) PROVE OnceInv'
<1>0. /\ at[t] = "out" /\ UNCHANGED <<flag, asleepOn, completed>>
      /\ on' = [on EXCEPT ![t] = f]
  BY DEF OnceCall
<1>1. PICK l \in {"out", "enter"} : 
        /\ At(t, l)
        /\ returned' = returned \/ (flag[f] = Done /\ returned' = returned \cup {<<t, f>>})
  BY DEF OnceCall, Skips, Return
<1>2. /\ at' \in [Threads -> OncePlaces] /\ at'[t] = l
      /\ \A u \in Threads : u # t => at'[u] = at[u]
  BY <1>1, AtEffect DEF OncePlaces
<1>3. on'[t] = f /\ \A u \in Threads : u # t => on'[u] = on[u]
  BY <1>0 DEF OnceInv, OnceTypeOK
<1>9. returned' \subseteq Threads \X Flags
  BY <1>1 DEF OnceInv, OnceTypeOK
<1>4. OnceTypeOK' BY <1>0, <1>2, <1>3, <1>9 DEF OnceInv, OnceTypeOK
<1>5. \A u \in Threads, g \in Flags : Running(u, g)' <=> Running(u, g)
  BY <1>0, <1>2, <1>3 DEF Running
<1>6. OneRuns' BY <1>0, <1>5 DEF OnceInv, OneRuns
<1>7. Counted' BY <1>0, <1>2, <1>5 DEF OnceInv, Counted, Running
<1>8. Told' BY <1>0, <1>1, <1>2, <1>3 DEF OnceInv, Told
<1>. QED BY <1>4, <1>6, <1>7, <1>8 DEF OnceInv

LEMMA OnceEnterKeeps ==
  ASSUME OnceInv, NEW t \in Threads, OnceEnter(t) PROVE OnceInv'
<1>0. /\ at[t] \in {"enter", "asleep"} /\ on[t] \in Flags /\ UNCHANGED <<on, completed>>
      /\ 0 # Done /\ 1 # Done
  BY DEF OnceEnter, OnceInv, OnceTypeOK, Done
<1>a. PICK f \in Flags : f = on[t]
  BY <1>0
<1>1. PICK l \in OncePlaces :
        /\ At(t, l) /\ l \in {"asleep", "run", "out"}
        /\ l = "run" => flag[f] = 0 /\ flag' = [flag EXCEPT ![f] = 1]
        /\ l # "run" => flag' = flag
        /\ \/ returned' = returned
           \/ l = "out" /\ flag[f] = Done /\ returned' = returned \cup {<<t, f>>}
  <2>1. "asleep" \in OncePlaces /\ "run" \in OncePlaces /\ "out" \in OncePlaces BY DEF OncePlaces
  <2>2. CASE flag[f] = 1 BY <1>0, <1>a, <2>1, <2>2 DEF OnceEnter, Return
  <2>3. CASE flag[f] = 0 BY <1>0, <1>a, <2>1, <2>3 DEF OnceEnter, Return
  <2>4. CASE flag[f] = Done BY <1>0, <1>a, <2>1, <2>4 DEF OnceEnter, Return
  <2>. QED BY <1>a, <2>2, <2>3, <2>4 DEF OnceEnter
<1>2. /\ at' \in [Threads -> OncePlaces] /\ at'[t] = l
      /\ \A u \in Threads : u # t => at'[u] = at[u]
  BY <1>1, AtEffect
<1>3. returned' \subseteq Threads \X Flags
  <2>1. <<t, f>> \in Threads \X Flags OBVIOUS
  <2>. QED BY <1>1, <2>1 DEF OnceInv, OnceTypeOK
<1>b. flag \in [Flags -> {0, 1, Done}] BY DEF OnceInv, OnceTypeOK
<1>4. flag' \in [Flags -> {0, 1, Done}] /\ \A g \in Flags : g # f => flag'[g] = flag[g]
  BY <1>1, <1>b
<1>5. OnceTypeOK' BY <1>0, <1>2, <1>3, <1>4 DEF OnceInv, OnceTypeOK
<1>6. \A u \in Threads, g \in Flags : Running(u, g)' <=> Running(u, g) \/ (u = t /\ g = f /\ l = "run")
  BY <1>0, <1>a, <1>1, <1>2 DEF Running
<1>c. \A u \in Threads, g \in Flags : Running(u, g) => u # t
  BY <1>0 DEF Running
<1>7. CASE l # "run"
  <2>0. flag' = flag BY <1>1, <1>7
  <2>1. OneRuns' BY <2>0, <1>6, <1>7 DEF OnceInv, OneRuns
  <2>2. Counted' BY <1>0, <2>0, <1>2, <1>6, <1>7, <1>c DEF OnceInv, Counted
  <2>3. Told'
    <3>1. \A u \in Threads : at'[u] = "wake" => at[u] = "wake" /\ on'[u] = on[u]
      BY <1>0, <1>1, <1>2
    <3>2. ASSUME NEW u \in Threads, NEW g \in Flags, <<u, g>> \in returned'
          PROVE  <<u, g>> \in returned \/ flag[g] = Done
      BY <1>1, <3>2
    <3>. QED BY <2>0, <3>1, <3>2 DEF OnceInv, Told
  <2>. QED BY <1>5, <2>1, <2>2, <2>3 DEF OnceInv
<1>8. CASE l = "run"
  <2>0. flag[f] = 0 /\ flag'[f] = 1 /\ \A u \in Threads : ~Running(u, f)
    <3>1. flag[f] = 0 /\ flag'[f] = 1 BY <1>1, <1>8, <1>b
    <3>. QED BY <3>1 DEF OnceInv, OneRuns
  <2>1. OneRuns' BY <1>4, <1>6, <2>0 DEF OnceInv, OneRuns
  <2>2. Counted'
    <3>1. ASSUME NEW g \in Flags, g # f
          PROVE  (\E u \in Threads : Running(u, g) /\ at[u] = "ran")
                 <=> (\E u \in Threads : Running(u, g)' /\ at'[u] = "ran")
      BY <1>2, <1>6, <1>c, <3>1
    <3>2. ~ \E u \in Threads : Running(u, f)' /\ at'[u] = "ran"
      BY <1>2, <1>6, <1>8, <2>0
    <3>3. completed[f] = 0 BY <1>0, <2>0 DEF OnceInv, Counted
    <3>. QED BY <1>0, <1>4, <2>0, <3>1, <3>2, <3>3 DEF OnceInv, Counted
  <2>3. Told'
    <3>1. \A g \in Flags : flag[g] = Done => flag'[g] = Done
      BY <1>0, <1>4, <2>0
    <3>2. \A u \in Threads : at'[u] = "wake" => at[u] = "wake" /\ on'[u] = on[u] /\ on[u] \in Flags
      BY <1>0, <1>1, <1>2 DEF OnceInv, OnceTypeOK
    <3>. QED BY <1>1, <1>8, <3>1, <3>2 DEF OnceInv, Told
  <2>. QED BY <1>5, <2>1, <2>2, <2>3 DEF OnceInv
<1>. QED BY <1>7, <1>8

LEMMA OnceRunKeeps ==
  ASSUME OnceInv, NEW t \in Threads, OnceRun(t) PROVE OnceInv'
<1> DEFINE f == on[t]
<1>0. /\ at[t] = "run" /\ f \in Flags /\ UNCHANGED <<flag, on, returned>>
      /\ Running(t, f) /\ flag[f] = 1 /\ flag[f] # Done
  BY DEF OnceRun, OnceInv, OnceTypeOK, OneRuns, Running, Done
<1>1. PICK l \in {"ran", "threw"} :
        /\ At(t, l)
        /\ completed' = IF l = "ran" THEN [completed EXCEPT ![f] = @ + 1] ELSE completed
  BY DEF OnceRun
<1>2. /\ at' \in [Threads -> OncePlaces] /\ at'[t] = l
      /\ \A u \in Threads : u # t => at'[u] = at[u]
  BY <1>1, AtEffect DEF OncePlaces
<1>3. /\ completed[f] = 0 /\ \A u \in Threads : Running(u, f) => u = t
      /\ completed \in [Flags -> Nat]
  BY <1>0 DEF OnceInv, Counted, OneRuns, OnceTypeOK
<1>4. /\ completed' \in [Flags -> Nat] /\ completed'[f] = IF l = "ran" THEN 1 ELSE 0
      /\ \A g \in Flags : g # f => completed'[g] = completed[g]
  BY <1>0, <1>1, <1>3
<1>5. OnceTypeOK' BY <1>0, <1>2, <1>4 DEF OnceInv, OnceTypeOK
<1>6. \A u \in Threads, g \in Flags : Running(u, g)' <=> Running(u, g)
  BY <1>0, <1>2 DEF Running
<1>7. OneRuns' BY <1>0, <1>6 DEF OnceInv, OneRuns
<1>8. Counted'
  <2>1. ASSUME NEW g \in Flags, g # f
        PROVE  (\E u \in Threads : Running(u, g) /\ at[u] = "ran")
               <=> (\E u \in Threads : Running(u, g)' /\ at'[u] = "ran")
    BY <1>2, <1>6, <2>1 DEF Running
  <2>2. (\E u \in Threads : Running(u, f)' /\ at'[u] = "ran") <=> l = "ran"
    BY <1>0, <1>2, <1>3, <1>6
  <2>. QED BY <1>0, <1>4, <2>1, <2>2 DEF OnceInv, Counted
<1>9. Told' BY <1>0, <1>2 DEF OnceInv, Told
<1>. QED BY <1>5, <1>7, <1>8, <1>9 DEF OnceInv

LEMMA OnceStoreKeeps ==
  ASSUME OnceInv, NEW t \in Threads, OnceStore(t) PROVE OnceInv'
<1>a. at[t] \in {"ran", "threw"} /\ UNCHANGED <<on, completed, returned>>
  BY DEF OnceStore
<1>b. PICK f \in Flags : f = on[t]
  BY <1>a DEF OnceInv, OnceTypeOK
<1>c. Running(t, f) BY <1>a, <1>b DEF Running
<1>d. flag[f] = 1 /\ flag[f] # Done /\ 0 # Done BY <1>c DEF OnceInv, OneRuns, Done
<1>e. \A u \in Threads : Running(u, f) => u = t BY <1>c DEF OnceInv, OneRuns
<1>0. /\ at[t] \in {"ran", "threw"} /\ f \in Flags /\ UNCHANGED <<on, completed, returned>>
      /\ Running(t, f) /\ flag[f] = 1 /\ flag[f] # Done /\ 0 # Done
      /\ \A u \in Threads : Running(u, f) => u = t
  BY <1>a, <1>b, <1>c, <1>d, <1>e
<1>1. PICK l \in {"wake", "wake and throw"} :
        /\ At(t, l) /\ (l = "wake" <=> at[t] = "ran")
        /\ flag' = [flag EXCEPT ![f] = IF l = "wake" THEN Done ELSE 0]
  BY <1>b DEF OnceStore
<1>2. /\ at' \in [Threads -> OncePlaces] /\ at'[t] = l
      /\ \A u \in Threads : u # t => at'[u] = at[u]
  BY <1>1, AtEffect DEF OncePlaces
<1>3. /\ flag' \in [Flags -> {0, 1, Done}] /\ flag'[f] = IF l = "wake" THEN Done ELSE 0
      /\ \A g \in Flags : g # f => flag'[g] = flag[g]
  BY <1>0, <1>1 DEF OnceInv, OnceTypeOK
<1>4. OnceTypeOK' BY <1>0, <1>2, <1>3 DEF OnceInv, OnceTypeOK
<1>5. \A u \in Threads, g \in Flags : Running(u, g)' <=> Running(u, g) /\ u # t
  BY <1>0, <1>2 DEF Running
<1>6. OneRuns' BY <1>0, <1>3, <1>5 DEF OnceInv, OneRuns
<1>7. Counted'
  <2>1. ASSUME NEW g \in Flags, g # f
        PROVE  (\E u \in Threads : Running(u, g) /\ at[u] = "ran")
               <=> (\E u \in Threads : Running(u, g)' /\ at'[u] = "ran")
    BY <1>0, <1>2, <1>5, <2>1 DEF Running
  <2>2. ~ \E u \in Threads : Running(u, f)' /\ at'[u] = "ran"
    BY <1>0, <1>5
  <2>3. (\E u \in Threads : Running(u, f) /\ at[u] = "ran") <=> l = "wake"
    BY <1>0, <1>1
  <2>4. completed[f] \in {0, 1} /\ (completed[f] = 1 <=> l = "wake")
    BY <1>0, <2>3 DEF OnceInv, Counted
  <2>. QED BY <1>0, <1>3, <2>1, <2>2, <2>4 DEF OnceInv, Counted
<1>8. Told'
  <2>1. \A g \in Flags : flag[g] = Done => flag'[g] = Done
    BY <1>0, <1>3
  <2>2. ASSUME NEW u \in Threads, at'[u] = "wake" PROVE flag'[on[u]] = Done
    <3>1. CASE u = t BY <1>2, <1>3, <1>b, <2>2, <3>1
    <3>2. CASE u # t
      <4>1. at[u] = "wake" /\ on[u] \in Flags BY <1>2, <2>2, <3>2 DEF OnceInv, OnceTypeOK
      <4>. QED BY <2>1, <4>1 DEF OnceInv, Told
    <3>. QED BY <3>1, <3>2
  <2>. QED BY <1>0, <2>1, <2>2 DEF OnceInv, Told
<1>. QED BY <1>4, <1>6, <1>7, <1>8 DEF OnceInv

LEMMA OnceWakeKeeps ==
  ASSUME OnceInv, NEW t \in Threads, OnceWake(t) PROVE OnceInv'
<1>0. /\ at[t] \in {"wake", "wake and throw"} /\ UNCHANGED <<flag, on, completed>> /\ At(t, "out")
  BY DEF OnceWake, Return
<1>a. PICK f \in Flags : f = on[t]
  BY <1>0 DEF OnceInv, OnceTypeOK
<1>1. returned' = returned \/ (flag[f] = Done /\ returned' = returned \cup {<<t, f>>})
  BY <1>a DEF OnceWake, Return, OnceInv, Told
<1>2. /\ at' \in [Threads -> OncePlaces] /\ at'[t] = "out"
      /\ \A u \in Threads : u # t => at'[u] = at[u]
  BY <1>0, AtEffect DEF OncePlaces
<1>3. returned' \subseteq Threads \X Flags
  <2>1. <<t, f>> \in Threads \X Flags OBVIOUS
  <2>. QED BY <1>1, <2>1 DEF OnceInv, OnceTypeOK
<1>4. OnceTypeOK' BY <1>0, <1>2, <1>3 DEF OnceInv, OnceTypeOK
<1>5. \A u \in Threads, g \in Flags : Running(u, g)' <=> Running(u, g)
  BY <1>0, <1>2 DEF Running
<1>6. OneRuns' BY <1>0, <1>5 DEF OnceInv, OneRuns
<1>7. Counted'
  <2>1. \A u \in Threads, g \in Flags : Running(u, g) => u # t
    BY <1>0 DEF Running
  <2>2. \A u \in Threads, g \in Flags :
          Running(u, g)' /\ at'[u] = "ran" <=> Running(u, g) /\ at[u] = "ran"
    BY <1>2, <1>5, <2>1
  <2>3. Counted /\ completed' = completed /\ flag' = flag BY <1>0 DEF OnceInv
  <2>. QED BY <2>2, <2>3 DEF Counted
<1>8. Told'
  <2>1. \A u \in Threads : at'[u] = "wake" => at[u] = "wake"
    BY <1>2
  <2>2. ASSUME NEW u \in Threads, NEW g \in Flags, <<u, g>> \in returned'
        PROVE  <<u, g>> \in returned \/ flag[g] = Done
    BY <1>1, <2>2
  <2>. QED BY <1>0, <2>1, <2>2 DEF OnceInv, Told
<1>. QED BY <1>4, <1>6, <1>7, <1>8 DEF OnceInv

LEMMA OnceOtherKeeps ==
  ASSUME OnceInv, UNCHANGED <<flag, at, on, completed, returned>> PROVE OnceInv'
  BY DEF OnceInv, OnceTypeOK, OneRuns, Counted, Told, Running

LEMMA OnceInitEstablishes == ASSUME COInit PROVE OnceInv
<1>1. OnceTypeOK
  BY DEF COInit, OnceTypeOK, OncePlaces
<1>2. OneRuns /\ Counted /\ Told
  BY DEF COInit, OneRuns, Counted, Told, Running, Done
<1>. QED BY <1>1, <1>2 DEF OnceInv

LEMMA OnceStepKeeps == ASSUME OnceInv, [CONext]_covars PROVE OnceInv'
<1>1. CASE UNCHANGED covars
  BY <1>1, OnceOtherKeeps DEF covars
<1>2. CASE CONext
  <2>1. PICK t \in Threads : \/ \E f \in Flags : OnceCall(t, f)
                             \/ OnceInside(t) \/ OnceSpurious(t)
    BY <1>2 DEF CONext
  <2>2. CASE \E f \in Flags : OnceCall(t, f) BY <2>2, OnceCallKeeps
  <2>3. CASE OnceEnter(t) BY <2>3, OnceEnterKeeps
  <2>4. CASE OnceRun(t) BY <2>4, OnceRunKeeps
  <2>5. CASE OnceStore(t) BY <2>5, OnceStoreKeeps
  <2>6. CASE OnceWake(t) BY <2>6, OnceWakeKeeps
  <2>7. CASE OnceSpurious(t) BY <2>7, OnceOtherKeeps DEF OnceSpurious
  <2>. QED BY <2>1, <2>2, <2>3, <2>4, <2>5, <2>6, <2>7 DEF OnceInside
<1>. QED BY <1>1, <1>2

\* call_once runs a function to its end at most once, one thread at a time, and
\* returns to nobody before that: for any number of threads and flags, however
\* often the function throws, and whoever takes the shortcut past the mutex.
THEOREM FunctionsRunOnce == COSpec => []OnlyOnce
<1>1. OnceInv => OnlyOnce
  <2> SUFFICES ASSUME OnceInv, NEW f \in Flags
               PROVE  LET inside == {t \in Threads : on[t] = f /\ at[t] \in {"run", "ran", "threw"}}
                      IN  /\ completed[f] <= 1
                          /\ Cardinality(inside) <= 1 /\ (completed[f] = 1 => \A t \in inside : at[t] = "ran")
                          /\ \A t \in Threads : <<t, f>> \in returned => completed[f] = 1
    BY DEF OnlyOnce
  <2> DEFINE inside == {t \in Threads : on[t] = f /\ at[t] \in {"run", "ran", "threw"}}
  <2>1. completed[f] \in {0, 1} /\ 1 # Done
    BY DEF OnceInv, Counted, Done
  <2>2. \A t, u \in inside : t = u
    BY DEF OnceInv, OneRuns, Running
  <2>3. Cardinality(inside) <= 1
    <3>1. CASE inside = {} BY <3>1, FS_EmptySet
    <3>2. CASE inside # {}
      <4>1. PICK t \in inside : TRUE BY <3>2
      <4>2. inside = {t} BY <2>2, <4>1
      <4>3. Cardinality({t}) = 1 BY FS_Singleton
      <4>. QED BY <4>2, <4>3
    <3>. QED BY <3>1, <3>2
  <2>4. ASSUME completed[f] = 1, NEW t \in inside PROVE at[t] = "ran"
    <3>1. Running(t, f) /\ flag[f] # Done
      BY <2>1 DEF OnceInv, OneRuns, Running
    <3>2. PICK u \in Threads : Running(u, f) /\ at[u] = "ran"
      BY <2>4, <3>1 DEF OnceInv, Counted
    <3>. QED BY <3>1, <3>2 DEF OnceInv, OneRuns
  <2>5. \A t \in Threads : <<t, f>> \in returned => completed[f] = 1
    BY DEF OnceInv, Told, Counted
  <2>. QED BY <2>1, <2>3, <2>4, <2>5
<1>2. COInit => OnceInv
  BY OnceInitEstablishes
<1>3. OnceInv /\ [CONext]_covars => OnceInv'
  BY OnceStepKeeps
<1>. QED BY <1>1, <1>2, <1>3, PTL DEF COSpec

-----------------------------------------------------------------------------

(* MallocThreadX: the inductive invariant.                                   *)
\* initialized_ is set after the pool was created, and all that is allocated
\* was allocated after that.
Announced ==
    /\ initialized => created
    /\ \A t \in Threads :
          /\ stage[t] = "signal" => created
          /\ stage[t] = "allocate" \/ owned[t] # {} => initialized

MXInv == MXTypeOK /\ Announced /\ HandedOutOnce

LEMMA InitMX == MXInit => MXInv
BY DEF MXInit, MXInv, MXTypeOK, Announced, HandedOutOnce

\* What a jump does to the labels.
LEMMA ProceedEffect ==
    ASSUME MXTypeOK, NEW t \in Threads,
           NEW l \in {"idle", "swap", "create", "signal", "wait", "allocate"},
           Proceed(t, l)
    PROVE  /\ stage' \in [Threads ->
                       {"idle", "swap", "create", "signal", "wait", "allocate"}]
           /\ stage'[t] = l
           /\ \A u \in Threads \ {t} : stage'[u] = stage[u]
BY DEF Proceed, MXTypeOK

LEMMA CallInv ==
    ASSUME MXInv, NEW t \in Threads, CallMalloc(t)
    PROVE  MXInv'
<1>1. PICK l \in {"swap", "wait"} : Proceed(t, l)
  BY DEF CallMalloc
<1>2. /\ stage' \in [Threads -> {"idle", "swap", "create", "signal", "wait", "allocate"}]
      /\ stage'[t] \in {"swap", "wait"} /\ \A u \in Threads \ {t} : stage'[u] = stage[u]
  BY <1>1, ProceedEffect DEF MXInv
<1>3. UNCHANGED <<malloc, initialized, created, pool, owned, halted>>
  BY DEF CallMalloc
<1> QED BY <1>2, <1>3 DEF MXInv, MXTypeOK, Announced, HandedOutOnce

LEMMA SwapInv ==
    ASSUME MXInv, NEW t \in Threads, Swap(t)
    PROVE  MXInv'
<1>1. /\ stage' \in [Threads -> {"idle", "swap", "create", "signal", "wait", "allocate"}]
      /\ stage'[t] = "create" /\ \A u \in Threads \ {t} : stage'[u] = stage[u]
  BY ProceedEffect DEF MXInv, Swap
<1>2. malloc' = "do" /\ UNCHANGED <<initialized, created, pool, owned, halted>>
  BY DEF Swap
<1> QED BY <1>1, <1>2 DEF MXInv, MXTypeOK, Announced, HandedOutOnce

\* The pool that is created is new, or nobody checks.
LEMMA CreateInv ==
    ASSUME MXInv, NEW t \in Threads, Create(t)
    PROVE  MXInv'
<1>1. CASE created /\ Checked
  BY <1>1 DEF Create, MXInv, MXTypeOK, Announced, HandedOutOnce
<1>2. CASE ~(created /\ Checked)
  <2>1. /\ stage' \in [Threads -> {"idle", "swap", "create", "signal", "wait", "allocate"}]
        /\ stage'[t] = "signal" /\ \A u \in Threads \ {t} : stage'[u] = stage[u]
    BY <1>2, ProceedEffect DEF MXInv, Create
  <2>2. /\ created' = TRUE /\ pool' = Units
        /\ UNCHANGED <<malloc, initialized, owned, halted>>
    BY <1>2 DEF Create
  <2>3. MXTypeOK' /\ Announced'
    BY <2>1, <2>2 DEF MXInv, MXTypeOK, Announced
  <2>4. HandedOutOnce'
    <3> SUFFICES ASSUME Checked
                 PROVE  \A u \in Threads : owned'[u] = {}
      BY DEF HandedOutOnce
    <3>1. ~created
      BY <1>2
    <3>2. \A u \in Threads : owned[u] = {}
      BY <3>1 DEF MXInv, Announced
    <3> QED BY <2>2, <3>2
  <2> QED BY <2>3, <2>4 DEF MXInv
<1> QED BY <1>1, <1>2

LEMMA SignalInv ==
    ASSUME MXInv, NEW t \in Threads, Signal(t)
    PROVE  MXInv'
<1>1. /\ stage' \in [Threads -> {"idle", "swap", "create", "signal", "wait", "allocate"}]
      /\ stage'[t] = "wait" /\ \A u \in Threads \ {t} : stage'[u] = stage[u]
      /\ stage[t] = "signal"
  BY ProceedEffect DEF MXInv, Signal
<1>2. initialized' = TRUE /\ UNCHANGED <<malloc, created, pool, owned, halted>>
  BY DEF Signal
<1> QED BY <1>1, <1>2 DEF MXInv, MXTypeOK, Announced, HandedOutOnce

LEMMA WaitInv ==
    ASSUME MXInv, NEW t \in Threads, Wait(t)
    PROVE  MXInv'
<1>1. /\ stage' \in [Threads -> {"idle", "swap", "create", "signal", "wait", "allocate"}]
      /\ stage'[t] = "allocate" /\ \A u \in Threads \ {t} : stage'[u] = stage[u]
      /\ initialized
  BY ProceedEffect DEF MXInv, Wait
<1>2. UNCHANGED <<malloc, initialized, created, pool, owned, halted>>
  BY DEF Wait
<1> QED BY <1>1, <1>2 DEF MXInv, MXTypeOK, Announced, HandedOutOnce

LEMMA AllocateInv ==
    ASSUME MXInv, NEW t \in Threads, Allocate(t)
    PROVE  MXInv'
<1>1. /\ stage' \in [Threads -> {"idle", "swap", "create", "signal", "wait", "allocate"}]
      /\ stage'[t] = "idle" /\ \A u \in Threads \ {t} : stage'[u] = stage[u]
      /\ initialized
  BY ProceedEffect DEF MXInv, Allocate, Announced
<1>2. PICK u \in pool : /\ pool' = pool \ {u}
                        /\ owned' = [owned EXCEPT ![t] = @ \cup {u}]
  BY DEF Allocate
<1>3. /\ owned' \in [Threads -> SUBSET Units]
      /\ owned'[t] = owned[t] \cup {u}
      /\ \A v \in Threads \ {t} : owned'[v] = owned[v]
  BY <1>2 DEF MXInv, MXTypeOK
<1>4. UNCHANGED <<malloc, initialized, created, halted>>
  BY DEF Allocate
<1>5. MXTypeOK' /\ Announced'
  BY <1>1, <1>2, <1>3, <1>4 DEF MXInv, MXTypeOK, Announced
<1>6. HandedOutOnce'
  BY <1>2, <1>3 DEF MXInv, HandedOutOnce
<1> QED BY <1>5, <1>6 DEF MXInv

LEMMA FreeInv ==
    ASSUME MXInv, NEW t \in Threads, CallFree(t)
    PROVE  MXInv'
<1>1. PICK u \in owned[t] :
          IF initialized
          THEN /\ pool' = pool \cup {u}
               /\ owned' = [owned EXCEPT ![t] = @ \ {u}]
               /\ UNCHANGED halted
          ELSE /\ halted' = TRUE
               /\ UNCHANGED <<pool, owned>>
  BY DEF CallFree
<1>2. initialized
  BY <1>1 DEF MXInv, Announced
<1>3. /\ pool' = pool \cup {u} /\ u \in Units
      /\ owned' \in [Threads -> SUBSET Units]
      /\ owned'[t] = owned[t] \ {u}
      /\ \A v \in Threads \ {t} : owned'[v] = owned[v]
      /\ halted' = halted
  BY <1>1, <1>2 DEF MXInv, MXTypeOK
<1>4. UNCHANGED <<malloc, initialized, created, stage>>
  BY DEF CallFree
<1>5. MXTypeOK' /\ Announced'
  BY <1>2, <1>3, <1>4 DEF MXInv, MXTypeOK, Announced
<1>6. HandedOutOnce'
  BY <1>3 DEF MXInv, HandedOutOnce
<1> QED BY <1>5, <1>6 DEF MXInv

LEMMA StepMX == MXInv /\ [MXNext]_mxvars => MXInv'
<1> SUFFICES ASSUME MXInv, [MXNext]_mxvars PROVE MXInv'
  OBVIOUS
<1>1. CASE UNCHANGED mxvars
  BY <1>1 DEF mxvars, MXInv, MXTypeOK, Announced, HandedOutOnce
<1> QED
  BY <1>1, CallInv, SwapInv, CreateInv, SignalInv, WaitInv, AllocateInv, FreeInv
     DEF MXNext, Work

\* The inductive invariant holds in every reachable state.
THEOREM MXInvariance == MXSpec => []MXInv
BY InitMX, StepMX, PTL DEF MXSpec

\* However the callers of the first malloc interleave, tx_byte_allocate and
\* tx_byte_release are only called on a pool that exists, and the assertion in
\* free never fails (malloc_threadx.c:64-138).
THEOREM PoolExistsBeforeUse == MXSpec => []PoolBeforeUse
<1>1. MXInv => PoolBeforeUse
  BY DEF MXInv, Announced, PoolBeforeUse
<1> QED BY <1>1, MXInvariance, PTL

\* Although several threads may create the pool, ThreadX's error checking keeps
\* a unit of memory from being handed out twice (malloc_threadx.c:77-90).
THEOREM NothingHandedOutTwice == MXSpec => []HandedOutOnce
<1>1. MXInv => HandedOutOnce
  BY DEF MXInv
<1> QED BY <1>1, MXInvariance, PTL

-----------------------------------------------------------------------------

(* FreeList: the inductive invariant.                                        *)
Distinct(s) == \A m, n \in 1 .. Len(s) : s[m] = s[n] => m = n
Ascends(s) == \A m, n \in 1 .. Len(s) : m < n => s[m] < s[n]

\* r is s with e put in at m
PutAt(r, s, m, e) ==
  /\ m \in 1 .. Len(s) + 1 /\ Len(r) = Len(s) + 1
  /\ \A j \in 1 .. Len(r) : r[j] = IF j < m THEN s[j] ELSE IF j = m THEN e ELSE s[j - 1]

\* r is s without its m-th element, with e in the place of it, or with e in front
Without(r, s, m) == r = RemoveAt(s, m)
Replaced(r, s, m, e) == r = [s EXCEPT ![m] = e]
Prefixed(r, s, e) == r = <<e>> \o s

\* word w belongs to the block at b
Covers(b, w, sz) == b <= w /\ w < End(b, sz)

\* the blocks B, of the sizes sz, tile the memory G
Tiles(B, sz, G) ==
  /\ B \subseteq Memory /\ sz \in [Memory -> 0 .. Cardinality(Memory)]
  /\ \A b \in B, w \in Nat : Covers(b, w, sz) => w \in G
  /\ \A w \in G : \E b \in B : Covers(b, w, sz)
  /\ \A b, c \in B, w \in Nat : Covers(b, w, sz) /\ Covers(c, w, sz) => b = c

\* The list and the user's blocks are different blocks, and together they tile
\* the memory that was given.
FLInv ==
  /\ free \in Seq(Memory) /\ Distinct(free)
  /\ used \subseteq Memory /\ used \cap ToSet(free) = {}
  /\ added \in 0 .. Len(Regions)
  /\ Tiles(Blocks, size, Given)

LEMMA RegionFacts ==
  /\ Len(Regions) \in Nat /\ DOMAIN Regions = 1 .. Len(Regions)
  /\ \A m \in 1 .. Len(Regions) :
       /\ Regions[m] \in [at : Nat, len : Nat] /\ Regions[m].len > Header
       /\ Words(Regions[m]) \subseteq Memory /\ Words(Regions[m]) \subseteq Nat
  /\ Memory \subseteq Nat
<1>1. Len(Regions) \in Nat /\ DOMAIN Regions = 1 .. Len(Regions)
  BY RegionsAssumption, LenProperties
<1>2. ASSUME NEW m \in 1 .. Len(Regions)
      PROVE  Regions[m] \in [at : Nat, len : Nat] /\ Regions[m].len > Header
  BY <1>1, RegionsAssumption, ElementOfSeq
<1>3. \A m \in 1 .. Len(Regions) : Words(Regions[m]) \subseteq Nat
  <2> TAKE m \in 1 .. Len(Regions)
  <2>1. Regions[m].at \in Nat /\ Regions[m].len \in Nat BY <1>2
  <2>. QED BY <2>1 DEF Words
<1>4. \A m \in 1 .. Len(Regions) : Words(Regions[m]) \subseteq Memory
  BY <1>1 DEF Memory
<1>5. Memory \subseteq Nat
  BY <1>1, <1>3 DEF Memory
<1>. QED BY <1>1, <1>2, <1>3, <1>4, <1>5

LEMMA MemoryFinite == IsFiniteSet(Memory) /\ Cardinality(Memory) \in Nat
<1> DEFINE f == [m \in 1 .. Len(Regions) |-> Words(Regions[m])]
           S == {Words(Regions[m]) : m \in 1 .. Len(Regions)}
<1>1. f \in Surjection(1 .. Len(Regions), S) BY DEF Surjection
<1>2. IsFiniteSet(1 .. Len(Regions))
  <2>1. Len(Regions) \in Int /\ 1 \in Int BY RegionsAssumption
  <2>. QED BY <2>1, FS_Interval
<1>3. IsFiniteSet(S) BY <1>1, <1>2, FS_Surjection
<1>4. \A T \in S : IsFiniteSet(T)
  <2> SUFFICES ASSUME NEW m \in 1 .. Len(Regions) PROVE IsFiniteSet(Words(Regions[m]))
    OBVIOUS
  <2>1. Regions[m].at \in Int /\ Regions[m].at + Regions[m].len - 1 \in Int BY RegionFacts
  <2>. QED BY <2>1, FS_Interval DEF Words
<1>5. Memory = UNION S BY RegionFacts DEF Memory
<1>. QED BY <1>3, <1>4, <1>5, FS_UNION, FS_CardinalityType

\* a block within the memory is no longer than the memory
LEMMA Fits ==
  ASSUME NEW b \in Nat, NEW n \in Nat, \A w \in Nat : b <= w /\ w < b + n => w \in Memory
  PROVE  n <= Cardinality(Memory)
<1>1. b .. b + n - 1 \subseteq Memory OBVIOUS
<1>2. Cardinality(b .. b + n - 1) <= Cardinality(Memory)
  BY <1>1, MemoryFinite, FS_Subset
<1>3. Cardinality(b .. b + n - 1) = n
  <2>1. b \in Int /\ b + n - 1 \in Int OBVIOUS
  <2>2. Cardinality(b .. b + n - 1) = IF b > b + n - 1 THEN 0 ELSE (b + n - 1) - b + 1
    BY <2>1, FS_Interval
  <2>. QED BY <2>2
<1>. QED BY <1>2, <1>3

\* what is known of one block
LEMMA BlockFacts ==
  ASSUME NEW B, NEW sz, NEW G, Tiles(B, sz, G), NEW b \in B
  PROVE  /\ b \in Nat /\ b \in Memory /\ sz[b] \in Nat /\ End(b, sz) \in Nat
         /\ b < End(b, sz) /\ Covers(b, b, sz)
  BY RegionFacts, MemoryFinite, SizesAssumption DEF Tiles, End, Covers

LEMMA Apart ==
  ASSUME NEW B, NEW sz, NEW G, Tiles(B, sz, G), NEW b \in B, NEW c \in B, b < c
  PROVE  End(b, sz) <= c
<1>1. b \in Nat /\ c \in Nat /\ End(b, sz) \in Nat /\ Covers(c, c, sz)
  BY BlockFacts
<1>2. c < End(b, sz) => Covers(b, c, sz) BY <1>1 DEF Covers
<1>. QED BY <1>1, <1>2 DEF Tiles
-----------------------------------------------------------------------------
(* Tilings: a block is split in two, two are merged, a region is added.    *)

\* the sizes when the block b is cut down to n units, and what is left becomes a block
Parted(new, sz, b, n, rest) ==
  /\ n + Header <= sz[b] /\ rest = b + Header + n
  /\ new = [sz EXCEPT ![b] = n, ![rest] = sz[b] - n - Header]

LEMMA SplitTiles ==
  ASSUME NEW B, NEW sz, NEW G, G \subseteq Memory, Tiles(B, sz, G), NEW b \in B, NEW n \in Nat,
         NEW rest, NEW new, Parted(new, sz, b, n, rest)
  PROVE  rest \notin B /\ rest \in Memory /\ Tiles(B \cup {rest}, new, G)
<1>0. /\ n + Header <= sz[b] /\ rest = b + Header + n
      /\ new = [sz EXCEPT ![b] = n, ![rest] = sz[b] - n - Header]
  BY DEF Parted
<1>1. /\ b \in Nat /\ b \in Memory /\ sz[b] \in Nat /\ Header \in Nat /\ Header > 0
      /\ rest \in Nat /\ b < rest
  BY <1>0, BlockFacts, SizesAssumption
<1>2. Covers(b, rest, sz) BY <1>0, <1>1 DEF Covers, End
<1>3. rest \in Memory /\ rest \in G BY <1>1, <1>2 DEF Tiles
<1>4. rest \notin B
  <2>1. rest \in B => Covers(rest, rest, sz) BY BlockFacts
  <2>. QED BY <1>1, <1>2, <2>1 DEF Tiles
<1>5. sz \in [Memory -> 0 .. Cardinality(Memory)] /\ Cardinality(Memory) \in Nat
  BY MemoryFinite DEF Tiles
<1>6. /\ new \in [Memory -> 0 .. Cardinality(Memory)]
      /\ new[b] = n /\ new[rest] = sz[b] - n - Header
      /\ \A c \in Memory : c # b /\ c # rest => new[c] = sz[c]
  BY <1>0, <1>1, <1>3, <1>5
<1>7. \A w \in Nat : /\ Covers(b, w, new) <=> Covers(b, w, sz) /\ w < rest
                     /\ Covers(rest, w, new) <=> Covers(b, w, sz) /\ rest <= w
  BY <1>0, <1>1, <1>6 DEF Covers, End
<1>8. \A c \in B, w \in Nat : c # b => (Covers(c, w, new) <=> Covers(c, w, sz))
  BY <1>4, <1>6 DEF Covers, End, Tiles
<1>9. G \subseteq Nat BY RegionFacts
<1>10. Tiles(B \cup {rest}, new, G)
  <2>1. B \cup {rest} \subseteq Memory BY <1>3 DEF Tiles
  <2>2. ASSUME NEW c \in B \cup {rest}, NEW w \in Nat, Covers(c, w, new) PROVE w \in G
    <3>1. CASE c = b BY <1>7, <2>2, <3>1 DEF Tiles
    <3>2. CASE c = rest BY <1>7, <2>2, <3>2 DEF Tiles
    <3>3. CASE c # b /\ c # rest BY <1>8, <2>2, <3>3 DEF Tiles
    <3>. QED BY <3>1, <3>2, <3>3
  <2>3. ASSUME NEW w \in G PROVE \E c \in B \cup {rest} : Covers(c, w, new)
    <3>1. PICK c \in B : Covers(c, w, sz) BY DEF Tiles
    <3>2. CASE c = b
      <4>1. w < rest \/ rest <= w BY <1>1, <1>9
      <4>. QED BY <1>7, <1>9, <3>1, <3>2, <4>1
    <3>3. CASE c # b BY <1>8, <1>9, <3>1, <3>3
    <3>. QED BY <3>2, <3>3
  <2>4. ASSUME NEW c \in B \cup {rest}, NEW d \in B \cup {rest}, NEW w \in Nat,
               Covers(c, w, new), Covers(d, w, new)
        PROVE  c = d
    <3>1. ASSUME NEW e \in B \cup {rest}, Covers(e, w, new)
          PROVE  \/ e = b /\ Covers(b, w, sz) /\ w < rest
                 \/ e = rest /\ Covers(b, w, sz) /\ rest <= w
                 \/ e \in B /\ e # b /\ Covers(e, w, sz)
      BY <1>7, <1>8, <3>1
    <3>2. ~(w < rest /\ rest <= w) BY <1>1
    <3>3. \A e, f \in B : Covers(e, w, sz) /\ Covers(f, w, sz) => e = f BY DEF Tiles
    <3>. QED BY <2>4, <3>1, <3>2, <3>3
  <2>. QED BY <1>6, <2>1, <2>2, <2>3, <2>4 DEF Tiles
<1>. QED BY <1>3, <1>4, <1>10

\* the sizes when the block c is added to the block b
Merged(new, sz, b, c) == new = [sz EXCEPT ![b] = sz[b] + Header + sz[c]]

LEMMA MergeTiles ==
  ASSUME NEW B, NEW sz, NEW G, G \subseteq Memory, Tiles(B, sz, G),
         NEW b \in B, NEW c \in B, End(b, sz) = c, NEW new, Merged(new, sz, b, c)
  PROVE  Tiles(B \ {c}, new, G)
<1>1. /\ b \in Nat /\ b \in Memory /\ sz[b] \in Nat /\ Header \in Nat /\ c \in Nat /\ sz[c] \in Nat
      /\ b < c /\ c < End(c, sz) /\ sz[b] + Header + sz[c] \in Nat
      /\ b + Header + (sz[b] + Header + sz[c]) = End(c, sz)
  BY BlockFacts, SizesAssumption DEF End
<1>2. \A w \in Nat : b <= w /\ w < End(c, sz) <=> Covers(b, w, sz) \/ Covers(c, w, sz)
  BY <1>1 DEF Covers
<1>3. sz[b] + Header + sz[c] <= Cardinality(Memory)
  <2>1. \A w \in Nat : b <= w /\ w < b + (sz[b] + Header + sz[c]) => w \in Memory
    BY <1>1, <1>2 DEF Tiles
  <2>. QED BY <1>1, <2>1, Fits
<1>4. /\ new \in [Memory -> 0 .. Cardinality(Memory)]
      /\ new[b] = sz[b] + Header + sz[c] /\ \A d \in Memory : d # b => new[d] = sz[d]
  BY <1>1, <1>3, MemoryFinite DEF Tiles, Merged
<1>5. \A w \in Nat : Covers(b, w, new) <=> Covers(b, w, sz) \/ Covers(c, w, sz)
  BY <1>1, <1>2, <1>4 DEF Covers, End
<1>6. \A d \in B, w \in Nat : d # b => (Covers(d, w, new) <=> Covers(d, w, sz))
  BY <1>4 DEF Covers, End, Tiles
<1>7. G \subseteq Nat BY RegionFacts
<1>8. Tiles(B \ {c}, new, G)
  <2>1. B \ {c} \subseteq Memory BY DEF Tiles
  <2>2. ASSUME NEW d \in B \ {c}, NEW w \in Nat, Covers(d, w, new) PROVE w \in G
    <3>1. CASE d = b BY <1>5, <2>2, <3>1 DEF Tiles
    <3>2. CASE d # b BY <1>6, <2>2, <3>2 DEF Tiles
    <3>. QED BY <3>1, <3>2
  <2>3. ASSUME NEW w \in G PROVE \E d \in B \ {c} : Covers(d, w, new)
    <3>1. PICK d \in B : Covers(d, w, sz) BY DEF Tiles
    <3>2. CASE d = b \/ d = c
      <4>1. b \in B \ {c} BY <1>1
      <4>2. Covers(b, w, new) BY <1>5, <1>7, <3>1, <3>2
      <4>. QED BY <4>1, <4>2
    <3>3. CASE d # b /\ d # c BY <1>6, <1>7, <3>1, <3>3
    <3>. QED BY <3>2, <3>3
  <2>4. ASSUME NEW d \in B \ {c}, NEW e \in B \ {c}, NEW w \in Nat,
               Covers(d, w, new), Covers(e, w, new)
        PROVE  d = e
    <3>1. \A f \in B \ {c} : Covers(f, w, new) =>
             \/ f = b /\ (Covers(b, w, sz) \/ Covers(c, w, sz))
             \/ f # b /\ f # c /\ Covers(f, w, sz)
      BY <1>5, <1>6
    <3>2. \A f, g \in B : Covers(f, w, sz) /\ Covers(g, w, sz) => f = g BY DEF Tiles
    <3>. QED BY <2>4, <3>1, <3>2
  <2>. QED BY <1>4, <2>1, <2>2, <2>3, <2>4 DEF Tiles
<1>. QED BY <1>1, <1>4, <1>8

LEMMA AddTiles ==
  ASSUME NEW B, NEW sz, NEW G, Tiles(B, sz, G), G \subseteq Memory,
         NEW r \in [at : Nat, len : Nat], r.len > Header, Words(r) \subseteq Memory,
         Words(r) \cap G = {}, NEW new, new = [sz EXCEPT ![r.at] = r.len - Header]
  PROVE  r.at \notin B /\ r.at \in Memory /\ Tiles(B \cup {r.at}, new, G \cup Words(r))
<1>1. /\ r.at \in Nat /\ r.len \in Nat /\ Header \in Nat /\ r.len - Header \in Nat
      /\ \A w \in Nat : w \in Words(r) <=> r.at <= w /\ w < r.at + r.len
  BY SizesAssumption DEF Words
<1>2. r.at \in Words(r) /\ r.at \in Memory BY <1>1, SizesAssumption
<1>3. r.at \notin B
  <2>1. r.at \in B => Covers(r.at, r.at, sz) BY BlockFacts
  <2>. QED BY <1>1, <1>2, <2>1 DEF Tiles
<1>4. r.len - Header <= Cardinality(Memory)
  <2>1. \A w \in Nat : r.at <= w /\ w < r.at + r.len => w \in Memory BY <1>1
  <2>2. r.len <= Cardinality(Memory) BY <1>1, <2>1, Fits
  <2>. QED BY <1>1, <2>2, MemoryFinite
<1>5. /\ new \in [Memory -> 0 .. Cardinality(Memory)] /\ new[r.at] = r.len - Header
      /\ \A c \in Memory : c # r.at => new[c] = sz[c]
  BY <1>1, <1>2, <1>4, MemoryFinite DEF Tiles
<1>6. \A w \in Nat : Covers(r.at, w, new) <=> w \in Words(r)
  BY <1>1, <1>5 DEF Covers, End
<1>7. \A c \in B, w \in Nat : Covers(c, w, new) <=> Covers(c, w, sz)
  BY <1>3, <1>5 DEF Covers, End, Tiles
<1>8. G \subseteq Nat /\ Words(r) \subseteq Nat BY RegionFacts
<1>9. Tiles(B \cup {r.at}, new, G \cup Words(r))
  <2>1. B \cup {r.at} \subseteq Memory BY <1>2 DEF Tiles
  <2>2. ASSUME NEW c \in B \cup {r.at}, NEW w \in Nat, Covers(c, w, new) PROVE w \in G \cup Words(r)
    BY <1>6, <1>7, <2>2 DEF Tiles
  <2>3. ASSUME NEW w \in G \cup Words(r) PROVE \E c \in B \cup {r.at} : Covers(c, w, new)
    <3>1. CASE w \in G
      <4>1. PICK c \in B : Covers(c, w, sz) BY <3>1 DEF Tiles
      <4>. QED BY <1>7, <1>8, <4>1
    <3>2. CASE w \in Words(r) BY <1>6, <1>8, <3>2
    <3>. QED BY <3>1, <3>2
  <2>4. ASSUME NEW c \in B \cup {r.at}, NEW d \in B \cup {r.at}, NEW w \in Nat,
               Covers(c, w, new), Covers(d, w, new)
        PROVE  c = d
    <3>1. \A e \in B : Covers(e, w, new) => Covers(e, w, sz) /\ w \in G /\ w \notin Words(r)
      BY <1>7 DEF Tiles
    <3>2. \A e, f \in B : Covers(e, w, sz) /\ Covers(f, w, sz) => e = f BY DEF Tiles
    <3>. QED BY <1>6, <2>4, <3>1, <3>2
  <2>. QED BY <1>5, <2>1, <2>2, <2>3, <2>4 DEF Tiles
<1>. QED BY <1>2, <1>3, <1>9
-----------------------------------------------------------------------------
(* Lists: what is removed, inserted and appended.                          *)

LEMMA InSet ==
  ASSUME NEW S, NEW s \in Seq(S)
  PROVE  /\ Len(s) \in Nat
         /\ \A x : x \in ToSet(s) <=> \E j \in 1 .. Len(s) : s[j] = x
         /\ ToSet(s) \subseteq S
<1>1. Len(s) \in Nat /\ DOMAIN s = 1 .. Len(s) BY LenProperties
<1>2. \A j \in 1 .. Len(s) : s[j] \in S BY ElementOfSeq
<1>. QED BY <1>1, <1>2 DEF ToSet

LEMMA Joined ==
  ASSUME NEW S, NEW p \in Seq(S), NEW q \in Seq(S), NEW c, c = p \o q
  PROVE  /\ c \in Seq(S) /\ Len(c) = Len(p) + Len(q)
         /\ Len(p) \in Nat /\ Len(q) \in Nat
         /\ \A j \in 1 .. Len(p) : c[j] = p[j]
         /\ \A j \in 1 .. Len(q) : c[Len(p) + j] = q[j]
<1>1. Len(p) \in Nat /\ Len(q) \in Nat BY LenProperties
<1>2. /\ p \o q \in Seq(S) /\ Len(p \o q) = Len(p) + Len(q)
      /\ \A j \in 1 .. Len(p) + Len(q) : (p \o q)[j] = IF j <= Len(p) THEN p[j] ELSE q[j - Len(p)]
  BY ConcatProperties, Zenon
<1>3. /\ c \in Seq(S) /\ Len(c) = Len(p) + Len(q)
      /\ \A j \in 1 .. Len(p) + Len(q) : c[j] = IF j <= Len(p) THEN p[j] ELSE q[j - Len(p)]
  BY <1>2, Zenon
<1>4. \A j \in 1 .. Len(p) : c[j] = p[j]
  BY <1>1, <1>3
<1>5. \A j \in 1 .. Len(q) : c[Len(p) + j] = q[j]
  BY <1>1, <1>3
<1>. QED BY <1>1, <1>3, <1>4, <1>5, Zenon

LEMMA Cut ==
  ASSUME NEW S, NEW s \in Seq(S), NEW m \in Nat, NEW n \in Nat, 1 <= m, m <= n + 1, n <= Len(s)
  PROVE  /\ SubSeq(s, m, n) \in Seq(S) /\ Len(SubSeq(s, m, n)) = n - m + 1
         /\ \A j \in 1 .. n - m + 1 : SubSeq(s, m, n)[j] = s[m + j - 1]
<1>1. \A j \in m .. n : s[j] \in S
  <2>1. \A j \in 1 .. Len(s) : s[j] \in S BY ElementOfSeq
  <2>2. Len(s) \in Nat BY LenProperties
  <2>. QED BY <2>1, <2>2
<1>2. /\ SubSeq(s, m, n) \in Seq(S) /\ Len(SubSeq(s, m, n)) = IF m <= n THEN n - m + 1 ELSE 0
      /\ \A j \in 1 .. n - m + 1 : SubSeq(s, m, n)[j] = s[m + j - 1]
  <2>1. m \in Int /\ n \in Int OBVIOUS
  <2>. QED BY <1>1, <2>1, SubSeqProperties
<1>3. (IF m <= n THEN n - m + 1 ELSE 0) = n - m + 1 OBVIOUS
<1>. QED BY <1>2, <1>3, Zenon

LEMMA Removed ==
  ASSUME NEW S, NEW s \in Seq(S), NEW m \in 1 .. Len(s), NEW r, r = RemoveAt(s, m)
  PROVE  /\ r \in Seq(S) /\ Len(r) = Len(s) - 1
         /\ \A j \in 1 .. Len(r) : r[j] = IF j < m THEN s[j] ELSE s[j + 1]
<1> DEFINE p == SubSeq(s, 1, m - 1)
           q == SubSeq(s, m + 1, Len(s))
<1>0. Len(s) \in Nat /\ m - 1 \in Nat /\ m + 1 \in Nat /\ m \in Nat BY LenProperties
<1>1. p \in Seq(S) /\ Len(p) = m - 1 /\ \A j \in 1 .. m - 1 : p[j] = s[j]
  <2>1. /\ p \in Seq(S) /\ Len(p) = m - 1 - 1 + 1
        /\ \A j \in 1 .. m - 1 - 1 + 1 : p[j] = s[1 + j - 1]
    <3>1. 1 \in Nat /\ 1 <= 1 /\ 1 <= m - 1 + 1 /\ m - 1 <= Len(s) BY <1>0
    <3>. QED BY <1>0, <3>1, Cut
  <2> HIDE DEF p
  <2>. QED BY <1>0, <2>1
<1>2. q \in Seq(S) /\ Len(q) = Len(s) - m /\ \A j \in 1 .. Len(s) - m : q[j] = s[m + j]
  <2>1. /\ q \in Seq(S) /\ Len(q) = Len(s) - (m + 1) + 1
        /\ \A j \in 1 .. Len(s) - (m + 1) + 1 : q[j] = s[m + 1 + j - 1]
    <3>1. 1 <= m + 1 /\ m + 1 <= Len(s) + 1 /\ Len(s) <= Len(s) BY <1>0
    <3>. QED BY <1>0, <3>1, Cut
  <2> HIDE DEF q
  <2>. QED BY <1>0, <2>1
<1>3. r = p \o q BY DEF RemoveAt
<1> HIDE DEF p, q
<1>4. /\ r \in Seq(S) /\ Len(r) = Len(p) + Len(q)
      /\ Len(p) \in Nat /\ Len(q) \in Nat
      /\ \A j \in 1 .. Len(p) : r[j] = p[j]
      /\ \A j \in 1 .. Len(q) : r[Len(p) + j] = q[j]
  <2>1. p \in Seq(S) /\ q \in Seq(S) BY <1>1, <1>2
  <2>. QED BY <1>3, <2>1, Joined
<1>5. r \in Seq(S) /\ Len(r) = Len(s) - 1 BY <1>0, <1>1, <1>2, <1>4
<1>6. ASSUME NEW j \in 1 .. Len(r) PROVE r[j] = IF j < m THEN s[j] ELSE s[j + 1]
  <2>1. CASE j < m
    <3>1. j \in 1 .. m - 1 BY <1>0, <1>5, <2>1
    <3>. QED BY <1>1, <1>4, <2>1, <3>1
  <2>2. CASE ~(j < m)
    <3>1. PICK n \in 1 .. Len(s) - m : n = j - m + 1 BY <1>0, <1>5, <2>2
    <3>2. m - 1 + n = j /\ m + n = j + 1 BY <1>0, <1>5, <3>1
    <3>3. r[m - 1 + n] = q[n] /\ q[n] = s[m + n] BY <1>1, <1>2, <1>4
    <3>. QED BY <2>2, <3>2, <3>3
  <2>. QED BY <2>1, <2>2
<1>. QED BY <1>5, <1>6

LEMMA Inserted ==
  ASSUME NEW S, NEW s \in Seq(S), NEW m \in 1 .. Len(s) + 1, NEW e \in S, NEW r, r = InsertAt(s, m, e)
  PROVE  r \in Seq(S) /\ PutAt(r, s, m, e)
<1> DEFINE p == SubSeq(s, 1, m - 1)
           o == <<e>>
           q == SubSeq(s, m, Len(s))
<1>0. Len(s) \in Nat /\ m - 1 \in Nat /\ m \in Nat BY LenProperties
<1>1. p \in Seq(S) /\ Len(p) = m - 1 /\ \A j \in 1 .. m - 1 : p[j] = s[j]
  <2>1. /\ p \in Seq(S) /\ Len(p) = m - 1 - 1 + 1
        /\ \A j \in 1 .. m - 1 - 1 + 1 : p[j] = s[1 + j - 1]
    <3>1. 1 \in Nat /\ 1 <= 1 /\ 1 <= m - 1 + 1 /\ m - 1 <= Len(s) BY <1>0
    <3>. QED BY <1>0, <3>1, Cut
  <2> HIDE DEF p
  <2>. QED BY <1>0, <2>1
<1>2. q \in Seq(S) /\ Len(q) = Len(s) - m + 1 /\ \A j \in 1 .. Len(s) - m + 1 : q[j] = s[m + j - 1]
  <2>1. 1 <= m /\ m <= Len(s) + 1 /\ Len(s) <= Len(s) BY <1>0
  <2>. QED BY <1>0, <2>1, Cut
<1>3. o \in Seq(S) /\ Len(o) = 1 /\ o[1] = e OBVIOUS
<1>4. PICK u : u = p \o o /\ r = u \o q BY DEF InsertAt
<1> HIDE DEF p, q, o
<1>5. /\ u \in Seq(S) /\ Len(u) = Len(p) + Len(o)
      /\ \A j \in 1 .. Len(p) : u[j] = p[j]
      /\ \A j \in 1 .. Len(o) : u[Len(p) + j] = o[j]
  <2>1. p \in Seq(S) /\ o \in Seq(S) BY <1>1, <1>3
  <2>. QED BY <1>4, <2>1, Joined
<1>6. /\ r \in Seq(S) /\ Len(r) = Len(u) + Len(q)
      /\ \A j \in 1 .. Len(u) : r[j] = u[j]
      /\ \A j \in 1 .. Len(q) : r[Len(u) + j] = q[j]
  <2>1. u \in Seq(S) /\ q \in Seq(S) BY <1>2, <1>5
  <2>. QED BY <1>4, <2>1, Joined
<1>8. u \in Seq(S) /\ Len(u) = m /\ (\A j \in 1 .. m - 1 : u[j] = s[j]) /\ u[m] = e
  BY <1>0, <1>1, <1>3, <1>5
<1>9. r \in Seq(S) /\ Len(r) = Len(s) + 1 BY <1>0, <1>2, <1>6, <1>8
<1>10. ASSUME NEW j \in 1 .. Len(r)
       PROVE  r[j] = IF j < m THEN s[j] ELSE IF j = m THEN e ELSE s[j - 1]
  <2>1. CASE j < m
    <3>1. j \in 1 .. m - 1 /\ j \in 1 .. m BY <1>0, <1>9, <2>1
    <3>. QED BY <1>6, <1>8, <2>1, <3>1
  <2>2. CASE j = m
    <3>1. j \in 1 .. m /\ ~(j < m) BY <1>0, <2>2
    <3>. QED BY <1>6, <1>8, <2>2, <3>1
  <2>3. CASE j > m
    <3>1. PICK n \in 1 .. Len(s) - m + 1 : n = j - m BY <1>0, <1>9, <2>3
    <3>2. m + n = j /\ m + n - 1 = j - 1 /\ ~(j < m) /\ j # m BY <1>0, <1>9, <2>3, <3>1
    <3>3. r[m + n] = q[n] /\ q[n] = s[m + n - 1] BY <1>2, <1>6, <1>8
    <3>. QED BY <3>2, <3>3
  <2>4. j < m \/ j = m \/ j > m BY <1>0, <1>9
  <2>. QED BY <2>1, <2>2, <2>3, <2>4
<1>. QED BY <1>9, <1>10, Zenon DEF PutAt

LEMMA Appended ==
  ASSUME NEW S, NEW s \in Seq(S), NEW e \in S, NEW r, r = Append(s, e)
  PROVE  /\ r \in Seq(S) /\ Len(r) = Len(s) + 1
         /\ \A j \in 1 .. Len(s) : r[j] = s[j]
         /\ r[Len(s) + 1] = e
  BY AppendProperties

-----------------------------------------------------------------------------
(* The same as sets: what a list holds, without repetition and in order.   *)

LEMMA RemovedSet ==
  ASSUME NEW S, NEW s \in Seq(S), Distinct(s), NEW m \in 1 .. Len(s), NEW r, Without(r, s, m)
  PROVE  /\ r \in Seq(S) /\ Distinct(r) /\ ToSet(r) = ToSet(s) \ {s[m]}
         /\ Ascends(s) => Ascends(r)
<1>1. /\ r \in Seq(S) /\ Len(r) = Len(s) - 1 /\ Len(s) \in Nat
      /\ \A j \in 1 .. Len(r) : r[j] = IF j < m THEN s[j] ELSE s[j + 1]
  <2>1. r = RemoveAt(s, m) BY DEF Without
  <2>. QED BY <2>1, Removed, InSet
<1>2. Distinct(r)
  <2> SUFFICES ASSUME NEW a \in 1 .. Len(r), NEW b \in 1 .. Len(r), r[a] = r[b] PROVE a = b
    BY DEF Distinct
  <2>1. PICK x \in 1 .. Len(s), y \in 1 .. Len(s) :
          /\ x = (IF a < m THEN a ELSE a + 1) /\ y = (IF b < m THEN b ELSE b + 1)
    BY <1>1
  <2>2. r[a] = s[x] /\ r[b] = s[y] BY <1>1, <2>1
  <2>3. x = y BY <2>2 DEF Distinct
  <2>. QED BY <2>1, <2>3
<1>3. ASSUME Ascends(s) PROVE Ascends(r)
  <2> SUFFICES ASSUME NEW a \in 1 .. Len(r), NEW b \in 1 .. Len(r), a < b PROVE r[a] < r[b]
    BY DEF Ascends
  <2>1. PICK x \in 1 .. Len(s), y \in 1 .. Len(s) :
          /\ x = (IF a < m THEN a ELSE a + 1) /\ y = (IF b < m THEN b ELSE b + 1)
    BY <1>1
  <2>2. r[a] = s[x] /\ r[b] = s[y] BY <1>1, <2>1
  <2>3. x < y BY <1>1, <2>1
  <2>. QED BY <1>3, <2>2, <2>3 DEF Ascends
<1>4. ASSUME NEW x PROVE x \in ToSet(r) <=> x \in ToSet(s) \ {s[m]}
  <2>1. x \in ToSet(r) <=> \E j \in 1 .. Len(r) : r[j] = x BY <1>1, InSet
  <2>2. x \in ToSet(s) <=> \E j \in 1 .. Len(s) : s[j] = x BY InSet
  <2>3. ASSUME NEW j \in 1 .. Len(r), r[j] = x PROVE x \in ToSet(s) \ {s[m]}
    <3>1. CASE j < m
      <4>1. j \in 1 .. Len(s) /\ j # m /\ s[j] = x BY <1>1, <2>3, <3>1
      <4>. QED BY <2>2, <4>1 DEF Distinct
    <3>2. CASE ~(j < m)
      <4>1. j + 1 \in 1 .. Len(s) /\ j + 1 # m /\ s[j + 1] = x BY <1>1, <2>3, <3>2
      <4>. QED BY <2>2, <4>1 DEF Distinct
    <3>. QED BY <3>1, <3>2
  <2>4. ASSUME NEW j \in 1 .. Len(s), s[j] = x, x # s[m] PROVE \E n \in 1 .. Len(r) : r[n] = x
    <3>1. CASE j < m
      <4>1. j \in 1 .. Len(r) /\ r[j] = x BY <1>1, <2>4, <3>1
      <4>. QED BY <4>1
    <3>2. CASE j > m
      <4>1. j - 1 \in 1 .. Len(r) /\ ~(j - 1 < m) /\ j - 1 + 1 = j BY <1>1, <3>2
      <4>2. r[j - 1] = x BY <1>1, <2>4, <4>1
      <4>. QED BY <4>1, <4>2
    <3>3. j # m BY <2>4
    <3>. QED BY <1>1, <3>1, <3>2, <3>3
  <2>. QED BY <2>1, <2>2, <2>3, <2>4
<1>. QED BY <1>1, <1>2, <1>3, <1>4

\* an element is put in at m
LEMMA SplicedSet ==
  ASSUME NEW S, NEW s \in Seq(S), Distinct(s), NEW m, NEW e \in S, e \notin ToSet(s),
         NEW r \in Seq(S), PutAt(r, s, m, e)
  PROVE  Distinct(r) /\ ToSet(r) = ToSet(s) \cup {e}
<1>0. /\ m \in 1 .. Len(s) + 1 /\ Len(r) = Len(s) + 1
      /\ \A j \in 1 .. Len(r) : r[j] = IF j < m THEN s[j] ELSE IF j = m THEN e ELSE s[j - 1]
  BY DEF PutAt
<1>1. /\ Len(s) \in Nat /\ \A x : x \in ToSet(s) <=> \E j \in 1 .. Len(s) : s[j] = x
      /\ \A x : x \in ToSet(r) <=> \E j \in 1 .. Len(r) : r[j] = x
  BY InSet
<1>2. \A j \in 1 .. Len(s) : s[j] # e BY <1>1
<1>3. Distinct(r)
  <2> SUFFICES ASSUME NEW a \in 1 .. Len(r), NEW b \in 1 .. Len(r), a < b PROVE r[a] # r[b]
    BY <1>1 DEF Distinct
  <2>1. CASE b < m BY <1>0, <1>1, <2>1 DEF Distinct
  <2>2. CASE b = m
    <3>1. r[a] = s[a] /\ a \in 1 .. Len(s) /\ r[b] = e BY <1>0, <1>1, <2>2
    <3>. QED BY <1>2, <3>1
  <2>3. CASE b > m /\ a < m
    <3>1. r[a] = s[a] /\ r[b] = s[b - 1] /\ a \in 1 .. Len(s) /\ b - 1 \in 1 .. Len(s) /\ a # b - 1
      BY <1>0, <1>1, <2>3
    <3>. QED BY <3>1 DEF Distinct
  <2>4. CASE b > m /\ a = m
    <3>1. r[a] = e /\ r[b] = s[b - 1] /\ b - 1 \in 1 .. Len(s) BY <1>0, <1>1, <2>4
    <3>. QED BY <1>2, <3>1
  <2>5. CASE b > m /\ a > m
    <3>1. r[a] = s[a - 1] /\ r[b] = s[b - 1] /\ a - 1 \in 1 .. Len(s) /\ b - 1 \in 1 .. Len(s) /\ a - 1 # b - 1
      BY <1>0, <1>1, <2>5
    <3>. QED BY <3>1 DEF Distinct
  <2>. QED BY <1>0, <1>1, <2>1, <2>2, <2>3, <2>4, <2>5
<1>4. ASSUME NEW x PROVE x \in ToSet(r) <=> x \in ToSet(s) \cup {e}
  <2>1. ASSUME NEW j \in 1 .. Len(r), r[j] = x PROVE x \in ToSet(s) \cup {e}
    <3>1. CASE j < m
      <4>1. j \in 1 .. Len(s) /\ s[j] = x BY <1>0, <1>1, <2>1, <3>1
      <4>. QED BY <1>1, <4>1
    <3>2. CASE j = m BY <1>0, <1>1, <2>1, <3>2
    <3>3. CASE j > m
      <4>1. j - 1 \in 1 .. Len(s) /\ s[j - 1] = x BY <1>0, <1>1, <2>1, <3>3
      <4>. QED BY <1>1, <4>1
    <3>. QED BY <1>0, <1>1, <3>1, <3>2, <3>3
  <2>2. ASSUME NEW j \in 1 .. Len(s), s[j] = x PROVE x \in ToSet(r)
    <3>1. CASE j < m
      <4>1. j \in 1 .. Len(r) /\ r[j] = x BY <1>0, <1>1, <2>2, <3>1
      <4>. QED BY <1>1, <4>1
    <3>2. CASE ~(j < m)
      <4>1. j + 1 \in 1 .. Len(r) /\ ~(j + 1 < m) /\ j + 1 # m /\ j + 1 - 1 = j BY <1>0, <1>1, <3>2
      <4>2. r[j + 1] = x BY <1>0, <2>2, <4>1
      <4>. QED BY <1>1, <4>1, <4>2
    <3>. QED BY <3>1, <3>2
  <2>3. e \in ToSet(r)
    <3>1. m \in 1 .. Len(r) /\ r[m] = e BY <1>0, <1>1
    <3>. QED BY <1>0, <1>1, <3>1
  <2>. QED BY <1>0, <1>1, <2>1, <2>2, <2>3
<1>. QED BY <1>3, <1>4

LEMMA SplicedAscends ==
  ASSUME NEW S, NEW s \in Seq(S), S \subseteq Nat, Ascends(s),
         NEW m, NEW e \in S, NEW r, PutAt(r, s, m, e),
         \A j \in 1 .. m - 1 : s[j] < e, \A j \in m .. Len(s) : e < s[j]
  PROVE  Ascends(r)
<1>0. /\ m \in 1 .. Len(s) + 1 /\ Len(r) = Len(s) + 1 /\ Len(s) \in Nat
      /\ \A j \in 1 .. Len(r) : r[j] = IF j < m THEN s[j] ELSE IF j = m THEN e ELSE s[j - 1]
  BY LenProperties DEF PutAt
<1> SUFFICES ASSUME NEW a \in 1 .. Len(r), NEW b \in 1 .. Len(r), a < b PROVE r[a] < r[b]
  BY DEF Ascends
<1>1. CASE b < m
  <2>1. r[a] = s[a] /\ r[b] = s[b] /\ a \in 1 .. Len(s) /\ b \in 1 .. Len(s) BY <1>0, <1>1
  <2>. QED BY <2>1 DEF Ascends
<1>2. CASE b = m
  <2>1. r[a] = s[a] /\ a \in 1 .. m - 1 /\ r[b] = e BY <1>0, <1>2
  <2>. QED BY <2>1
<1>3. CASE b > m /\ a < m
  <2>1. r[a] = s[a] /\ r[b] = s[b - 1] /\ a \in 1 .. m - 1 /\ b - 1 \in m .. Len(s) BY <1>0, <1>3
  <2>2. s[a] < e /\ e < s[b - 1] BY <2>1
  <2>3. s[a] \in Nat /\ s[b - 1] \in Nat /\ e \in Nat
    <3>1. a \in 1 .. Len(s) /\ b - 1 \in 1 .. Len(s) BY <1>0, <2>1
    <3>. QED BY <3>1, ElementOfSeq
  <2>. QED BY <2>1, <2>2, <2>3
<1>4. CASE b > m /\ a = m
  <2>1. r[a] = e /\ r[b] = s[b - 1] /\ b - 1 \in m .. Len(s) BY <1>0, <1>4
  <2>. QED BY <2>1
<1>5. CASE b > m /\ a > m
  <2>1. /\ r[a] = s[a - 1] /\ r[b] = s[b - 1] /\ a - 1 \in 1 .. Len(s) /\ b - 1 \in 1 .. Len(s)
        /\ a - 1 < b - 1
    BY <1>0, <1>5
  <2>. QED BY <2>1 DEF Ascends
<1>. QED BY <1>0, <1>1, <1>2, <1>3, <1>4, <1>5

LEMMA AppendedAt ==
  ASSUME NEW S, NEW s \in Seq(S), NEW e \in S, NEW r, r = Append(s, e)
  PROVE  r \in Seq(S) /\ PutAt(r, s, Len(s) + 1, e)
<1>1. /\ r \in Seq(S) /\ Len(r) = Len(s) + 1
      /\ \A j \in 1 .. Len(s) : r[j] = s[j]
      /\ r[Len(s) + 1] = e
  BY Appended
<1>2. Len(s) \in Nat /\ Len(s) + 1 \in 1 .. Len(s) + 1 BY LenProperties
<1>3. ASSUME NEW j \in 1 .. Len(r)
      PROVE  r[j] = IF j < Len(s) + 1 THEN s[j] ELSE IF j = Len(s) + 1 THEN e ELSE s[j - 1]
  <2>1. CASE j < Len(s) + 1
    <3>1. j \in 1 .. Len(s) BY <1>1, <1>2, <2>1
    <3>. QED BY <1>1, <2>1, <3>1, Zenon
  <2>2. CASE j = Len(s) + 1
    <3>1. ~(j < Len(s) + 1) BY <1>2, <2>2
    <3>. QED BY <1>1, <2>2, <3>1, Zenon
  <2>. QED BY <1>1, <1>2, <2>1, <2>2
<1>. QED BY <1>1, <1>2, <1>3, Zenon DEF PutAt

\* an element is added at the end
LEMMA AppendedSet ==
  ASSUME NEW S, NEW s \in Seq(S), Distinct(s), NEW e \in S, e \notin ToSet(s), NEW r \in Seq(S),
         PutAt(r, s, Len(s) + 1, e)
  PROVE  /\ Distinct(r) /\ ToSet(r) = ToSet(s) \cup {e} /\ r[Len(r)] = e
         /\ (S \subseteq Nat /\ Ascends(s) /\ \A x \in ToSet(s) : x < e) => Ascends(r)
<1>0. Len(s) \in Nat /\ \A x : x \in ToSet(s) <=> \E j \in 1 .. Len(s) : s[j] = x BY InSet
<1>1. Distinct(r) /\ ToSet(r) = ToSet(s) \cup {e}
  BY SplicedSet
<1>2. ASSUME S \subseteq Nat, Ascends(s), \A x \in ToSet(s) : x < e PROVE Ascends(r)
  <2>0. PICK m : m = Len(s) + 1 /\ PutAt(r, s, m, e) OBVIOUS
  <2>1. \A j \in 1 .. m - 1 : s[j] < e BY <1>0, <1>2, <2>0
  <2>2. \A j \in m .. Len(s) : e < s[j] BY <1>0, <2>0
  <2>. QED BY <1>2, <2>0, <2>1, <2>2, SplicedAscends
<1>3. r[Len(r)] = e BY <1>0 DEF PutAt
<1>. QED BY <1>1, <1>2, <1>3

\* Insert puts a block in at a place, the one that keeps the list in order
LEMMA InsertAtPlace ==
  ASSUME NEW list \in Seq(Memory), NEW b \in Memory, b \notin ToSet(list), NEW r, r = Insert(list, b)
  PROVE  /\ r \in Seq(Memory)
         /\ \E m \in Nat :
              /\ PutAt(r, list, m, b) /\ \A j \in 1 .. m - 1 : list[j] < b
              /\ Ascends(list) => \A j \in m .. Len(list) : b < list[j]
<1> DEFINE above == {j \in DOMAIN list : list[j] > b}
<1>1. /\ Len(list) \in Nat /\ DOMAIN list = 1 .. Len(list) /\ Memory \subseteq Nat
      /\ \A j \in 1 .. Len(list) : list[j] \in Nat /\ list[j] # b
  <2>1. \A j \in 1 .. Len(list) : list[j] \in Memory BY ElementOfSeq
  <2>. QED BY <2>1, LenProperties, RegionFacts, InSet
<1>2. CASE above = {}
  <2>1. r = Append(list, b) BY <1>2 DEF Insert
  <2>2. r \in Seq(Memory) /\ PutAt(r, list, Len(list) + 1, b) BY <2>1, AppendedAt
  <2>3. PICK m \in Nat : m = Len(list) + 1 BY <1>1
  <2>4. \A j \in 1 .. m - 1 : list[j] < b BY <1>1, <1>2, <2>3
  <2>5. \A j \in m .. Len(list) : b < list[j] BY <1>1, <2>3
  <2>. QED BY <2>2, <2>3, <2>4, <2>5, Zenon
<1>3. CASE above # {}
  <2>1. above \subseteq Nat /\ above \subseteq 1 .. Len(list) BY <1>1
  <2>2. PICK m : m = Min(above) OBVIOUS
  <2>3. m \in above /\ \A j \in above : m <= j
    <3>1. \E x \in above : \A y \in above : x <= y BY <1>3, <2>1, Least
    <3>. QED BY <2>2, <3>1 DEF Min
  <2>4. r = InsertAt(list, m, b) BY <1>3, <2>2 DEF Insert
  <2>5. m \in 1 .. Len(list) /\ list[m] > b /\ \A j \in 1 .. Len(list) : j < m => list[j] < b
    BY <1>1, <2>1, <2>3
  <2>6. m \in 1 .. Len(list) + 1 /\ m \in Nat BY <1>1, <2>5
  <2>7. r \in Seq(Memory) /\ PutAt(r, list, m, b) BY <2>4, <2>6, Inserted
  <2>8. ASSUME Ascends(list) PROVE \A j \in m .. Len(list) : b < list[j]
    BY <1>1, <2>5, <2>8 DEF Ascends
  <2>9. \A j \in 1 .. m - 1 : list[j] < b BY <1>1, <2>5
  <2>. QED BY <2>6, <2>7, <2>8, <2>9, Zenon
<1>. QED BY <1>2, <1>3

LEMMA InsertSet ==
  ASSUME NEW list \in Seq(Memory), Distinct(list), NEW b \in Memory, b \notin ToSet(list)
  PROVE  /\ Insert(list, b) \in Seq(Memory) /\ Distinct(Insert(list, b))
         /\ ToSet(Insert(list, b)) = ToSet(list) \cup {b}
         /\ Ascends(list) => Ascends(Insert(list, b))
<1>0. PICK r : r = Insert(list, b) OBVIOUS
<1>1. r \in Seq(Memory) BY <1>0, InsertAtPlace
<1>2. PICK m \in Nat :
        /\ PutAt(r, list, m, b) /\ \A j \in 1 .. m - 1 : list[j] < b
        /\ Ascends(list) => \A j \in m .. Len(list) : b < list[j]
  BY <1>0, InsertAtPlace
<1>3. Distinct(r) /\ ToSet(r) = ToSet(list) \cup {b}
  BY <1>1, <1>2, SplicedSet
<1>4. ASSUME Ascends(list) PROVE Ascends(r)
  BY <1>1, <1>2, <1>4, SplicedAscends, RegionFacts
<1>. QED BY <1>0, <1>1, <1>3, <1>4

LEMMA ReplacedSet ==
  ASSUME NEW S, NEW s \in Seq(S), Distinct(s), NEW m \in 1 .. Len(s), NEW e \in S, e \notin ToSet(s),
         NEW r, Replaced(r, s, m, e)
  PROVE  /\ r \in Seq(S) /\ Distinct(r) /\ ToSet(r) = (ToSet(s) \ {s[m]}) \cup {e}
<1>1. /\ r \in Seq(S) /\ Len(r) = Len(s) /\ Len(s) \in Nat /\ r[m] = e
      /\ \A j \in 1 .. Len(s) : j # m => r[j] = s[j]
  <2>1. r = [s EXCEPT ![m] = e] BY DEF Replaced
  <2>. QED BY <2>1, ExceptSeq, LenProperties
<1>2. /\ \A x : x \in ToSet(s) <=> \E j \in 1 .. Len(s) : s[j] = x
      /\ \A x : x \in ToSet(r) <=> \E j \in 1 .. Len(r) : r[j] = x
  <2>1. \A x : x \in ToSet(s) <=> \E j \in 1 .. Len(s) : s[j] = x BY InSet
  <2>2. \A x : x \in ToSet(r) <=> \E j \in 1 .. Len(r) : r[j] = x BY <1>1, InSet
  <2>. QED BY <2>1, <2>2
<1>3. \A j \in 1 .. Len(s) : s[j] # e BY <1>2
<1>4. Distinct(r) BY <1>1, <1>3 DEF Distinct
<1>5. ToSet(r) = (ToSet(s) \ {s[m]}) \cup {e}
  <2>1. ASSUME NEW x PROVE x \in ToSet(r) <=> x \in (ToSet(s) \ {s[m]}) \cup {e}
    <3>1. (\E j \in 1 .. Len(s) : r[j] = x) <=> x = e \/ \E j \in 1 .. Len(s) : j # m /\ s[j] = x
      BY <1>1
    <3>2. (\E j \in 1 .. Len(s) : j # m /\ s[j] = x) <=> x # s[m] /\ \E j \in 1 .. Len(s) : s[j] = x
      BY DEF Distinct
    <3>. QED BY <1>1, <1>2, <3>1, <3>2
  <2>. QED BY <2>1
<1>. QED BY <1>1, <1>4, <1>5

LEMMA ReplacedAscends ==
  ASSUME NEW S, NEW s \in Seq(S), S \subseteq Nat, Ascends(s), NEW m \in 1 .. Len(s), NEW e \in S,
         NEW r, Replaced(r, s, m, e),
         \A j \in 1 .. Len(s) : (j < m => s[j] < e) /\ (m < j => e < s[j])
  PROVE  Ascends(r)
<1>1. /\ Len(r) = Len(s) /\ Len(s) \in Nat /\ r[m] = e
      /\ \A j \in 1 .. Len(s) : j # m => r[j] = s[j]
  <2>1. r = [s EXCEPT ![m] = e] BY DEF Replaced
  <2>. QED BY <2>1, ExceptSeq, LenProperties
<1>. QED BY <1>1 DEF Ascends

LEMMA PrefixedAt ==
  ASSUME NEW S, NEW s \in Seq(S), NEW e \in S, NEW r, Prefixed(r, s, e)
  PROVE  r \in Seq(S) /\ PutAt(r, s, 1, e)
<1>0. Len(s) \in Nat BY LenProperties
<1>1. PICK o : o = <<e>> /\ r = o \o s BY DEF Prefixed
<1>2. o \in Seq(S) /\ Len(o) = 1 /\ o[1] = e BY <1>1
<1>3. /\ r \in Seq(S) /\ Len(r) = Len(o) + Len(s)
      /\ \A j \in 1 .. Len(o) : r[j] = o[j]
      /\ \A j \in 1 .. Len(s) : r[Len(o) + j] = s[j]
  <2>1. o \in Seq(S) /\ s \in Seq(S) BY <1>2
  <2>2. r = o \o s BY <1>1
  <2>. QED BY <2>1, <2>2, Joined
<1>4. Len(r) = Len(s) + 1 /\ 1 \in 1 .. Len(s) + 1 BY <1>0, <1>2, <1>3
<1>5. ASSUME NEW j \in 1 .. Len(r)
      PROVE  r[j] = IF j < 1 THEN s[j] ELSE IF j = 1 THEN e ELSE s[j - 1]
  <2>1. CASE j = 1 BY <1>2, <1>3, <2>1
  <2>2. CASE j # 1
    <3>1. j - 1 \in 1 .. Len(s) /\ 1 + (j - 1) = j BY <1>0, <1>4, <2>2
    <3>. QED BY <1>2, <1>3, <2>2, <3>1
  <2>. QED BY <2>1, <2>2
<1>. QED BY <1>3, <1>4, <1>5 DEF PutAt
-----------------------------------------------------------------------------
(* defrag_free_list: the list kept and the sizes after each block.         *)

\* the list kept and the sizes after each of the first m blocks
IsPass(p, list, sz, m) ==
  p = [n \in 0 .. m |-> IF n = 0 THEN [list |-> <<>>, size |-> sz] ELSE Absorb(p[n - 1], list[n])]

LEMMA PassExists ==
  ASSUME NEW list \in Seq(Memory), NEW sz PROVE \E p : IsPass(p, list, sz, Len(list))
<1> DEFINE start == [list |-> <<>>, size |-> sz]
           T == {m \in 0 .. Len(list) : ~ \E p : IsPass(p, list, sz, m)}
<1>0. \A p, m : IsPass(p, list, sz, m) <=>
               p = [n \in 0 .. m |-> IF n = 0 THEN start ELSE Absorb(p[n - 1], list[n])]
  BY Zenon DEF IsPass
<1> HIDE DEF start
<1>1. Len(list) \in Nat BY LenProperties
<1>2. CASE T # {}
  <2>1. T \subseteq Nat BY <1>1
  <2>2. PICK m \in T : \A n \in T : m <= n BY <1>2, <2>1, Least
  <2>3. m \in 0 .. Len(list) /\ ~ \E p : IsPass(p, list, sz, m) OBVIOUS
  <2>4. CASE m = 0
    <3> DEFINE p == [n \in 0 .. 0 |-> start]
    <3>1. p = [n \in 0 .. 0 |-> IF n = 0 THEN start ELSE Absorb(p[n - 1], list[n])] OBVIOUS
    <3> HIDE DEF p
    <3>2. IsPass(p, list, sz, 0) BY <1>0, <3>1, Zenon
    <3>. QED BY <2>3, <2>4, <3>2
  <2>5. CASE m # 0
    <3>1. m - 1 \in 0 .. Len(list) /\ m - 1 \notin T
      <4>1. m - 1 \in 0 .. Len(list) /\ ~(m <= m - 1) BY <1>1, <2>3, <2>5
      <4> HIDE DEF T
      <4>. QED BY <2>2, <4>1
    <3>2. PICK p : IsPass(p, list, sz, m - 1) BY <3>1
    <3> DEFINE q == [n \in 0 .. m |-> IF n = m THEN Absorb(p[m - 1], list[m]) ELSE p[n]]
    <3>3. ASSUME NEW n \in 0 .. m
          PROVE  q[n] = IF n = 0 THEN start ELSE Absorb(q[n - 1], list[n])
      <4>1. \A j \in 0 .. m - 1 : p[j] = IF j = 0 THEN start ELSE Absorb(p[j - 1], list[j])
        BY <1>0, <3>2
      <4>2. \A j \in 0 .. m - 1 : q[j] = p[j] BY <1>1, <2>3
      <4>3. CASE n = m
        <5>1. q[m] = Absorb(p[m - 1], list[m]) /\ m - 1 \in 0 .. m - 1 BY <1>1, <2>3, <2>5
        <5>. QED BY <2>5, <4>2, <4>3, <5>1
      <4>4. CASE n # m
        <5>1. n \in 0 .. m - 1 /\ (n # 0 => n - 1 \in 0 .. m - 1) BY <1>1, <2>3, <4>4
        <5>. QED BY <4>1, <4>2, <5>1
      <4>. QED BY <4>3, <4>4
    <3>4. IsPass(q, list, sz, m)
      <4>1. q = [n \in 0 .. m |-> q[n]] OBVIOUS
      <4> HIDE DEF q
      <4>2. [n \in 0 .. m |-> q[n]] =
            [n \in 0 .. m |-> IF n = 0 THEN start ELSE Absorb(q[n - 1], list[n])]
        BY <3>3
      <4>. QED BY <1>0, <4>1, <4>2, Zenon
    <3>. QED BY <2>3, <3>4
  <2>. QED BY <2>4, <2>5
<1>3. CASE T = {}
  <2>1. Len(list) \in 0 .. Len(list) BY <1>1
  <2>. QED BY <1>3, <2>1
<1>. QED BY <1>2, <1>3

LEMMA DefragPasses ==
  ASSUME NEW list \in Seq(Memory), NEW sz
  PROVE  \E p :
               /\ p[0] = [list |-> <<>>, size |-> sz]
               /\ \A n \in 1 .. Len(list) : p[n] = Absorb(p[n - 1], list[n])
               /\ Defrag(list, sz) = p[Len(list)]
<1> DEFINE p == CHOOSE q : IsPass(q, list, sz, Len(list))
<1>1. IsPass(p, list, sz, Len(list))
  <2>1. \E q : IsPass(q, list, sz, Len(list)) BY PassExists
  <2>. QED BY <2>1, Zenon
<1>2. Defrag(list, sz) = p[Len(list)] BY DEF Defrag, IsPass
<1> HIDE DEF p
<1>3. Len(list) \in Nat BY LenProperties
<1>4. \A n \in 0 .. Len(list) : p[n] = IF n = 0 THEN [list |-> <<>>, size |-> sz]
                                              ELSE Absorb(p[n - 1], list[n])
  BY <1>1 DEF IsPass
<1>. QED BY <1>2, <1>3, <1>4

\* the blocks from the n-th of the list on, and all there are after n - 1 of them
From(list, n) == {list[j] : j \in n .. Len(list)}
Held(keep, l, list, n) == keep \cup ToSet(l) \cup From(list, n)

\* what holds before the n-th block is looked at: the blocks in use, those kept in l and
\* those still to come tile G, and of a list in order no two that were kept touch
PassOK(l, s, n, list, keep, sz, G) ==
  /\ l \in Seq(Memory) /\ Distinct(l)
  /\ ToSet(l) \cap keep = {} /\ ToSet(l) \cap From(list, n) = {}
  /\ Tiles(Held(keep, l, list, n), s, G)
  /\ \A c \in keep : s[c] = sz[c]
  /\ Ascends(list) => /\ Ascends(l) /\ \A x \in ToSet(l), y \in From(list, n) : x < y
                     /\ \A x, y \in ToSet(l) : End(x, s) # y

\* the list and the sizes that defrag_free_list leaves
Defragged(l, s, list, sz) == l = Defrag(list, sz).list /\ s = Defrag(list, sz).size

LEMMA FromStep ==
  ASSUME NEW list \in Seq(Memory), Distinct(list), NEW n \in 1 .. Len(list)
  PROVE  From(list, n) = From(list, n + 1) \cup {list[n]} /\ list[n] \notin From(list, n + 1)
<1>1. Len(list) \in Nat BY LenProperties
<1>2. \A j : j \in n .. Len(list) <=> j = n \/ j \in n + 1 .. Len(list) BY <1>1
<1>3. \A j \in n + 1 .. Len(list) : j \in 1 .. Len(list) /\ j # n BY <1>1
<1>. QED BY <1>2, <1>3 DEF From, Distinct

LEMMA MergeOK ==
  ASSUME NEW list \in Seq(Memory), Distinct(list), NEW keep, keep \cap From(list, 1) = {},
         NEW sz, NEW G, G \subseteq Memory, NEW n \in 1 .. Len(list),
         NEW l, NEW s, PassOK(l, s, n, list, keep, sz, G),
         l # <<>>, End(Last(l), s) = list[n],
         NEW t, Merged(t, s, Last(l), list[n])
  PROVE  PassOK(l, t, n + 1, list, keep, sz, G)
<1> DEFINE b == list[n]
           last == Last(l)
<1>1. /\ From(list, n) = From(list, n + 1) \cup {b} /\ b \notin From(list, n + 1)
      /\ b \in From(list, 1)
  <2>1. n \in 1 .. Len(list) OBVIOUS
  <2>. QED BY FromStep DEF From
<1>2. l \in Seq(Memory) /\ Len(l) \in Nat /\ last \in ToSet(l)
  <2>1. l \in Seq(Memory) BY DEF PassOK
  <2>2. Len(l) \in Nat /\ Len(l) # 0 BY <2>1, EmptySeq, LenProperties
  <2>3. Len(l) \in 1 .. Len(l) /\ last = l[Len(l)] BY <2>2 DEF Last
  <2>. QED BY <2>1, <2>2, <2>3, InSet
<1>3. b \notin keep /\ b \notin ToSet(l) /\ b \in From(list, n) /\ last \notin keep
  BY <1>1, <1>2 DEF PassOK
<1> HIDE DEF b, last
<1>4. last \in Held(keep, l, list, n) /\ b \in Held(keep, l, list, n) /\ End(last, s) = b
  BY <1>2, <1>3 DEF Held, b, last
<1>5. Merged(t, s, last, b)
  BY DEF b, last
<1>6. /\ Tiles(Held(keep, l, list, n) \ {b}, t, G)
      /\ \A d \in Memory : d # last => t[d] = s[d]
  <2>1. Tiles(Held(keep, l, list, n), s, G) BY DEF PassOK
  <2>2. PICK B : B = Held(keep, l, list, n) OBVIOUS
  <2>3. last \in B /\ b \in B /\ Tiles(B, s, G) BY <1>4, <2>1, <2>2
  <2>4. Tiles(B \ {b}, t, G) BY <1>4, <1>5, <2>3, MergeTiles
  <2>5. \A d \in Memory : d # last => t[d] = s[d] BY <1>5, <2>3 DEF Merged, Tiles
  <2>. QED BY <2>2, <2>4, <2>5
<1>7. Held(keep, l, list, n) \ {b} = Held(keep, l, list, n + 1)
  BY <1>1, <1>3 DEF Held
<1>8. /\ keep \subseteq Memory /\ ToSet(l) \subseteq Memory /\ From(list, n) \subseteq Memory
      /\ last \in Memory /\ s \in [Memory -> 0 .. Cardinality(Memory)]
  BY <1>2 DEF PassOK, Tiles, Held
<1>9. ASSUME Ascends(list)
      PROVE  /\ Ascends(l) /\ \A x \in ToSet(l), y \in From(list, n + 1) : x < y
             /\ \A x, y \in ToSet(l) : End(x, t) # y
  <2>1. /\ Ascends(l) /\ \A x \in ToSet(l), y \in From(list, n) : x < y
        /\ \A x, y \in ToSet(l) : End(x, s) # y
    BY <1>9 DEF PassOK
  <2>2. \A x \in ToSet(l), y \in From(list, n + 1) : x < y BY <1>1, <2>1
  <2>3. ASSUME NEW x \in ToSet(l), NEW y \in ToSet(l) PROVE End(x, t) # y
    <3>1. CASE x # last
      <4>1. t[x] = s[x] BY <1>6, <1>8, <3>1
      <4>. QED BY <2>1, <4>1 DEF End
    <3>2. CASE x = last
      <4>1. /\ last \in Nat /\ End(last, t) \in Nat /\ last < End(last, t)
            /\ last \in Held(keep, l, list, n) \ {b}
        <5>1. last \in Held(keep, l, list, n) \ {b} BY <1>2, <1>3, <1>4
        <5>. QED BY <1>6, <5>1, BlockFacts
      <4>2. y < b /\ y \in Nat /\ b \in Nat
        <5>1. y < b BY <1>3, <2>1
        <5>. QED BY <1>3, <1>8, <5>1, RegionFacts
      <4>3. b < End(last, t)
        <5>1. /\ t[last] = s[last] + Header + s[b] BY <1>5, <1>8 DEF Merged
        <5>2. s[b] \in Nat /\ s[last] \in Nat /\ Header \in Nat /\ Header > 0
          BY <1>3, <1>8, MemoryFinite, SizesAssumption
        <5>3. b = last + Header + s[last] BY <1>4 DEF End
        <5>. QED BY <4>1, <5>1, <5>2, <5>3 DEF End
      <4>. QED BY <3>2, <4>1, <4>2, <4>3
    <3>. QED BY <3>1, <3>2
  <2>. QED BY <2>1, <2>2, <2>3
<1>10. /\ ToSet(l) \cap keep = {} /\ ToSet(l) \cap From(list, n + 1) = {} /\ Distinct(l)
       /\ \A c \in keep : t[c] = sz[c]
  <2>1. \A c \in keep : t[c] = s[c] BY <1>3, <1>6, <1>8
  <2>. QED BY <1>1, <2>1 DEF PassOK
<1>. QED BY <1>2, <1>6, <1>7, <1>9, <1>10 DEF PassOK

LEMMA KeepOK ==
  ASSUME NEW list \in Seq(Memory), Distinct(list), NEW keep, keep \cap From(list, 1) = {},
         NEW sz, NEW G, G \subseteq Memory, NEW n \in 1 .. Len(list),
         NEW l, NEW s, PassOK(l, s, n, list, keep, sz, G),
         l = <<>> \/ End(Last(l), s) # list[n],
         NEW r \in Seq(Memory), PutAt(r, l, Len(l) + 1, list[n])
  PROVE  PassOK(r, s, n + 1, list, keep, sz, G)
<1> DEFINE b == list[n]
<1>1. /\ From(list, n) = From(list, n + 1) \cup {b} /\ b \notin From(list, n + 1)
      /\ b \in From(list, 1) /\ b \in From(list, n)
  <2>1. From(list, n) = From(list, n + 1) \cup {b} /\ b \notin From(list, n + 1) BY FromStep
  <2>2. b \in From(list, 1) BY DEF From
  <2>. QED BY <2>1, <2>2
<1>2. b \notin keep /\ b \notin ToSet(l) BY <1>1 DEF PassOK
<1>3. b \in Memory BY ElementOfSeq
<1> HIDE DEF b
<1>4. r \in Seq(Memory) /\ PutAt(r, l, Len(l) + 1, b)
  BY DEF b
<1>5. /\ Distinct(r) /\ ToSet(r) = ToSet(l) \cup {b}
      /\ (Memory \subseteq Nat /\ Ascends(l) /\ \A x \in ToSet(l) : x < b) => Ascends(r)
  <2>1. l \in Seq(Memory) /\ Distinct(l) BY DEF PassOK
  <2>2. /\ Distinct(r) /\ ToSet(r) = ToSet(l) \cup {b} 
        /\ (Memory \subseteq Nat /\ Ascends(l) /\ \A x \in ToSet(l) : x < b) => Ascends(r)
    BY <1>2, <1>3, <1>4, <2>1, AppendedSet, SMTT(60)
  <2>. QED BY <2>2
<1>6. Held(keep, r, list, n + 1) = Held(keep, l, list, n)
  BY <1>1, <1>5 DEF Held
<1>7. Tiles(Held(keep, l, list, n), s, G) BY DEF PassOK
<1>8. ASSUME Ascends(list)
      PROVE  /\ Ascends(r) /\ \A x \in ToSet(r), y \in From(list, n + 1) : x < y
             /\ \A x, y \in ToSet(r) : End(x, s) # y
  <2>1. /\ Ascends(l) /\ \A x \in ToSet(l), y \in From(list, n) : x < y
        /\ \A x, y \in ToSet(l) : End(x, s) # y
    BY <1>8 DEF PassOK
  <2>2. Ascends(r) BY <1>1, <1>5, <2>1, RegionFacts
  <2>3. \A y \in From(list, n + 1) : b < y
    <3>1. Len(list) \in Nat BY LenProperties
    <3>. QED BY <1>8, <3>1 DEF From, Ascends, b
  <2>4. \A x \in ToSet(r), y \in From(list, n + 1) : x < y BY <1>1, <1>5, <2>1, <2>3
  <2>5. \A x \in ToSet(l) : x < b BY <1>1, <2>1
  <2>6. \A x \in ToSet(r) : /\ x \in Nat /\ End(x, s) \in Nat /\ x < End(x, s)
                          /\ x \in Held(keep, l, list, n)
    <3>1. \A x \in ToSet(r) : x \in Held(keep, l, list, n) BY <1>1, <1>5 DEF Held
    <3>. QED BY <1>7, <3>1, BlockFacts
  <2>7. ASSUME NEW x \in ToSet(r), NEW y \in ToSet(r) PROVE End(x, s) # y
    <3>1. CASE x \in ToSet(l) /\ y \in ToSet(l) BY <2>1, <3>1
    <3>2. CASE x = b
      <4>1. y = b \/ y < b BY <1>5, <2>5
      <4>. QED BY <1>5, <2>6, <3>2, <4>1
    <3>3. CASE x \in ToSet(l) /\ y = b
      <4>1. l \in Seq(Memory) /\ Len(l) \in Nat BY LenProperties DEF PassOK
      <4>2. PICK j \in 1 .. Len(l) : l[j] = x BY <3>3, <4>1, InSet
      <4>3. Last(l) = l[Len(l)] /\ Len(l) \in 1 .. Len(l) /\ l # <<>> /\ Last(l) \in ToSet(l)
        <5>1. Len(l) \in 1 .. Len(l) BY <4>1
        <5>2. l # <<>> BY <4>1, <4>2, <5>1
        <5>. QED BY <4>1, <5>1, <5>2, InSet DEF Last
      <4>4. CASE x = Last(l) BY <3>3, <4>3, <4>4 DEF b
      <4>5. CASE x # Last(l)
        <5>1. j < Len(l) BY <4>1, <4>2, <4>3, <4>5
        <5>2. x < Last(l) BY <2>1, <4>2, <4>3, <5>1 DEF Ascends
        <5>3. x \in Held(keep, l, list, n) /\ Last(l) \in Held(keep, l, list, n)
          BY <3>3, <4>3 DEF Held
        <5>4. End(x, s) <= Last(l) BY <1>7, <5>2, <5>3, Apart
        <5>5. Last(l) < b /\ Last(l) \in Nat /\ b \in Nat BY <1>5, <2>5, <2>6, <4>3
        <5>. QED BY <2>6, <3>3, <5>4, <5>5
      <4>. QED BY <4>4, <4>5
    <3>. QED BY <1>5, <3>1, <3>2, <3>3
  <2>. QED BY <2>2, <2>4, <2>7
<1>9. /\ ToSet(r) \cap keep = {} /\ ToSet(r) \cap From(list, n + 1) = {}
      /\ \A c \in keep : s[c] = sz[c]
  BY <1>1, <1>2, <1>5 DEF PassOK
<1>. QED BY <1>4, <1>5, <1>6, <1>7, <1>8, <1>9 DEF PassOK

LEMMA DefragOK ==
  ASSUME NEW list \in Seq(Memory), Distinct(list), NEW keep, keep \cap ToSet(list) = {},
         NEW sz, NEW G, G \subseteq Memory, Tiles(keep \cup ToSet(list), sz, G),
         NEW l, NEW s, Defragged(l, s, list, sz)
  PROVE  PassOK(l, s, Len(list) + 1, list, keep, sz, G)
<1>1. PICK p :
               /\ p[0] = [list |-> <<>>, size |-> sz]
               /\ \A n \in 1 .. Len(list) : p[n] = Absorb(p[n - 1], list[n])
               /\ Defrag(list, sz) = p[Len(list)]
  BY DefragPasses
<1> DEFINE OK(n) == \E m, t : p[n] = [list |-> m, size |-> t] /\ PassOK(m, t, n + 1, list, keep, sz, G)
           T == {n \in 0 .. Len(list) : ~OK(n)}
<1>2. /\ Len(list) \in Nat /\ From(list, 1) = ToSet(list) /\ From(list, Len(list) + 1) = {}
  <2>1. Len(list) \in Nat /\ DOMAIN list = 1 .. Len(list) BY LenProperties
  <2>2. Len(list) + 1 .. Len(list) = {} BY <2>1
  <2>. QED BY <2>1, <2>2 DEF From, ToSet
<1>3. OK(0)
  <2>1. <<>> \in Seq(Memory) /\ ToSet(<<>>) = {} /\ Distinct(<<>>) /\ Ascends(<<>>)
    BY EmptySeq DEF ToSet, Distinct, Ascends
  <2>2. Held(keep, <<>>, list, 1) = keep \cup ToSet(list) BY <1>2, <2>1 DEF Held
  <2>3. PassOK(<<>>, sz, 1, list, keep, sz, G) BY <1>2, <2>1, <2>2 DEF PassOK
  <2>4. 0 + 1 = 1 OBVIOUS
  <2>. QED BY <1>1, <2>3, <2>4
<1>4. ASSUME NEW n \in 1 .. Len(list), OK(n - 1) PROVE OK(n)
  <2>1. PICK m, t : p[n - 1] = [list |-> m, size |-> t] /\ PassOK(m, t, n, list, keep, sz, G)
    <3>1. n - 1 + 1 = n BY <1>2
    <3>. QED BY <1>4, <3>1
  <2>2. p[n] = Absorb([list |-> m, size |-> t], list[n]) BY <1>1, <2>1
  <2>3. keep \cap From(list, 1) = {} BY <1>2
  <2>4. CASE m # <<>> /\ End(Last(m), t) = list[n]
    <3>1. PICK u : u = [t EXCEPT ![Last(m)] = t[Last(m)] + Header + t[list[n]]] OBVIOUS
    <3>2. p[n] = [list |-> m, size |-> u] BY <2>2, <2>4, <3>1 DEF Absorb
    <3>3. Merged(u, t, Last(m), list[n]) BY <3>1 DEF Merged
    <3>4. PassOK(m, u, n + 1, list, keep, sz, G) BY <2>1, <2>3, <2>4, <3>3, MergeOK
    <3>. QED BY <3>2, <3>4
  <2>5. CASE ~(m # <<>> /\ End(Last(m), t) = list[n])
    <3>1. PICK r : r = Append(m, list[n]) OBVIOUS
    <3>2. p[n] = [list |-> r, size |-> t] BY <2>2, <2>5, <3>1 DEF Absorb
    <3>3. r \in Seq(Memory) /\ PutAt(r, m, Len(m) + 1, list[n])
      <4>1. m \in Seq(Memory) /\ list[n] \in Memory BY <2>1, ElementOfSeq DEF PassOK
      <4>. QED BY <3>1, <4>1, AppendedAt
    <3>4. PassOK(r, t, n + 1, list, keep, sz, G) BY <2>1, <2>3, <2>5, <3>3, KeepOK
    <3>. QED BY <3>2, <3>4
  <2>. QED BY <2>4, <2>5
<1> HIDE DEF OK
<1>5. OK(Len(list))
  <2> SUFFICES ASSUME ~OK(Len(list)) PROVE FALSE OBVIOUS
  <2>1. Len(list) \in T /\ T \subseteq Nat BY <1>2
  <2>2. PICK n \in T : \A m \in T : n <= m BY <2>1, Least
  <2>3. n \in 1 .. Len(list) /\ ~OK(n) BY <1>2, <1>3
  <2>4. n - 1 \notin T
    <3>1. n \in Nat /\ ~(n <= n - 1) BY <1>2, <2>3
    <3> HIDE DEF T
    <3>. QED BY <2>2, <3>1
  <2>5. n - 1 \in 0 .. Len(list) BY <1>2, <2>3
  <2>. QED BY <1>4, <2>3, <2>4, <2>5
<1>6. PICK m, t : Defrag(list, sz) = [list |-> m, size |-> t] /\ PassOK(m, t, Len(list) + 1, list, keep, sz, G)
  BY <1>1, <1>5 DEF OK
<1>7. l = m /\ s = t BY <1>6 DEF Defragged
<1>. QED BY <1>6, <1>7

\* how the list l and the sizes s stand when the pass over the list is done
PassEnds(l, s, list, keep, sz, G) ==
  /\ l \in Seq(Memory) /\ Distinct(l) /\ ToSet(l) \cap keep = {}
  /\ Tiles(keep \cup ToSet(l), s, G) /\ \A c \in keep : s[c] = sz[c]
  /\ Ascends(list) => Ascends(l) /\ \A x, y \in ToSet(l) : End(x, s) # y

LEMMA PassDone ==
  ASSUME NEW list \in Seq(Memory), NEW keep, NEW sz, NEW G, NEW l, NEW s,
         PassOK(l, s, Len(list) + 1, list, keep, sz, G)
  PROVE  PassEnds(l, s, list, keep, sz, G)
<1>1. Len(list) \in Nat BY LenProperties
<1>2. From(list, Len(list) + 1) = {} BY <1>1 DEF From
<1>3. Held(keep, l, list, Len(list) + 1) = keep \cup ToSet(l) BY <1>2 DEF Held
<1>. QED BY <1>3 DEF PassOK, PassEnds
-----------------------------------------------------------------------------
(* FLInv is inductive.                                                     *)

LEMMA GivenWithin ==
  ASSUME added \in 0 .. Len(Regions) PROVE Given \subseteq Memory
  BY RegionFacts DEF Given

LEMMA GivenGrows ==
  ASSUME added \in 0 .. Len(Regions), added < Len(Regions), added' = added + 1,
         NEW r, r = Regions[added + 1]
  PROVE  /\ Given' = Given \cup Words(r) /\ Words(r) \cap Given = {}
         /\ r \in ToSet(Regions) /\ r \in [at : Nat, len : Nat]
         /\ r.len > Header /\ Words(r) \subseteq Memory
<1>1. added + 1 \in 1 .. Len(Regions) /\ added + 1 \in DOMAIN Regions BY RegionFacts
<1>2. \A j : j \in 1 .. added + 1 <=> j \in 1 .. added \/ j = added + 1 BY RegionFacts
<1>3. Given' = Given \cup Words(r) BY <1>2 DEF Given
<1>4. \A j \in 1 .. added : j \in DOMAIN Regions /\ j # added + 1 BY RegionFacts
<1>5. Words(r) \cap Given = {} BY <1>1, <1>4, RegionsAssumption DEF Given
<1>6. r \in ToSet(Regions) BY <1>1 DEF ToSet
<1>7. r \in [at : Nat, len : Nat] /\ r.len > Header /\ Words(r) \subseteq Memory
  BY <1>1, RegionFacts
<1>. QED BY <1>3, <1>5, <1>6, <1>7

\* malloc_addblock: the list begins with the region, as one block
LEMMA AddBlockFacts ==
  ASSUME FLInv, AddBlock, NEW r, r = Regions[added + 1]
  PROVE  /\ FLInv' /\ Given' = Given \cup Words(r) /\ Words(r) \cap Given = {}
         /\ r \in ToSet(Regions) /\ \A b \in used : size'[b] = size[b]
         /\ PutAt(free', free, 1, r.at) /\ r.at \in Memory
<1>1. /\ added \in 0 .. Len(Regions) /\ added < Len(Regions) /\ added' = added + 1
      /\ used' = used /\ free' = <<r.at>> \o free
      /\ size' = [size EXCEPT ![r.at] = r.len - Header]
  BY DEF FLInv, AddBlock
<1>2. /\ Given \subseteq Memory /\ Given' = Given \cup Words(r) /\ Words(r) \cap Given = {}
      /\ r \in ToSet(Regions) /\ r \in [at : Nat, len : Nat]
      /\ r.len > Header /\ Words(r) \subseteq Memory
  BY <1>1, GivenGrows, GivenWithin
<1>3. Tiles(Blocks, size, Given) BY DEF FLInv
<1>4. r.at \notin Blocks /\ r.at \in Memory /\ Tiles(Blocks \cup {r.at}, size', Given \cup Words(r))
  BY <1>1, <1>2, <1>3, AddTiles
<1>5. PICK e : e = r.at OBVIOUS
<1>6. free \in Seq(Memory) /\ e \in Memory /\ Len(free) \in Nat
  BY <1>4, <1>5, LenProperties DEF FLInv
<1>7. free' \in Seq(Memory) /\ PutAt(free', free, 1, e)
  <2>1. Prefixed(free', free, e) BY <1>1, <1>5 DEF Prefixed
  <2>. QED BY <1>6, <2>1, PrefixedAt
<1>8. e \notin ToSet(free) /\ e \notin used BY <1>4, <1>5 DEF Blocks
<1>9. Distinct(free') /\ ToSet(free') = ToSet(free) \cup {e}
  <2>1. Distinct(free) BY DEF FLInv
  <2>. QED BY <1>6, <1>7, <1>8, <2>1, SplicedSet
<1>10. Blocks' = Blocks \cup {e} BY <1>1, <1>9 DEF Blocks
<1>11. \A b \in used : size'[b] = size[b]
  BY <1>1, <1>3, <1>5, <1>8 DEF Tiles, Blocks
<1>12. FLInv'
  <2>1. used' \subseteq Memory /\ used' \cap ToSet(free') = {}
    BY <1>1, <1>8, <1>9 DEF FLInv
  <2>2. added' \in 0 .. Len(Regions) BY <1>1, RegionFacts
  <2>3. Tiles(Blocks', size', Given') BY <1>2, <1>4, <1>5, <1>10
  <2>. QED BY <1>7, <1>9, <2>1, <2>2, <2>3 DEF FLInv
<1>. QED BY <1>2, <1>4, <1>5, <1>7, <1>11, <1>12

\* the block fl_malloc finds is long enough
LEMMA FirstFitFacts ==
  ASSUME FLInv, NEW n \in Nat, NEW m, m = FirstFit(n), m # 0
  PROVE  /\ m \in 1 .. Len(free) /\ size[free[m]] >= n /\ free[m] \in ToSet(free)
<1> DEFINE fits == {j \in DOMAIN free : size[free[j]] >= n}
<1>1. Len(free) \in Nat /\ DOMAIN free = 1 .. Len(free) /\ free \in Seq(Memory)
  BY LenProperties DEF FLInv
<1>2. fits # {} /\ m = Min(fits) BY DEF FirstFit
<1>3. fits \subseteq Nat BY <1>1
<1>4. \E x \in fits : \A y \in fits : x <= y
  <2> HIDE DEF fits
  <2>. QED BY <1>2, <1>3, Least
<1>5. m \in fits BY <1>2, <1>4 DEF Min
<1>6. m \in 1 .. Len(free) /\ size[free[m]] >= n BY <1>1, <1>5
<1>. QED BY <1>1, <1>6, InSet

\* fl_malloc: the block b becomes the user's, as long as was asked for at least
LEMMA ServeFacts ==
  ASSUME FLInv, NEW n \in Nat, Serve(n), FirstFit(n) # 0,
         NEW b, b = free[FirstFit(n)]
  PROVE  /\ FLInv' /\ Given' = Given /\ b \in ToSet(free) /\ b \notin used
         /\ used' = used \cup {b} /\ size'[b] >= n
         /\ \A c \in used : size'[c] = size[c]
         /\ Ascends(free) => Ascends(free')
<1>0. n \in Nat OBVIOUS
<1>1. PICK m : m = FirstFit(n) OBVIOUS
<1>2. m \in 1 .. Len(free) /\ b = free[m] /\ size[b] >= n /\ b \in ToSet(free)
  BY <1>0, <1>1, FirstFitFacts
<1>3. /\ free \in Seq(Memory) /\ Distinct(free) /\ Tiles(Blocks, size, Given)
      /\ used \subseteq Memory /\ used \cap ToSet(free) = {} /\ added \in 0 .. Len(Regions)
      /\ Memory \subseteq Nat /\ Given \subseteq Memory /\ ToSet(free) \subseteq Blocks
  BY RegionFacts, GivenWithin DEF FLInv, Blocks
<1>4. used' = used \cup {b} /\ added' = added /\ b \notin used /\ b \in Blocks
  BY <1>1, <1>2, <1>3 DEF Serve
<1>5. Given' = Given BY <1>4 DEF Given
<1>6. CASE CanSplit(b, n)
  <2>1. PICK rest : rest = b + Header + n OBVIOUS
  <2>2. /\ size' = [size EXCEPT ![b] = n, ![rest] = size[b] - n - Header]
        /\ free' = [free EXCEPT ![m] = rest]
    <3>1. Split(m, n) BY <1>1, <1>2, <1>6 DEF Serve
    <3>. QED BY <1>2, <2>1, <3>1 DEF Split
  <2>3. /\ n + Header <= size[b] /\ b \in Nat /\ size[b] \in Nat /\ Header \in Nat /\ Header > 0
        /\ rest \in Nat /\ b < rest /\ b \in Memory
    <3>1. b \in Nat /\ size[b] \in Nat /\ b \in Memory BY <1>3, <1>4, BlockFacts
    <3>. QED BY <1>0, <1>6, <2>1, <3>1, SizesAssumption DEF CanSplit
  <2>4. rest \notin Blocks /\ rest \in Memory /\ Tiles(Blocks \cup {rest}, size', Given)
    <3>1. Parted(size', size, b, n, rest) BY <2>1, <2>2, <2>3 DEF Parted
    <3>2. Given \subseteq Memory /\ Tiles(Blocks, size, Given) /\ b \in Blocks /\ n \in Nat
      BY <1>0, <1>3, <1>4
    <3>. QED BY <3>1, <3>2, SplitTiles
  <2>5. rest \notin ToSet(free) /\ rest \notin used /\ rest # b BY <1>4, <2>4 DEF Blocks
  <2>6. /\ size'[b] = n /\ \A c \in used : size'[c] = size[c]
    BY <1>3, <1>4, <2>2, <2>3, <2>5 DEF Tiles
  <2>7. ASSUME Ascends(free)
        PROVE  \A j \in 1 .. Len(free) : (j < m => free[j] < rest) /\ (m < j => rest < free[j])
    <3>1. Len(free) \in Nat BY <1>3, LenProperties
    <3>2. \A j \in 1 .. Len(free) : free[j] \in Nat /\ free[j] \in Blocks
      BY <1>3, InSet
    <3> TAKE j \in 1 .. Len(free)
    <3>3. ASSUME j < m PROVE free[j] < rest
      <4>1. free[j] < b BY <1>2, <2>7, <3>3 DEF Ascends
      <4>. QED BY <2>3, <3>2, <4>1
    <3>4. ASSUME m < j PROVE rest < free[j]
      <4>1. b < free[j] BY <1>2, <2>7, <3>4 DEF Ascends
      <4>2. End(b, size) <= free[j] BY <1>3, <1>4, <3>2, <4>1, Apart
      <4>3. CASE rest < End(b, size) BY <2>3, <3>2, <4>2, <4>3 DEF End
      <4>4. CASE ~(rest < End(b, size))
        <5>1. End(b, size) = b + Header + size[b] BY DEF End
        <5>3. ~(b + Header + n < b + Header + size[b]) BY <2>1, <4>4, <5>1
        <5>4. rest = End(b, size) /\ rest <= free[j]
          <6>1. n = size[b] BY <1>0, <2>3, <5>3
          <6>. QED BY <2>1, <4>2, <5>1, <6>1
        <5>2. rest # free[j] BY <2>4, <3>2
        <5>. QED BY <2>3, <3>2, <5>2, <5>4
      <4>. QED BY <4>3, <4>4
    <3>. QED BY <3>3, <3>4
  <2>8. /\ free' \in Seq(Memory) /\ Distinct(free')
        /\ ToSet(free') = (ToSet(free) \ {b}) \cup {rest}
        /\ Ascends(free) => Ascends(free')
    <3>1. PICK r : Replaced(r, free, m, rest) /\ r = free' BY <2>2 DEF Replaced
    <3>2. r \in Seq(Memory) /\ Distinct(r) /\ ToSet(r) = (ToSet(free) \ {b}) \cup {rest}
      BY <1>2, <1>3, <2>4, <2>5, <3>1, ReplacedSet
    <3>3. Ascends(free) => Ascends(r)
      BY <1>2, <1>3, <2>4, <2>7, <3>1, ReplacedAscends
    <3>. QED BY <3>1, <3>2, <3>3
  <2>9. Blocks' = Blocks \cup {rest} BY <1>2, <1>4, <2>8 DEF Blocks
  <2>10. FLInv'
    <3>1. used' \subseteq Memory /\ used' \cap ToSet(free') = {}
      BY <1>3, <1>4, <2>3, <2>5, <2>8
    <3>2. Tiles(Blocks', size', Given') BY <1>5, <2>4, <2>9
    <3>. QED BY <1>3, <1>4, <2>8, <3>1, <3>2 DEF FLInv
  <2>11. size'[b] >= n BY <1>0, <2>6
  <2>. QED BY <1>2, <1>4, <1>5, <2>6, <2>8, <2>10, <2>11
<1>7. CASE ~CanSplit(b, n)
  <2>1. free' = RemoveAt(free, m) /\ size' = size
    BY <1>1, <1>2, <1>7 DEF Serve, TakeWhole
  <2>2. PICK r : r = free' OBVIOUS
  <2>3. /\ r \in Seq(Memory) /\ Distinct(r) /\ ToSet(r) = ToSet(free) \ {b}
        /\ Ascends(free) => Ascends(r)
    <3>1. Without(r, free, m) BY <2>1, <2>2 DEF Without
    <3>. QED BY <1>2, <1>3, <3>1, RemovedSet
  <2>4. Blocks' = Blocks BY <1>2, <1>4, <2>2, <2>3 DEF Blocks
  <2>5. FLInv'
    <3>1. used' \subseteq Memory /\ used' \cap ToSet(free') = {}
      BY <1>2, <1>3, <1>4, <2>2, <2>3, InSet
    <3>2. Tiles(Blocks', size', Given') BY <1>3, <1>5, <2>1, <2>4
    <3>. QED BY <1>3, <1>4, <2>2, <2>3, <3>1, <3>2 DEF FLInv
  <2>. QED BY <1>2, <1>3, <1>4, <1>5, <2>1, <2>2, <2>3, <2>5
<1>. QED BY <1>6, <1>7

\* what fl_malloc rounds a size to, and that it is what is owed
LEMMA RoundUpFacts ==
  ASSUME NEW n \in Requests
  PROVE  /\ RoundUp(n) \in Nat /\ Owed(n) \in Nat /\ Owed(n) <= RoundUp(n)
<1>1. PICK p, q : p = PtrSize /\ q = SizeMod OBVIOUS
<1>2. p \in Nat /\ p > 0 /\ q \in Nat /\ q > 0 /\ n \in Nat /\ n < q
  BY <1>1, SizesAssumption
<1>3. PICK t : t = (n + p - 1) % q OBVIOUS
<1>4. n + p - 1 \in Nat BY <1>2
<1>5. t \in Nat BY <1>2, <1>3, <1>4
<1>6. t \div p \in Nat BY <1>2, <1>5
<1>7. RoundUp(n) = t \div p BY <1>1, <1>3 DEF RoundUp
<1>8. CASE n > q - p BY <1>1, <1>6, <1>7, <1>8 DEF Owed
<1>9. CASE ~(n > q - p)
  <2>1. n + p - 1 < q BY <1>2, <1>9
  <2>2. t = n + p - 1 BY <1>2, <1>3, <1>4, <2>1
  <2>3. Owed(n) = t \div p BY <1>1, <1>9, <2>2 DEF Owed
  <2>. QED BY <1>6, <1>7, <2>3
<1>. QED BY <1>8, <1>9

\* a request is refused and changes nothing, or served
LEMMA MallocCases ==
  ASSUME FLInv, NEW n \in Requests, Malloc(n)
  PROVE  \/ UNCHANGED flvars
         \/ /\ RoundUp(n) \in Nat /\ Owed(n) <= RoundUp(n)
            /\ Serve(RoundUp(n)) /\ FirstFit(RoundUp(n)) # 0
<1>1. RoundUp(n) \in Nat /\ Owed(n) <= RoundUp(n) BY RoundUpFacts
<1>2. UNCHANGED flvars \/ Serve(RoundUp(n)) BY DEF Malloc
<1>3. CASE Serve(RoundUp(n)) /\ FirstFit(RoundUp(n)) = 0
  BY <1>3 DEF Serve
<1>. QED BY <1>1, <1>2, <1>3

\* fl_free: the block is nobody's, and the other users' blocks stay as they are
LEMMA FreeFacts ==
  ASSUME FLInv, NEW b \in used, Free(b)
  PROVE  /\ FLInv' /\ Given' = Given /\ used' = used \ {b}
         /\ \A c \in used' : size'[c] = size[c]
         /\ Ascends(free) => Ascends(free') /\ Coalesced'
<1>1. /\ free \in Seq(Memory) /\ Distinct(free) /\ Tiles(Blocks, size, Given)
      /\ used \subseteq Memory /\ used \cap ToSet(free) = {} /\ added \in 0 .. Len(Regions)
      /\ Given \subseteq Memory /\ b \in Memory /\ b \notin ToSet(free)
  BY GivenWithin DEF FLInv
<1>2. used' = used \ {b} /\ added' = added BY DEF Free
<1>3. Given' = Given BY <1>2 DEF Given
<1>4. PICK list : list = Insert(free, b) OBVIOUS
<1>5. /\ list \in Seq(Memory) /\ Distinct(list) /\ ToSet(list) = ToSet(free) \cup {b}
      /\ Ascends(free) => Ascends(list)
  BY <1>1, <1>4, InsertSet
<1>6. used' \cap ToSet(list) = {} /\ used' \cup ToSet(list) = Blocks
  BY <1>1, <1>2, <1>5 DEF Blocks
<1>7. PICK l, t : Defragged(l, t, list, size) /\ free' = l /\ size' = t
  BY <1>4 DEF Free, Defragged
<1>8. /\ l \in Seq(Memory) /\ Distinct(l) /\ ToSet(l) \cap used' = {}
      /\ Tiles(used' \cup ToSet(l), t, Given)
      /\ \A c \in used' : t[c] = size[c]
      /\ Ascends(list) => Ascends(l) /\ \A x, y \in ToSet(l) : End(x, t) # y
  <2>1. PICK keep : keep = used' OBVIOUS
  <2>2. keep \cap ToSet(list) = {} /\ Tiles(keep \cup ToSet(list), size, Given)
    BY <1>1, <1>6, <2>1
  <2>3. PassOK(l, t, Len(list) + 1, list, keep, size, Given)
    BY <1>1, <1>5, <1>7, <2>2, DefragOK
  <2>4. /\ l \in Seq(Memory) /\ Distinct(l) /\ ToSet(l) \cap keep = {}
        /\ Tiles(keep \cup ToSet(l), t, Given) /\ \A c \in keep : t[c] = size[c]
        /\ Ascends(list) => Ascends(l) /\ \A x, y \in ToSet(l) : End(x, t) # y
    <3>1. list \in Seq(Memory) BY <1>5
    <3>2. PassEnds(l, t, list, keep, size, Given) BY <3>1, <2>3, PassDone
    <3>. QED BY <3>2 DEF PassEnds
  <2>. QED BY <2>1, <2>4
<1>9. free' = l /\ size' = t BY <1>7
<1>10. Blocks' = used' \cup ToSet(free') BY DEF Blocks
<1>11. FLInv'
  <2>1. used' \subseteq Memory /\ used' \cap ToSet(free') = {} BY <1>1, <1>2, <1>8, <1>9
  <2>2. Tiles(Blocks', size', Given') BY <1>3, <1>8, <1>9, <1>10
  <2>. QED BY <1>1, <1>2, <1>8, <1>9, <2>1, <2>2 DEF FLInv
<1>12. Ascends(free) => Ascends(free') /\ Coalesced'
  BY <1>5, <1>8, <1>9 DEF Coalesced
<1>. QED BY <1>2, <1>3, <1>8, <1>9, <1>11, <1>12

LEMMA FLInitInv == FLInit => FLInv
<1> SUFFICES ASSUME FLInit PROVE FLInv OBVIOUS
<1>1. /\ free = <<>> /\ size = [w \in Memory |-> 0] /\ used = {} /\ added = 0
  BY DEF FLInit
<1>2. free \in Seq(Memory) /\ ToSet(free) = {} /\ Distinct(free)
  BY <1>1, EmptySeq DEF ToSet, Distinct
<1>3. Blocks = {} /\ Given = {} /\ added \in 0 .. Len(Regions)
  BY <1>1, <1>2, RegionFacts DEF Blocks, Given
<1>4. size \in [Memory -> 0 .. Cardinality(Memory)] BY <1>1, MemoryFinite
<1>5. Tiles(Blocks, size, Given) BY <1>3, <1>4 DEF Tiles
<1>. QED BY <1>1, <1>2, <1>3, <1>5 DEF FLInv

LEMMA FLNextInv == FLInv /\ [FLNext]_flvars => FLInv'
<1> SUFFICES ASSUME FLInv, [FLNext]_flvars PROVE FLInv' OBVIOUS
<1>1. CASE AddBlock
  <2>1. PICK r : r = Regions[added + 1] OBVIOUS
  <2>. QED BY <1>1, <2>1, AddBlockFacts
<1>2. ASSUME NEW n \in Requests, Malloc(n) PROVE FLInv'
  <2>1. PICK units : units = RoundUp(n) OBVIOUS
  <2>2. CASE units \in Nat /\ Serve(units) /\ FirstFit(units) # 0
    <3>1. PICK b : b = free[FirstFit(units)] OBVIOUS
    <3>. QED BY <2>2, <3>1, ServeFacts
  <2>3. CASE UNCHANGED flvars BY <2>3 DEF flvars, FLInv, Blocks, Given
  <2>. QED BY <1>2, <2>1, <2>2, <2>3, MallocCases
<1>3. ASSUME NEW b \in used, Free(b) PROVE FLInv' BY <1>3, FreeFacts
<1>4. CASE UNCHANGED flvars BY <1>4 DEF flvars, FLInv, Blocks, Given
<1>. QED BY <1>1, <1>2, <1>3, <1>4 DEF FLNext
-----------------------------------------------------------------------------
(* What follows for every reachable state and step.                        *)

\* The inductive invariant holds in every reachable state.
LEMMA FLInvariance == FLSpec => []FLInv
<1>. QED BY FLInitInv, FLNextInv, PTL DEF FLSpec

\* a list without repetition holds as many as it is long
LEMMA ListCounts ==
  ASSUME NEW S, NEW s \in Seq(S), Distinct(s)
  PROVE  IsFiniteSet(ToSet(s)) /\ Cardinality(ToSet(s)) = Len(s)
<1>1. Len(s) \in Nat /\ DOMAIN s = 1 .. Len(s) /\ s \in [1 .. Len(s) -> S] BY LenProperties
<1>2. \A x : x \in ToSet(s) <=> \E j \in 1 .. Len(s) : s[j] = x BY InSet
<1>3. s \in Bijection(1 .. Len(s), ToSet(s))
  <2>1. s \in [1 .. Len(s) -> ToSet(s)] BY <1>1, <1>2
  <2>2. s \in Injection(1 .. Len(s), ToSet(s)) BY <2>1 DEF Injection, IsInjective, Distinct
  <2>3. s \in Surjection(1 .. Len(s), ToSet(s)) BY <1>2, <2>1 DEF Surjection
  <2>. QED BY <2>2, <2>3 DEF Bijection
<1>4. IsFiniteSet(1 .. Len(s)) /\ Cardinality(1 .. Len(s)) = Len(s)
  <2>1. 1 \in Int /\ Len(s) \in Int BY <1>1
  <2>2. Cardinality(1 .. Len(s)) = IF 1 > Len(s) THEN 0 ELSE Len(s) - 1 + 1
    BY <2>1, FS_Interval
  <2>3. IsFiniteSet(1 .. Len(s)) BY <2>1, FS_Interval
  <2>4. Cardinality(1 .. Len(s)) = Len(s) BY <1>1, <2>2
  <2>. QED BY <2>3, <2>4
<1>5. ExistsBijection(1 .. Len(s), ToSet(s)) BY <1>3 DEF ExistsBijection
<1>. QED BY <1>3, <1>4, <1>5, FS_Bijection

LEMMA FLInvTiled == FLInv => Tiled
<1> SUFFICES ASSUME FLInv PROVE Tiled OBVIOUS
<1>1. /\ free \in Seq(Memory) /\ Distinct(free) /\ Tiles(Blocks, size, Given)
      /\ used \subseteq Memory /\ used \cap ToSet(free) = {} /\ added \in 0 .. Len(Regions)
      /\ Given \subseteq Memory /\ Memory \subseteq Nat
  BY GivenWithin, RegionFacts DEF FLInv
<1>2. FLTypeOK BY <1>1 DEF FLTypeOK, Tiles
<1>3. Cardinality(Blocks) = Cardinality(used) + Len(free)
  <2>1. IsFiniteSet(used) BY <1>1, MemoryFinite, FS_Subset
  <2>2. IsFiniteSet(ToSet(free)) /\ Cardinality(ToSet(free)) = Len(free)
    BY <1>1, ListCounts
  <2>3. Cardinality(used \cup ToSet(free)) =
          Cardinality(used) + Cardinality(ToSet(free)) - Cardinality(used \cap ToSet(free))
    BY <2>1, <2>2, FS_Union
  <2>4. Cardinality(used \cap ToSet(free)) = 0 BY <1>1, FS_EmptySet
  <2>5. Cardinality(used) \in Nat /\ Cardinality(ToSet(free)) \in Nat
    BY <2>1, <2>2, FS_CardinalityType
  <2>. QED BY <2>2, <2>3, <2>4, <2>5 DEF Blocks
<1>4. ASSUME NEW b \in Blocks, NEW w PROVE w \in b .. End(b, size) - 1 <=> w \in Nat /\ Covers(b, w, size)
  <2>1. b \in Nat /\ End(b, size) \in Nat BY <1>1, BlockFacts
  <2>. QED BY <2>1 DEF Covers
<1>5. ASSUME NEW b \in Blocks PROVE b .. End(b, size) - 1 \subseteq Given
  BY <1>1, <1>4 DEF Tiles
<1>6. ASSUME NEW w \in Given
      PROVE  Cardinality({b \in Blocks : w \in b .. End(b, size) - 1}) = 1
  <2>1. w \in Nat BY <1>1
  <2>2. PICK c \in Blocks : Covers(c, w, size) BY <1>1 DEF Tiles
  <2>3. \A b \in Blocks : Covers(b, w, size) => b = c BY <1>1, <2>1, <2>2 DEF Tiles
  <2>4. {b \in Blocks : w \in b .. End(b, size) - 1} = {c} BY <1>4, <2>1, <2>2, <2>3
  <2>. QED BY <2>4, FS_Singleton
<1>. QED BY <1>2, <1>3, <1>5, <1>6 DEF Tiled

\* The blocks, free or in use, always tile the memory that was given: every word
\* of it belongs to exactly one block, nothing is lost, nothing listed twice,
\* whatever fl_malloc splits and fl_free merges.
THEOREM MemoryTiled == FLSpec => []Tiled
<1>. QED BY FLInvariance, FLInvTiled, PTL
-----------------------------------------------------------------------------
(* The free list is an allocator.                                          *)

Record(b) == [at |-> b + Header, len |-> size[b]]

LEMMA HandedAll == Handed = {Record(b) : b \in used} BY DEF Handed, Record

LEMMA GiveStep == FLInv /\ AddBlock => HeapNext
<1> SUFFICES ASSUME FLInv, AddBlock PROVE HeapNext OBVIOUS
<1>1. PICK r : r = Regions[added + 1] OBVIOUS
<1>2. /\ Given' = Given \cup Words(r) /\ Words(r) \cap Given = {} /\ r \in ToSet(Regions)
      /\ \A b \in used : size'[b] = size[b]
  BY <1>1, AddBlockFacts
<1>3. used' = used BY DEF AddBlock
<1>4. Handed' = Handed
  <2>1. Handed' = {[at |-> b + Header, len |-> size'[b]] : b \in used} BY <1>3 DEF Handed
  <2>. QED BY <1>2, <2>1 DEF Handed
<1>5. Heap!Give(Words(r)) BY <1>2, <1>4 DEF Heap!Give
<1>. QED BY <1>2, <1>5 DEF HeapNext

\* a request that is answered with a block is answered as an allocator would
LEMMA AnswerStep ==
  ASSUME FLInv, NEW n \in Requests, Malloc(n), used' # used
  PROVE  \E b \in Handed' : Heap!Malloc(Owed(n), b)
<1>1. PICK units : units = RoundUp(n) OBVIOUS
<1>2. /\ units \in Nat /\ Owed(n) \in Nat /\ Owed(n) <= units
      /\ Serve(units) /\ FirstFit(units) # 0
  BY <1>1, MallocCases, RoundUpFacts DEF flvars
<1>3. PICK b : b = free[FirstFit(units)] OBVIOUS
<1>4. /\ FLInv' /\ Given' = Given /\ b \notin used /\ used' = used \cup {b} /\ size'[b] >= units
      /\ \A c \in used : size'[c] = size[c]
  BY <1>2, <1>3, ServeFacts
<1>5. PICK rec : rec = [at |-> b + Header, len |-> size'[b]] OBVIOUS
<1>6. Handed' = Handed \cup {rec}
  <2>1. Handed' = {[at |-> c + Header, len |-> size'[c]] : c \in used \cup {b}} BY <1>4 DEF Handed
  <2>2. \A c \in used : [at |-> c + Header, len |-> size'[c]] = [at |-> c + Header, len |-> size[c]]
    BY <1>4
  <2>. QED BY <1>5, <2>1, <2>2 DEF Handed
<1>7. Tiles(Blocks', size', Given) /\ b \in Blocks' /\ used \subseteq Blocks'
  BY <1>4 DEF FLInv, Blocks
<1>8. Header \in Nat /\ Header > 0 BY SizesAssumption
<1>9. ASSUME NEW c \in Blocks', NEW w, w \in c + Header .. c + Header + size'[c] - 1
      PROVE  w \in Nat /\ Covers(c, w, size')
  <2>1. c \in Nat /\ size'[c] \in Nat BY <1>7, BlockFacts
  <2>. QED BY <1>8, <1>9, <2>1 DEF Covers, End
<1>10. Heap!Extent(rec) \subseteq Given
  <2>1. Heap!Extent(rec) = b + Header .. b + Header + size'[b] - 1 BY <1>5 DEF Heap!Extent
  <2>. QED BY <1>7, <1>9, <2>1 DEF Tiles
<1>11. ASSUME NEW d \in Handed PROVE Heap!Extent(rec) \cap Heap!Extent(d) = {}
  <2>1. PICK c \in used : d = [at |-> c + Header, len |-> size[c]] BY DEF Handed
  <2>2. /\ Heap!Extent(rec) = b + Header .. b + Header + size'[b] - 1
        /\ Heap!Extent(d) = c + Header .. c + Header + size'[c] - 1
    BY <1>4, <1>5, <2>1 DEF Heap!Extent
  <2>3. b # c /\ c \in Blocks' BY <1>4, <1>7
  <2>. QED BY <1>7, <1>9, <2>2, <2>3 DEF Tiles
<1>12. rec.len >= Owed(n)
  <2>1. rec.len = size'[b] /\ size'[b] \in Nat BY <1>5, <1>7, BlockFacts
  <2>. QED BY <1>2, <1>4, <2>1
<1>13. Heap!Malloc(Owed(n), rec) BY <1>4, <1>6, <1>10, <1>11, <1>12 DEF Heap!Malloc
<1>. QED BY <1>6, <1>13

LEMMA MallocStep ==
  FLInv /\ (\E n \in Requests : Malloc(n)) => HeapNext \/ UNCHANGED Heap!vars
<1> SUFFICES ASSUME FLInv, NEW n \in Requests, Malloc(n) PROVE HeapNext \/ UNCHANGED Heap!vars
  OBVIOUS
<1>1. CASE used' # used
  <2>1. Answered # {} /\ \A x \in Answered : \E b \in Handed' : Heap!Malloc(Owed(x), b)
    BY <1>1, AnswerStep DEF Answered
  <2>. QED BY <2>1 DEF HeapNext
<1>2. CASE used' = used
  <2>1. UNCHANGED flvars
    <3>1. PICK units : units = RoundUp(n) OBVIOUS
    <3>2. CASE units \in Nat /\ Serve(units) /\ FirstFit(units) # 0
      <4>1. PICK b : b = free[FirstFit(units)] OBVIOUS
      <4>2. b \notin used /\ used' = used \cup {b} BY <3>2, <4>1, ServeFacts
      <4>. QED BY <1>2, <4>2
    <3>. QED BY <3>1, <3>2, MallocCases
  <2>. QED BY <2>1 DEF flvars, Heap!vars, Given, Handed
<1>. QED BY <1>1, <1>2

LEMMA FreeStep == FLInv /\ (\E b \in used : Free(b)) => HeapNext
<1> SUFFICES ASSUME FLInv, NEW b \in used, Free(b) PROVE HeapNext OBVIOUS
<1>1. /\ Given' = Given /\ used' = used \ {b} /\ \A c \in used' : size'[c] = size[c]
  BY FreeFacts
<1>2. used \subseteq Nat /\ Header \in Nat BY RegionFacts, SizesAssumption DEF FLInv
<1>3. PICK rec : rec = [at |-> b + Header, len |-> size[b]] OBVIOUS
<1>4. rec \in Handed BY <1>3 DEF Handed
<1>5. Handed' = Handed \ {rec}
  <2>1. Handed' = {[at |-> c + Header, len |-> size[c]] : c \in used \ {b}}
    <3>1. Handed' = {[at |-> c + Header, len |-> size'[c]] : c \in used'} BY DEF Handed
    <3>. QED BY <1>1, <3>1
  <2>2. \A c \in used \ {b} : [at |-> c + Header, len |-> size[c]] # rec
    <3> TAKE c \in used \ {b}
    <3>1. c + Header # b + Header BY <1>2
    <3>. QED BY <1>3, <3>1
  <2>. QED BY <1>3, <2>1, <2>2 DEF Handed
<1>6. Heap!Free(rec) BY <1>1, <1>4, <1>5 DEF Heap!Free
<1>. QED BY <1>4, <1>6 DEF HeapNext

\* The free list implements an allocator, whatever is asked for: memory is handed
\* out once, at the length that was asked for at least, unless rounding the size
\* overflows, and stays with its owner, unmoved and unshortened, while other
\* blocks are split, freed and merged.
THEOREM FreeListIsAllocator == FLSpec => ImplementsAllocator
<1>1. FLInit => Heap!Init
  <2> SUFFICES ASSUME FLInit PROVE Heap!Init OBVIOUS
  <2>1. used = {} /\ added = 0 BY DEF FLInit
  <2>. QED BY <2>1 DEF Heap!Init, Given, Handed
<1>2. FLInv /\ [FLNext]_flvars => [HeapNext]_(Heap!vars)
  <2> SUFFICES ASSUME FLInv, [FLNext]_flvars PROVE [HeapNext]_(Heap!vars) OBVIOUS
  <2>1. CASE UNCHANGED flvars BY <2>1 DEF flvars, Heap!vars, Given, Handed
  <2>. QED BY <2>1, GiveStep, MallocStep, FreeStep DEF FLNext
<1>. QED BY <1>1, <1>2, FLInvariance, PTL DEF FLSpec, ImplementsAllocator
-----------------------------------------------------------------------------
(* Of regions that are given from the highest down the list is in order.   *)

LEMMA KeepsOrder ==
  ASSUME GivenDownwards, FLInv, Ascends(free), [FLNext]_flvars
  PROVE  Ascends(free') /\ (used' # used /\ used' \subseteq used => Coalesced')
<1>1. CASE AddBlock
  <2>1. PICK r : r = Regions[added + 1] OBVIOUS
  <2>2. /\ PutAt(free', free, 1, r.at) /\ r.at \in Memory
    BY <1>1, <2>1, AddBlockFacts
  <2>3. /\ free \in Seq(Memory) /\ Memory \subseteq Nat /\ Len(free) \in Nat
        /\ added \in 0 .. Len(Regions) /\ added < Len(Regions) /\ used' = used
        /\ Tiles(Blocks, size, Given)
    BY <1>1, RegionFacts, LenProperties DEF FLInv, AddBlock
  <2>4. \A w \in Given : r.at < w
    <3> TAKE w \in Given
    <3>1. PICK m \in 1 .. added : w \in Words(Regions[m]) BY DEF Given
    <3>2. m \in DOMAIN Regions /\ added + 1 \in DOMAIN Regions /\ m < added + 1
      BY <2>3, RegionFacts
    <3>3. r.at < Regions[m].at BY <2>1, <3>2 DEF GivenDownwards
    <3>4. Regions[m].at \in Nat /\ Regions[m].len \in Nat /\ r.at \in Nat
      BY <2>1, <3>2, RegionFacts
    <3>. QED BY <3>1, <3>3, <3>4 DEF Words
  <2>5. \A j \in 1 .. Len(free) : r.at < free[j]
    <3> TAKE j \in 1 .. Len(free)
    <3>1. free[j] \in Blocks BY <2>3, InSet DEF Blocks
    <3>2. free[j] \in Given BY <2>3, <3>1, BlockFacts DEF Tiles
    <3>. QED BY <2>4, <3>2
  <2>6. PICK e, m : e = r.at /\ m = 1 OBVIOUS
  <2>7. /\ \A j \in 1 .. m - 1 : free[j] < e
        /\ \A j \in m .. Len(free) : e < free[j]
    BY <2>5, <2>6
  <2>8. e \in Memory /\ PutAt(free', free, m, e) BY <2>2, <2>6
  <2>. QED BY <2>3, <2>7, <2>8, SplicedAscends
<1>2. ASSUME NEW n \in Requests, Malloc(n)
      PROVE  Ascends(free') /\ (used' # used /\ used' \subseteq used => Coalesced')
  <2>1. PICK units : units = RoundUp(n) OBVIOUS
  <2>2. CASE units \in Nat /\ Serve(units) /\ FirstFit(units) # 0
    <3>1. PICK b : b = free[FirstFit(units)] OBVIOUS
    <3>2. Ascends(free') /\ b \notin used /\ used' = used \cup {b}
      BY <2>2, <3>1, ServeFacts
    <3>. QED BY <3>2
  <2>3. CASE UNCHANGED flvars BY <2>3 DEF flvars
  <2>. QED BY <1>2, <2>1, <2>2, <2>3, MallocCases
<1>3. ASSUME NEW b \in used, Free(b) PROVE Ascends(free') /\ Coalesced' BY <1>3, FreeFacts
<1>4. CASE UNCHANGED flvars BY <1>4 DEF flvars
<1>. QED BY <1>1, <1>2, <1>3, <1>4 DEF FLNext

\* Where malloc_addblock is called for higher memory first, every fl_free leaves
\* no two free blocks that could be one.
THEOREM FreeMerges == ASSUME GivenDownwards PROVE FLSpec => FreeCoalesces
<1>1. FLInit => Ascends(free) BY DEF FLInit, Ascends
<1>2. FLInv /\ Ascends(free) /\ [FLNext]_flvars => Ascends(free)' BY KeepsOrder
<1>3. FLInv /\ Ascends(free) /\ [FLNext]_flvars => [used' # used /\ used' \subseteq used => Coalesced']_flvars
  BY KeepsOrder
<1>. QED BY <1>1, <1>2, <1>3, FLInvariance, PTL DEF FLSpec, FreeCoalesces
=============================================================================

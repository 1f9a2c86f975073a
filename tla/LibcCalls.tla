----------------------------- MODULE LibcCalls -----------------------------
(***************************************************************************)
(* Calls of qsort and bsearch (LibcSort) and of memcpy, memset, calloc and *)
(* aligned_malloc (LibcMemory), and what they are for, said without the    *)
(* algorithms.  One step makes one call; result is what the code computes  *)
(* for it.                                                                 *)
(***************************************************************************)
EXTENDS LibcSort, LibcMemory, FiniteSets, SequencesExt

CONSTANTS Inputs,      \* the arrays
          Keys,        \* what is searched for
          Depths,      \* depth limits of quicksort besides the code's own
          Top,         \* the highest address
          Contents,    \* what the memory may hold
          Bytes,       \* what memset is given
          Pointers,    \* what malloc may return, besides NULL
          Alignments   \* what aligned_malloc is asked for

ASSUME ArraysAssumption == Inputs \subseteq Seq(Int) /\ Keys \subseteq Int /\ Depths \subseteq Int
ASSUME MemoryAssumption == Top \in Nat /\ Contents \subseteq [0 .. Top -> Int] /\ Bytes \subseteq Int
\* aligned_malloc asserts that the alignment is 0 or a power of two
ASSUME PointersAssumption ==
  /\ Pointers \subseteq 1 .. SizeMax /\ Alignments \subseteq 0 .. SizeMax
  /\ \A a \in Alignments : a = 0 \/ \E e \in 0 .. a : a = 2 ^ e

VARIABLES call, result
callvars == <<call, result>>

CallsInit == call = [fn |-> "none"] /\ result = 0

Ordered(s) == \A i \in 2 .. Len(s) : s[i - 1] <= s[i]

Sorting ==
  \E s \in Inputs, memory \in BOOLEAN :
    /\ call' = [fn |-> "qsort", s |-> s, memory |-> memory]
    /\ \/ result' = QSort(s, memory)
       \/ \E depth \in Depths : result' = QSortTo(memory)[depth][s]

\* bsearch asks for an array that is in order
Searching ==
  \E s \in {t \in Inputs : Ordered(t)}, key \in Keys :
    /\ call' = [fn |-> "bsearch", key |-> key, s |-> s]
    /\ result' = BSearch(key, s)

\* every range of n bytes from a on within the memory
Within(a, n) == a + n <= Top + 1

Moving ==
  \E m \in Contents, dst \in 0 .. Top, n \in 0 .. Top + 1 :
    /\ Within(dst, n)
    /\ \/ \E src \in 0 .. Top :
            /\ Within(src, n)
            /\ call' = [fn |-> "memcpy", m |-> m, dst |-> dst, src |-> src, n |-> n]
            /\ result' = MemCpy(m, dst, src, n)
       \/ \E c \in Bytes : /\ call' = [fn |-> "memset", m |-> m, dst |-> dst, c |-> c, n |-> n]
                           /\ result' = MemSet(m, dst, c, n)

\* p is malloc's answer: NULL, or a block of the bytes it is asked for
Allocating ==
  \/ \E num, size \in 0 .. SizeMax : /\ call' = [fn |-> "calloc", num |-> num, size |-> size]
                                     /\ result' = CallocRefuses(num, size)
  \/ \E p \in Pointers \cup {0}, align \in Alignments, size \in 0 .. SizeMax :
       /\ p = 0 \/ p + Requested(align, size) <= SizeMax + 1
       /\ call' = [fn |-> "aligned_malloc", p |-> p, align |-> align, size |-> size]
       /\ result' = AlignedMalloc(p, align, size)

CallsNext == call.fn = "none" /\ (Sorting \/ Searching \/ Moving \/ Allocating)
CallsSpec == CallsInit /\ [][CallsNext]_callvars

-----------------------------------------------------------------------------
Count(s, v) == Cardinality({i \in DOMAIN s : s[i] = v})

(***************************************************************************)
(* qsort.c:119, heapsort.c:142.  Whatever the depth limit at which quick-  *)
(* sort hands over to heapsort, qsort leaves a permutation of what it was  *)
(* given, and an ordered one unless heapsort found no memory (qsort cannot *)
(* report that, and does not).  bsearch.c:51 finds an element equal to the *)
(* key exactly when there is one.                                          *)
(***************************************************************************)
SortsAndSearches ==
  /\ call.fn = "qsort" =>
       /\ \A v \in ToSet(call.s) \cup ToSet(result) : Count(result, v) = Count(call.s, v)
       /\ call.memory => Ordered(result)
  /\ call.fn = "bsearch" => IF result = 0 THEN call.key \notin ToSet(call.s)
                            ELSE result \in DOMAIN call.s /\ call.s[result] = call.key

\* the first word memcpy loads and stores, if it gets to one, is aligned at both ends
WordsAligned(dst, src, n) ==
  LET t == IF dst < src THEN Upwards(dst, src, n) ELSE Downwards(dst + n, src + n, n)
      d == IF dst < src THEN dst + t ELSE dst + n - t
      s == IF dst < src THEN src + t ELSE src + n - t
  IN  n - t >= W => Aligned(d) /\ Aligned(s)

(***************************************************************************)
(* memcpy.c:57 also serves as memmove: for every overlap and alignment of  *)
(* the two ranges the destination gets what the source held before, and    *)
(* no other byte changes; it copies by words only where these are aligned. *)
(* memset.c:7 fills its range, although it stores some bytes twice, and    *)
(* nothing else.                                                           *)
(***************************************************************************)
Moves ==
  /\ call.fn = "memcpy" => /\ result = Copy(call.m, call.dst, call.src, call.n)
                           /\ WordsAligned(call.dst, call.src, call.n)
  /\ call.fn = "memset" =>
       result = [x \in DOMAIN call.m |-> IF x \in call.dst .. call.dst + call.n - 1 THEN call.c
                                         ELSE call.m[x]]

\* neither the header nor the sum that aligned_malloc asks malloc for overflows
RoomFits(align, size) ==
  LET header == PtrOffsetSz + (align - 1) IN header < HeaderMod /\ size + header <= SizeMax

(***************************************************************************)
(* calloc.c:14 refuses exactly the products that do not fit a size_t.      *)
(* malloc_aligned.c:43, :81: aligned_malloc gives NULL if it is asked for  *)
(* nothing or malloc fails.  Else, unless the size overflows with what is  *)
(* added to it, the pointer is aligned, the header before it and the size  *)
(* bytes behind it lie in the block malloc gave, and free gets that block  *)
(* back, for every alignment up to half the range of offset_t; the next    *)
(* power of two would no longer fit.                                       *)
(***************************************************************************)
Allocates ==
  /\ call.fn = "calloc" => (result <=> call.num * call.size > SizeMax)
  /\ call.fn = "aligned_malloc" =>
       IF call.align = 0 \/ call.size = 0 \/ call.p = 0 THEN result = Null
       ELSE RoomFits(call.align, call.size) =>
              /\ result.ptr % call.align = 0
              /\ call.p + PtrOffsetSz <= result.ptr
              /\ result.ptr + call.size <= call.p + Requested(call.align, call.size)
              /\ 2 * call.align <= OffsetMod => AlignedFree(result) = call.p

(***************************************************************************)
(* What the functions on raw memory promise, for every alignment, overlap  *)
(* and length: memcpy and memset, calloc and aligned_malloc.               *)
(***************************************************************************)
Memories == Moves /\ Allocates
=============================================================================

----------------------------- MODULE LibcMemory -----------------------------
(***************************************************************************)
(* The memory functions of examples/libc: memcpy (which memmove and the    *)
(* string copies call), memset, calloc's overflow test and aligned_malloc. *)
(* Memory is a function from addresses to bytes; a word is W bytes and is  *)
(* loaded and stored at once.  A loop is a function from the values of its *)
(* variables to those after one pass (see Loops).                          *)
(***************************************************************************)
EXTENDS Integers, Loops

CONSTANTS W,              \* bytes in an int
          MulNoOverflow,  \* 2 to half the bits of a size_t
          HeaderMod,      \* 2 to the bits of aligned_malloc's hdr_size, a uint32_t
          OffsetMod       \* 2 to the bits of its offset_t
ASSUME WidthsAssumption == /\ W \in {1, 2, 4} /\ MulNoOverflow \in Nat \ {0}
                           /\ HeaderMod \in Nat \ {0}
                           /\ OffsetMod \in Nat /\ OffsetMod >= 4

Copy(m, d, s, k) == [x \in DOMAIN m |-> IF x \in d .. d + k - 1 THEN m[s + (x - d)] ELSE m[x]]

(***************************************************************************)
(* memcpy's loops copy k bytes in one pass, upwards or downwards from      *)
(* where the pointers are.                                                 *)
(***************************************************************************)
Transfers(m) == [m : [DOMAIN m -> Int], dst : Int, src : Int]

Up(m, k) ==
  [q \in Transfers(m) |->
     [m |-> Copy(q.m, q.dst, q.src, k), dst |-> q.dst + k, src |-> q.src + k]]

Down(m, k) ==
  [q \in Transfers(m) |->
     [m |-> Copy(q.m, q.dst - k, q.src - k, k), dst |-> q.dst - k, src |-> q.src - k]]

Aligned(x) == x % W = 0

\* how many bytes go one by one before the words
Upwards(d, s, length) ==
  IF Aligned(s) /\ Aligned(d) THEN 0
  ELSE IF s % W # d % W \/ length < W THEN length
  ELSE W - (s % W)

Downwards(d, s, length) ==
  IF Aligned(s) /\ Aligned(d) THEN 0
  ELSE IF s % W # d % W \/ length <= W THEN length
  ELSE s % W

\* t bytes, as many words as fit, and the bytes left over
Transfer(byte, word, q, t, length) ==
  Iterate(byte, Iterate(word, Iterate(byte, q, t), (length - t) \div W), (length - t) % W).m

\* Mutant: copies upwards whichever way the ranges overlap.
BugMemCpy(m, dst, src, length) ==
  Transfer(Up(m, 1), Up(m, W), [m |-> m, dst |-> dst, src |-> src],
           Upwards(dst, src, length), length)

MemCpy(m, dst, src, length) ==
  IF length = 0 \/ dst = src THEN m
  ELSE IF dst < src
  THEN Transfer(Up(m, 1), Up(m, W), [m |-> m, dst |-> dst, src |-> src],
                Upwards(dst, src, length), length)
  ELSE Transfer(Down(m, 1), Down(m, W), [m |-> m, dst |-> dst + length, src |-> src + length],
                Downwards(dst + length, src + length, length), length)

(***************************************************************************)
(* memset stores the first and the last four bytes, then the uint32_t      *)
(* between the first aligned address and the last whole one before the end.*)
(***************************************************************************)
MemSet(m, dest, c, n) ==
  LET ends == IF n <= 2 THEN 1 ELSE IF n <= 6 THEN 3 ELSE 4
      k == (-dest) % 4
      words == (n - k) \div 4
      Stored(x) == \/ /\ n > 0
                      /\ \E i \in 0 .. ends - 1 : x = dest + i \/ x = dest + n - 1 - i
                   \/ n > 8 /\ x \in dest + k .. dest + k + words * 4 - 1
  IN  [x \in DOMAIN m |-> IF Stored(x) THEN c ELSE m[x]]

(***************************************************************************)
(* calloc refuses a product that does not fit a size_t, without computing  *)
(* it when both factors are below the square root of the range.            *)
(***************************************************************************)
SizeMax == MulNoOverflow * MulNoOverflow - 1
CallocRefuses(num, size) ==
  /\ num >= MulNoOverflow \/ size >= MulNoOverflow
  /\ num > 0
  /\ SizeMax \div num < size

(***************************************************************************)
(* aligned_malloc asks malloc for a block that has room for the alignment  *)
(* and keeps the way back to that block's address p in an offset_t of two  *)
(* bytes just before the pointer it returns.  NULL is 0, for p too; the    *)
(* header, the sum and the addresses wrap around at their widths.          *)
(***************************************************************************)
PtrOffsetSz == 2
HeaderSize(align) == (PtrOffsetSz + (align - 1)) % HeaderMod
Requested(align, size) == (size + HeaderSize(align)) % (SizeMax + 1)

AlignUp(num, align) == LET x == (num + (align - 1)) % (SizeMax + 1) IN x - (x % align)

Null == [ptr |-> 0, offset |-> 0]
AlignedMalloc(p, align, size) ==
  LET ptr == AlignUp(p + PtrOffsetSz, align)
  IN  IF align = 0 \/ size = 0 \/ p = 0 THEN Null
      ELSE [ptr |-> ptr, offset |-> (ptr - p) % OffsetMod]
AlignedFree(a) == a.ptr - a.offset
=============================================================================

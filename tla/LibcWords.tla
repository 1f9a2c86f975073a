----------------------------- MODULE LibcWords -----------------------------
(***************************************************************************)
(* strlen and strchrnul, which read whole words, and the string functions  *)
(* made of them and of LibcMemory.  A word is as wide as there: int and    *)
(* long have the same size, as on 32-bit targets.                          *)
(***************************************************************************)
EXTENDS LibcMemory, Sequences, FiniteSets, SequencesExt, Bitwise

CONSTANT ByteBits   \* bits in a byte
ASSUME BytesAssumption == ByteBits \in Nat \ {0}

(***************************************************************************)
(* strlen and strchrnul look at a word at a time once the address is       *)
(* aligned.  Little-endian words; Ones has the lowest bit of every byte,   *)
(* Highs the highest.                                                      *)
(***************************************************************************)
WordMod == 2 ^ (W * ByteBits)
Repeated(c) == FoldLeft(LAMBDA r, i : r * (2 ^ ByteBits) + c, 0, [i \in 1 .. W |-> i])
Ones  == Repeated(1)
Highs == Repeated(2 ^ (ByteBits - 1))
Load(m, a) == FoldLeft(LAMBDA r, i : r * (2 ^ ByteBits) + m[a + W - i], 0, [i \in 1 .. W |-> i])
Minus(x, y) == (x - y) % WordMod

HasZero(x) == ((Minus(x, Ones) & (WordMod - 1 - x)) & Highs) # 0

RECURSIVE LengthFrom(_, _, _)
LengthFrom(m, str, p) ==
  IF ~Aligned(p)
  THEN IF m[p] = 0 THEN p - str ELSE LengthFrom(m, str, p + 1)
  ELSE LET zeros == {x \in 0 .. W - 1 : m[p + x] = 0}
       IN  IF (Minus(Load(m, p), Ones) & Highs) # 0 /\ zeros # {}
           THEN p - str + (CHOOSE x \in zeros : \A y \in zeros : x <= y)
           ELSE LengthFrom(m, str, p + W)

StrLen(m, str) == LengthFrom(m, str, str)

RECURSIVE FindFrom(_, _, _)
FindFrom(m, s, c) == IF m[s] \in {0, c} THEN s ELSE FindFrom(m, s + 1, c)

RECURSIVE SkipWords(_, _, _)
SkipWords(m, w, c) ==
  IF HasZero(Load(m, w)) \/ HasZero(Load(m, w) ^^ Repeated(c)) THEN w
  ELSE SkipWords(m, w + W, c)

StrChrNul(m, s, c) ==
  LET first == s + ((-s) % W)
      early == {x \in s .. first - 1 : m[x] \in {0, c}}
  IN  IF c = 0 THEN s + StrLen(m, s)
      ELSE IF early # {} THEN CHOOSE x \in early : \A y \in early : x <= y
      ELSE FindFrom(m, SkipWords(m, first, c), c)

(***************************************************************************)
(* The string functions that are made of those.  dst and src do not        *)
(* overlap (restrict).                                                     *)
(***************************************************************************)
RECURSIVE StrNLen(_, _, _)
StrNLen(m, s, max) == IF max = 0 \/ m[s] = 0 THEN 0 ELSE 1 + StrNLen(m, s + 1, max - 1)

StrCpy(m, dst, src) == MemCpy(m, dst, src, StrLen(m, src) + 1)
StrCat(m, dst, src) == MemCpy(m, dst + StrLen(m, dst), src, StrLen(m, src) + 1)

StrNCpy(m, dst, src, max) ==
  LET n == StrNLen(m, src, max)
  IN  IF n < max THEN MemSet(MemCpy(m, dst, src, n), dst + n, 0, max - n)
      ELSE MemCpy(m, dst, src, max)

Lesser(a, b) == IF a < b THEN a ELSE b

StrNCat(m, dst, src, max) ==
  LET end == StrLen(m, dst)
      n   == Lesser(StrNLen(m, src, max), max)
  IN  [MemCpy(m, dst + end, src, n) EXCEPT ![dst + end + n] = 0]

RECURSIVE MemRChr(_, _, _, _)
MemRChr(m, s, c, n) ==
  IF n = 0 THEN -1 ELSE IF m[s + n - 1] = c THEN s + n - 1 ELSE MemRChr(m, s, c, n - 1)
StrRChr(m, s, c) == MemRChr(m, s, c, StrLen(m, s) + 1)

(***************************************************************************)
(* Comparing.  memcmp takes bytes as they are, strcmp and strncmp as plain *)
(* char, which is signed on the hosts the project builds for.              *)
(***************************************************************************)
PlainChar(b) == IF b < 2 ^ (ByteBits - 1) THEN b ELSE b - 2 ^ ByteBits

RECURSIVE MemCmp(_, _, _, _)
MemCmp(m, p, q, n) ==
  IF p = q \/ n = 0 THEN 0
  ELSE IF m[p] = m[q] THEN MemCmp(m, p + 1, q + 1, n - 1) ELSE m[p] - m[q]

RECURSIVE StrNCmp(_, _, _, _)
StrNCmp(m, p, q, n) ==
  IF p = q \/ n = 0 THEN 0
  ELSE IF m[p] # m[q] THEN PlainChar(m[p]) - PlainChar(m[q])
  ELSE IF m[p] = 0 THEN 0 ELSE StrNCmp(m, p + 1, q + 1, n - 1)

\* strcmp is the same loop without a count: no string is longer than the memory
StrCmp(m, p, q) == StrNCmp(m, p, q, Cardinality(DOMAIN m))
=============================================================================

----------------------------- MODULE LibcStrings -----------------------------
(***************************************************************************)
(* The string functions of examples/libc that compute something: strtol,   *)
(* strtoul, strtoll, strtoull; strstr, strnstr, memmem; strtok.  A string  *)
(* is a sequence of characters without its NUL: At gives the NUL after the *)
(* last one.  Positions count from 1, 0 is NULL.                           *)
(***************************************************************************)
EXTENDS Integers, Sequences, SequencesExt

CONSTANT LongBits        \* bits of long and of long long
ASSUME LongBitsAssumption == LongBits \in Nat \ {0}

NUL == "NUL"
At(s, i) == IF i <= Len(s) THEN s[i] ELSE NUL

Digits == <<"0", "1", "2", "3", "4", "5", "6", "7", "8", "9">>
Lower  == <<"a", "b", "c", "d", "e", "f", "g", "x", "z">>
Upper  == <<"A", "B", "C", "D", "E", "F", "G", "X", "Z">>
LetterValue == <<10, 11, 12, 13, 14, 15, 16, 33, 35>>

\* the value of a character as a digit, or 99 for one that is none
Value(c) ==
  IF Contains(Digits, c) THEN (CHOOSE i \in DOMAIN Digits : Digits[i] = c) - 1
  ELSE IF \E i \in DOMAIN Lower : c \in {Lower[i], Upper[i]}
  THEN LetterValue[CHOOSE i \in DOMAIN Lower : c \in {Lower[i], Upper[i]}]
  ELSE 99

(***************************************************************************)
(* White space, a sign and a prefix: where the digits start and the base   *)
(* they are in.  binary: whether "0b" is a prefix too, which only strtol   *)
(* and strtoul know.                                                       *)
(***************************************************************************)
RECURSIVE SkipSpace(_, _)
SkipSpace(s, i) == IF At(s, i) = " " THEN SkipSpace(s, i + 1) ELSE i

Prefix(s, base, binary) ==
  LET i   == SkipSpace(s, 1)
      neg == At(s, i) = "-"
      j   == IF At(s, i) \in {"-", "+"} THEN i + 1 ELSE i
      Marked(bases, letters) == base \in bases /\ At(s, j) = "0" /\ At(s, j + 1) \in letters
  IN  IF Marked({0, 16}, {"x", "X"}) THEN [neg |-> neg, at |-> j + 2, base |-> 16]
      ELSE IF binary /\ Marked({0, 2}, {"b", "B"}) THEN [neg |-> neg, at |-> j + 2, base |-> 2]
      ELSE [neg |-> neg, at |-> j,
            base |-> IF base # 0 THEN base ELSE IF At(s, j) = "0" THEN 8 ELSE 10]

LongMax  == 2 ^ (LongBits - 1) - 1
LongMin  == -(2 ^ (LongBits - 1))
ULongMax == 2 ^ LongBits - 1

(***************************************************************************)
(* The digits, as long as they last.  A digit that would take acc over the *)
(* limit (cutoff is the limit divided by the base, cutlim the rest) makes  *)
(* any negative, and the digits after it are only passed over.  sign is -1 *)
(* where strtoll accumulates downwards.                                    *)
(***************************************************************************)
\* Mutant: the last digit is not looked at.
BugExceeds(acc, c, cutoff, cutlim, sign) == sign * acc > sign * cutoff

Exceeds(acc, c, cutoff, cutlim, sign) ==
  sign * acc > sign * cutoff \/ (acc = cutoff /\ c > cutlim)

RECURSIVE Accumulate(_, _, _, _, _, _)
Accumulate(s, r, base, cutoff, cutlim, sign) ==
  LET c == Value(At(s, r.at))
  IN  IF c >= base THEN r
      ELSE Accumulate(s, [at  |-> r.at + 1,
                          any |-> IF r.any < 0 \/ Exceeds(r.acc, c, cutoff, cutlim, sign)
                                  THEN -1 ELSE 1,
                          acc |-> IF r.any < 0 \/ Exceeds(r.acc, c, cutoff, cutlim, sign)
                                  THEN r.acc ELSE r.acc * base + sign * c],
                      base, cutoff, cutlim, sign)

Begin(p) == [at |-> p.at, any |-> 0, acc |-> 0]
End(r) == IF r.any = 0 THEN 1 ELSE r.at

StrToL(s, base) ==
  LET p == Prefix(s, base, TRUE)
      limit == IF p.neg THEN -LongMin ELSE LongMax
      r == Accumulate(s, Begin(p), p.base, limit \div p.base, limit % p.base, 1)
  IN  [value |-> IF r.any < 0 THEN (IF p.neg THEN LongMin ELSE LongMax)
                 ELSE IF p.neg THEN -r.acc ELSE r.acc,
       end   |-> End(r)]

StrToUL(s, base) ==
  LET p == Prefix(s, base, TRUE)
      r == Accumulate(s, Begin(p), p.base, ULongMax \div p.base, ULongMax % p.base, 1)
  IN  [value |-> IF r.any < 0 THEN ULongMax
                 ELSE IF p.neg THEN (-r.acc) % (ULongMax + 1) ELSE r.acc,
       end   |-> End(r)]

StrToLL(s, base) ==
  LET p == Prefix(s, base, FALSE)
      r == IF p.neg
           THEN Accumulate(s, Begin(p), p.base, -((-LongMin) \div p.base), (-LongMin) % p.base, -1)
           ELSE Accumulate(s, Begin(p), p.base, LongMax \div p.base, LongMax % p.base, 1)
  IN  [value |-> IF r.any >= 0 THEN r.acc ELSE IF p.neg THEN LongMin ELSE LongMax,
       end   |-> End(r)]

StrToULL(s, base) ==
  LET p == Prefix(s, base, FALSE)
      r == IF p.base \notin 2 .. 36 THEN Begin(p)
           ELSE Accumulate(s, Begin(p), p.base, ULongMax \div p.base, ULongMax % p.base, 1)
  IN  [value |-> IF r.any < 0 THEN ULongMax
                 ELSE IF p.neg THEN (-r.acc) % (ULongMax + 1) ELSE r.acc,
       end   |-> End(r)]

(***************************************************************************)
(* Searching for a string in another.                                      *)
(***************************************************************************)
RECURSIVE SameUntilEnd(_, _, _, _)
SameUntilEnd(s, i, sub, j) ==
  \/ At(sub, j) = NUL
  \/ At(s, i) = At(sub, j) /\ SameUntilEnd(s, i + 1, sub, j + 1)

RECURSIVE StrStrFrom(_, _, _)
StrStrFrom(s, i, sub) ==
  IF At(s, i) = NUL THEN 0
  ELSE IF SameUntilEnd(s, i, sub, 1) THEN i
  ELSE StrStrFrom(s, i + 1, sub)

StrStr(s, sub) == IF sub = <<>> THEN 1 ELSE StrStrFrom(s, 1, sub)

RECURSIVE SameN(_, _, _, _, _)
SameN(s, i, t, j, n) ==
  \/ n = 0
  \/ At(s, i) = At(t, j) /\ (At(s, i) = NUL \/ SameN(s, i + 1, t, j + 1, n - 1))

\* slen characters of s are left to look at, from position i on
RECURSIVE StrNStrFrom(_, _, _, _)
StrNStrFrom(s, i, find, slen) ==
  IF slen < 1 \/ At(s, i) = NUL THEN 0
  ELSE IF s[i] # find[1] THEN StrNStrFrom(s, i + 1, find, slen - 1)
  ELSE IF Len(find) - 1 > slen - 1 THEN 0
  ELSE IF SameN(s, i + 1, find, 2, Len(find) - 1) THEN i
  ELSE StrNStrFrom(s, i + 1, find, slen - 1)

StrNStr(s, find, slen) == IF find = <<>> THEN 1 ELSE StrNStrFrom(s, 1, find, slen)

\* cur runs to last, the last position where s still fits into l
RECURSIVE MemMemFrom(_, _, _, _)
MemMemFrom(l, cur, last, s) ==
  IF cur > last THEN 0
  ELSE IF l[cur] = s[1] /\ SubSeq(l, cur, cur + Len(s) - 1) = s THEN cur
  ELSE MemMemFrom(l, cur + 1, last, s)

MemMem(l, s) ==
  IF l = <<>> \/ s = <<>> \/ Len(l) < Len(s) THEN 0
  ELSE MemMemFrom(l, 1, 1 + Len(l) - Len(s), s)

(***************************************************************************)
(* strtok: one call takes what is left of the string and gives the token   *)
(* and what the static pointer keeps, or NULL and a pointer at NULL.       *)
(***************************************************************************)
RECURSIVE SkipDelims(_, _, _)
SkipDelims(s, i, delim) ==
  IF At(s, i) \in delim THEN SkipDelims(s, i + 1, delim) ELSE i

RECURSIVE TokenEnd(_, _, _)
TokenEnd(s, i, delim) ==
  IF At(s, i) \in delim \cup {NUL} THEN i ELSE TokenEnd(s, i + 1, delim)

StrTok(s, at, delim) ==
  LET first == SkipDelims(s, at, delim)
      end   == TokenEnd(s, first, delim)
  IN  IF at = 0 \/ At(s, first) = NUL THEN [token |-> <<>>, last |-> 0]
      ELSE [token |-> SubSeq(s, first, end - 1), last |-> IF At(s, end) = NUL THEN 0 ELSE end + 1]

RECURSIVE Tokens(_, _, _)
Tokens(s, at, delim) ==
  LET call == StrTok(s, at, delim)
  IN  IF call.token = <<>> THEN <<>> ELSE <<call.token>> \o Tokens(s, call.last, delim)
=============================================================================

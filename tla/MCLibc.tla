------------------------------- MODULE MCLibc -------------------------------
(***************************************************************************)
(* Bounded inputs for the functions of LibcCalls, LibcWords and            *)
(* LibcStrings.  One step makes one call; result is what the code computes,*)
(* and the invariants compare it with what the call is for, said without   *)
(* the algorithm.                                                          *)
(***************************************************************************)
EXTENDS LibcCalls, LibcWords, LibcStrings, FiniteSetsExt, TLC

CONSTANTS MaxSort,     \* length of the arrays that are sorted exhaustively
          MaxString    \* length of the strings that are converted

UpTo(n, S) == UNION {[1 .. k -> S] : k \in 0 .. n}
\* long arrays: saw teeth of every pitch, and organ pipes
Saws == {[i \in 1 .. n |-> (i * k) % m] : n \in {9, 16, 24, 41, 50}, k \in 1 .. 5, m \in {7, 23, 47}}
Pipes == {[i \in 1 .. n |-> IF i <= n \div 2 THEN i ELSE n - i] : n \in {16, 40, 50}}

\* the even numbers in order, to search for every one and between any two
Evens == {[i \in 1 .. n |-> 2 * i] : n \in {8, 9, 15, 16, 17}}

\* the values of the constants
MCInputs == UpTo(MaxSort, 1 .. 3) \cup Permutations(1 .. 7) \cup Saws \cup Pipes \cup Evens
MCKeys == 0 .. 35
MCDepths == {0, 1, 3}
MCContents == {[x \in 0 .. Top |-> x]}    \* every byte tells where it was
MCBytes == {-1}
MCPointers == 1 .. SizeMax
MCAlignments == {0} \cup {2 ^ e : e \in 0 .. 5}

Finding ==
  \E s \in UpTo(6, {"a", "b"}), sub \in UpTo(3, {"a", "b"}) :
    \/ call' = [fn |-> "strstr", s |-> s, sub |-> sub] /\ result' = StrStr(s, sub)
    \/ call' = [fn |-> "memmem", s |-> s, sub |-> sub] /\ result' = MemMem(s, sub)
    \/ \E n \in 0 .. 7 : /\ call' = [fn |-> "strnstr", s |-> s, sub |-> sub, n |-> n]
                         /\ result' = StrNStr(s, sub, n)

Characters == {" ", "-", "+", "0", "1", "9", "x", "B", "f"}

Converting ==
  \E s \in UpTo(MaxString, Characters), base \in {0, 2, 10, 16, 36} :
    \/ call' = [fn |-> "strtol", s |-> s, base |-> base] /\ result' = StrToL(s, base)
    \/ call' = [fn |-> "strtoul", s |-> s, base |-> base] /\ result' = StrToUL(s, base)
    \/ call' = [fn |-> "strtoll", s |-> s, base |-> base] /\ result' = StrToLL(s, base)
    \/ call' = [fn |-> "strtoull", s |-> s, base |-> base] /\ result' = StrToULL(s, base)

Splitting ==
  \E s \in UpTo(7, {"a", ",", ";"}), delim \in SUBSET {",", ";"} :
    /\ call' = [fn |-> "strtok", s |-> s, delim |-> delim]
    /\ result' = Tokens(s, 1, delim)

ByteValues == {0, 1, 4, 5}    \* of three bits: zero, small, and with the highest bit

Measuring ==
  \E start \in 0 .. W - 1, s \in [1 .. 6 -> ByteValues] :
    LET m == [x \in 0 .. 4 * W - 1 |-> IF x \in start .. start + 5 THEN s[x - start + 1] ELSE 0]
    IN  \/ /\ call' = [fn |-> "strlen", m |-> m, at |-> start]
           /\ result' = StrLen(m, start)
        \/ \E c \in {1, 4} : /\ call' = [fn |-> "strchrnul", m |-> m, at |-> start, c |-> c]
                             /\ result' = StrChrNul(m, start, c)

\* two strings of at most three characters, apart from each other, and noise behind them
Words == {t \in [1 .. 4 -> {0, 1, 5}] : \E i \in 1 .. 4 : t[i] = 0}

Composing ==
  \E a, b \in Words, n \in 0 .. 4 :
    LET m == [x \in 0 .. 4 * W - 1 |-> IF x \in 1 .. 4 THEN a[x] ELSE IF x \in 10 .. 13 THEN b[x - 9]
                                      ELSE 2]
        Call(fn) == call' = [fn |-> fn, m |-> m, a |-> a, b |-> b, n |-> n]
    IN  \/ Call("strncpy") /\ result' = StrNCpy(m, 1, 10, n)
        \/ Call("strncat") /\ result' = StrNCat(m, 1, 10, n)
        \/ Call("strncmp") /\ result' = StrNCmp(m, 1, 10, n)
        \/ Call("memcmp") /\ result' = MemCmp(m, 1, 10, n)
        \/ n = 4 /\ Call("strcpy") /\ result' = StrCpy(m, 1, 10)
        \/ n = 4 /\ Call("strcat") /\ result' = StrCat(m, 1, 10)
        \/ n = 4 /\ Call("strcmp") /\ result' = StrCmp(m, 1, 10)
        \/ n \in {0, 1} /\ Call("strrchr") /\ result' = StrRChr(m, 1, n)

Next == /\ call.fn = "none"
        /\ Sorting \/ Searching \/ Moving \/ Allocating
           \/ Finding \/ Converting \/ Splitting \/ Measuring \/ Composing
Spec == CallsInit /\ [][Next]_callvars

-----------------------------------------------------------------------------
IsAt(s, sub, i) == SubSeq(s, i, i + Len(sub) - 1) = sub
FirstOf(S) == IF S = {} THEN 0 ELSE Min(S)

(***************************************************************************)
(* strstr, memmem and strnstr give the first occurrence that lies whole in *)
(* the string (in its first n characters), strstr and strnstr the string   *)
(* itself for an empty needle, memmem nothing.                             *)
(***************************************************************************)
Finds ==
  call.fn \in {"strstr", "memmem", "strnstr"} =>
    LET limit == IF call.fn = "strnstr" THEN Lesser(call.n, Len(call.s)) ELSE Len(call.s)
    IN  result = IF call.sub = <<>> THEN (IF call.fn = "memmem" THEN 0 ELSE 1)
                 ELSE FirstOf({i \in 1 .. limit - Len(call.sub) + 1 : IsAt(call.s, call.sub, i)})

\* the characters from i on that are digits in the base: their number and their value
DigitsFrom(s, i, base) == Max({n \in 0 .. Len(s) - i + 1 : \A k \in 0 .. n - 1 : Value(s[i + k]) < base})
Number(s, i, n, base) == FoldLeft(LAMBDA acc, c : acc * base + Value(c), 0, SubSeq(s, i, i + n - 1))

(***************************************************************************)
(* strtol.c:77, :173, strtoll.c:42, strtoull.c:44.  The value is that of   *)
(* the digits, computed without a limit, cut to the range of the type; the *)
(* end is behind the last digit, or the start of the string if there is    *)
(* none.  No conversion goes wrong at the boundary of the type, in any     *)
(* base.  (A prefix with no digit behind it converts nothing: C has the    *)
(* zero in front of the x converted.)                                      *)
(***************************************************************************)
Converts ==
  call.fn \in {"strtol", "strtoul", "strtoll", "strtoull"} =>
    LET p == Prefix(call.s, call.base, call.fn \in {"strtol", "strtoul"})
        n == IF p.at > Len(call.s) THEN 0 ELSE DigitsFrom(call.s, p.at, p.base)
        exact == (IF p.neg THEN -1 ELSE 1) * Number(call.s, p.at, n, p.base)
        signed == call.fn \in {"strtol", "strtoll"}
    IN  /\ result.end = IF n = 0 THEN 1 ELSE p.at + n
        /\ result.value = IF signed THEN Max({LongMin, Min({LongMax, exact})})
                          ELSE IF exact \in -ULongMax .. ULongMax THEN exact % (ULongMax + 1)
                          ELSE ULongMax

(***************************************************************************)
(* strtok.c:67.  Calling strtok until NULL gives the non-empty runs of     *)
(* characters that are no delimiters, in order: nothing is read behind the *)
(* end, none is skipped, and none is given twice.                          *)
(***************************************************************************)
Splits ==
  call.fn = "strtok" =>
    LET s == call.s
        Is(i) == i \in DOMAIN s /\ s[i] \notin call.delim
        starts == {i \in DOMAIN s : Is(i) /\ ~Is(i - 1)}
    IN  /\ Len(result) = Cardinality(starts)
        /\ \A i \in starts :
             LET k == Cardinality({j \in starts : j <= i})
                 n == FirstOf({d \in 1 .. Len(s) : ~Is(i + d)})
             IN  result[k] = SubSeq(s, i, i + n - 1)

(***************************************************************************)
(* strlen.c:81 and strchrnul.c:12, which read whole words, stop at the     *)
(* first byte that matches although other bytes of the word set off their  *)
(* tests.                                                                  *)
(***************************************************************************)
Measures ==
  /\ call.fn = "strlen" => /\ call.m[call.at + result] = 0
                           /\ \A i \in 0 .. result - 1 : call.m[call.at + i] # 0
  /\ call.fn = "strchrnul" => /\ call.m[result] \in {0, call.c}
                              /\ \A x \in call.at .. result - 1 : call.m[x] \notin {0, call.c}

Text(t) == SubSeq(t, 1, FirstOf({i \in 1 .. 4 : t[i] = 0}) - 1)
First(t, n) == SubSeq(t, 1, Lesser(n, Len(t)))
\* the memory after t was stored from address 1 on
Stored(m, t) == [x \in DOMAIN m |-> IF x \in 1 .. Len(t) THEN t[x] ELSE m[x]]
\* the first position where s and t differ, or 0
Differ(s, t) == FirstOf({i \in 1 .. Len(s) : i <= Len(t) /\ s[i] # t[i]})

(***************************************************************************)
(* strncpy.c, strncat.c, strcpy.c, strcat.c store the characters, the NUL  *)
(* (strncpy: NULs up to the count, or none) and nothing else.  strcmp.c,   *)
(* strncmp.c and memcmp.c give 0 for equal strings only, strrchr.c the last*)
(* match; where strings differ the sign is that of the first two different *)
(* characters (of their signed values in strcmp and strncmp, where C wants *)
(* unsigned ones).                                                         *)
(***************************************************************************)
Composes ==
  call.fn \in {"strcpy", "strcat", "strncpy", "strncat", "strcmp", "strncmp", "memcmp", "strrchr"} =>
    LET a == Text(call.a)
        b == Text(call.b)
        n == call.n
        Signed(s, t, Val(_)) ==
          LET i == Differ(s, t) IN IF i = 0 THEN result = 0 ELSE result = Val(s[i]) - Val(t[i])
    IN  CASE call.fn = "strcpy"  -> result = Stored(call.m, Append(b, 0))
          [] call.fn = "strcat"  -> result = Stored(call.m, a \o Append(b, 0))
          [] call.fn = "strncpy" -> result = Stored(call.m, [i \in 1 .. n |-> IF i <= Len(b) THEN b[i] ELSE 0])
          [] call.fn = "strncat" -> result = Stored(call.m, a \o Append(First(b, n), 0))
          [] call.fn = "strcmp"  -> Signed(Append(a, 0), Append(b, 0), PlainChar)
          [] call.fn = "strncmp" -> Signed(First(Append(a, 0), n), First(Append(b, 0), n), PlainChar)
          [] call.fn = "memcmp"  -> Signed(First(call.a, n), First(call.b, n), LAMBDA c : c)
          [] call.fn = "strrchr" -> result = LET at == {i \in 1 .. Len(a) + 1 : call.a[i] = n}
                                             IN  IF at = {} THEN -1 ELSE Max(at)

(***************************************************************************)
(* What the string functions promise, wherever in the string the hard      *)
(* place is: strstr, strnstr and memmem, strtol and its relatives, strtok, *)
(* the word-wise searches and the functions made of them, by the five      *)
(* formulas above.                                                         *)
(***************************************************************************)
Texts == Finds /\ Converts /\ Splits /\ Measures /\ Composes
=============================================================================

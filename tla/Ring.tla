---- MODULE Ring ----
(***************************************************************************)
(* Index arithmetic shared by the circular buffers: positions of a ring of *)
(* n slots, 0 .. n-1, and the run of k elements that starts at a slot.     *)
(***************************************************************************)
EXTENDS Integers, Sequences

\* Storage for n elements of S.
Storage(S, n) == [0 .. n - 1 -> S]

\* The two versions of advance_headtail_value(v, n).
StepModulo(v, n)  == (v + 1) % n
StepCompare(v, n) == IF v + 1 = n THEN 0 ELSE v + 1

\* A position less than n beyond the end of the storage, wrapped.
Wrap(v, n) == IF v < n THEN v ELSE v - n

\* The distance from t forward to h: what circular_buf_size computes for a
\* buffer that is not full.
Distance(h, t, n) == IF h >= t THEN h - t ELSE n + h - t

\* The k elements from slot t on, as a loop that advances a position reads them.
Segment(buf, t, k, n) == [i \in 1 .. k |-> buf[Wrap(t + i - 1, n)]]

====

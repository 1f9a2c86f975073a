---- MODULE Allocator ----
(***************************************************************************)
(* What a heap promises: the memory it hands out comes from what it was    *)
(* given, is as long as was asked for, and belongs to one owner until it   *)
(* is given back.  Where the memory is taken from, and when a request is   *)
(* refused, is left open.                                                  *)
(***************************************************************************)
EXTENDS Integers

VARIABLES heap,   \* the addresses the allocator was given
          blocks  \* what is handed out: records [at, len]

vars == <<heap, blocks>>

Extent(b) == b.at .. b.at + b.len - 1

Init == heap = {} /\ blocks = {}

Give(memory) ==
    /\ heap \cap memory = {}
    /\ heap' = heap \cup memory
    /\ UNCHANGED blocks

\* A request of n: the block may turn out longer, and not overlap another.
Malloc(n, b) ==
    /\ b.len >= n
    /\ Extent(b) \subseteq heap
    /\ \A c \in blocks : Extent(b) \cap Extent(c) = {}
    /\ blocks' = blocks \cup {b}
    /\ UNCHANGED heap

Free(b) ==
    /\ b \in blocks
    /\ blocks' = blocks \ {b}
    /\ UNCHANGED heap

====

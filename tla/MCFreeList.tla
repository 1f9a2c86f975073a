---- MODULE MCFreeList ----
(***************************************************************************)
(* Regions for TLC, given from the highest down, which leaves the list of  *)
(* free blocks sorted.  Two of the regions touch.                          *)
(***************************************************************************)
EXTENDS FreeList

Low    == [at |-> 0,  len |-> 20]
Middle == [at |-> 24, len |-> 6]
High   == [at |-> 30, len |-> 12]

Descending == <<High, Middle, Low>>

ASSUME DescendingAssumption == GivenDownwards

\* A size_t reaches all of the memory.
ASSUME AddressableAssumption == \A w \in Memory : (w + 1) * PtrSize <= SizeMod
====

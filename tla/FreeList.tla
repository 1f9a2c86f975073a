---- MODULE FreeList ----
(***************************************************************************)
(* c/malloc/malloc_freelist.c: a first-fit allocator over regions of       *)
(* memory the program gives it.  Memory is counted in words of             *)
(* sizeof(void* ), at which every block begins; the last bytes of a region *)
(* that are no whole word are nobody's.  What fl_malloc is asked for is    *)
(* counted in bytes, in a size_t.  A block is named by the address of its  *)
(* alloc_node_t: Header words, the size among them, and then the memory    *)
(* the user gets.  The linked list of c/linked_list/linked_list.h is the   *)
(* sequence of the nodes it links.                                         *)
(***************************************************************************)
EXTENDS Integers, Sequences, FiniteSets, SequencesExt, FiniteSetsExt

CONSTANTS Regions,    \* what malloc_addblock is given, in that order: [at, len]
          Header,     \* ALLOC_HEADER_SZ
          MinPayload, \* the 32 bytes of MIN_ALLOC_SZ
          PtrSize,    \* sizeof(void* )
          SizeMod,    \* size_t counts modulo this
          Requests    \* the sizes that are asked for, in bytes

Words(r) == r.at .. r.at + r.len - 1
Memory   == UNION {Words(Regions[i]) : i \in DOMAIN Regions}

\* Regions are distinct pieces of memory, each with room for a header.
ASSUME SizesAssumption ==
    /\ Header \in Nat \ {0} /\ MinPayload \in Nat
    /\ PtrSize \in Nat \ {0} /\ SizeMod \in Nat \ {0} /\ SizeMod % PtrSize = 0
    /\ Requests \subseteq 0 .. SizeMod - 1
ASSUME RegionsAssumption ==
    /\ Regions \in Seq([at : Nat, len : Nat])
    /\ \A i \in DOMAIN Regions : Regions[i].len > Header
    /\ \A i, j \in DOMAIN Regions : i # j => Words(Regions[i]) \cap Words(Regions[j]) = {}

VARIABLES free,   \* free_list
          size,   \* the size field in the header at an address
          used,   \* the blocks the user holds
          added   \* how many regions have been given

flvars == <<free, size, used, added>>

FLInit ==
    /\ free = <<>>
    /\ size = [w \in Memory |-> 0]
    /\ used = {}
    /\ added = 0

\* The address after block b.
End(b, sz) == b + Header + sz[b]

\* malloc_addblock puts the region at the head of the list.
AddBlock ==
    /\ added < Len(Regions)
    /\ added' = added + 1
    /\ LET r == Regions[added'] IN
          /\ size' = [size EXCEPT ![r.at] = r.len - Header]
          /\ free' = <<r.at>> \o free
    /\ UNCHANGED used

-----------------------------------------------------------------------------
(* fl_malloc.                                                              *)

\* align_up(n, sizeof(void* )), in words.  The sum is a size_t: within a word of
\* its end it wraps around, and what is left is 0.
BugRoundUp(n) == n \div PtrSize
RoundUp(n) == ((n + PtrSize - 1) % SizeMod) \div PtrSize

FirstFit(n) == LET fits == {i \in DOMAIN free : size[free[i]] >= n}
               IN IF fits = {} THEN 0 ELSE Min(fits)

CanSplit(b, n) == size[b] - n >= Header + MinPayload

\* The rest of the block takes its place in the list.
BugSplit(i, n) ==
    LET b == free[i]
        rest == b + Header + n
    IN /\ size' = [size EXCEPT ![b] = n, ![rest] = size[b] - n]
       /\ free' = [free EXCEPT ![i] = rest]
Split(i, n) ==
    LET b == free[i]
        rest == b + Header + n
    IN /\ size' = [size EXCEPT ![b] = n, ![rest] = size[b] - n - Header]
       /\ free' = [free EXCEPT ![i] = rest]

TakeWhole(i) ==
    /\ free' = RemoveAt(free, i)
    /\ UNCHANGED size

\* The search for n words, and what is done with the block it finds.
Serve(n) ==
    LET i == FirstFit(n) IN
    \/ /\ i = 0
       /\ UNCHANGED flvars
    \/ /\ i # 0
       /\ used' = used \cup {free[i]}
       /\ IF CanSplit(free[i], n) THEN Split(i, n) ELSE TakeWhole(i)
       /\ UNCHANGED added

Malloc(n) == IF n > 0 THEN Serve(RoundUp(n)) ELSE UNCHANGED flvars

-----------------------------------------------------------------------------
(* fl_free.                                                                *)

\* Before the first block at a higher address, or at the end.
BugInsert(list, b) == Append(list, b)
Insert(list, b) ==
    LET above == {i \in DOMAIN list : list[i] > b}
    IN IF above = {} THEN Append(list, b) ELSE InsertAt(list, Min(above), b)

\* defrag_free_list: one pass, in which a block that begins where the last one
\* that was kept ends is added to it.
Absorb(acc, b) ==
    LET last == Last(acc.list)
    IN IF acc.list # <<>> /\ End(last, acc.size) = b
       THEN [list |-> acc.list, size |-> [acc.size EXCEPT ![last] = @ + Header + acc.size[b]]]
       ELSE [list |-> Append(acc.list, b), size |-> acc.size]
Defrag(list, sz) ==
    LET pass[n \in 0 .. Len(list)] ==
            IF n = 0 THEN [list |-> <<>>, size |-> sz]
                     ELSE Absorb(pass[n - 1], list[n])
    IN pass[Len(list)]

\* fl_free(ptr), with a pointer that fl_malloc returned and is not freed yet.
Free(b) ==
    /\ b \in used
    /\ used' = used \ {b}
    /\ LET d == Defrag(Insert(free, b), size)
       IN free' = d.list /\ size' = d.size
    /\ UNCHANGED added

FLNext ==
    \/ AddBlock
    \/ \E n \in Requests : Malloc(n)
    \/ \E b \in used : Free(b)

FLSpec == FLInit /\ [][FLNext]_flvars

-----------------------------------------------------------------------------
(* Properties.                                                             *)

FLTypeOK ==
    /\ free \in Seq(Memory)
    /\ size \in [Memory -> 0 .. Cardinality(Memory)]
    /\ used \subseteq Memory
    /\ added \in 0 .. Len(Regions)

Blocks == used \cup ToSet(free)
Given  == UNION {Words(Regions[i]) : i \in 1 .. added}

\* The blocks, free or in use, tile the memory: every word of every region
\* belongs to exactly one of them and none reaches beyond, so that nothing
\* overlaps, is lost, or is listed twice, whatever is split and merged.
Tiled ==
    /\ FLTypeOK
    /\ Cardinality(Blocks) = Cardinality(used) + Len(free)
    /\ \A b \in Blocks : b .. End(b, size) - 1 \subseteq Given
    /\ \A w \in Given :
          Cardinality({b \in Blocks : w \in b .. End(b, size) - 1}) = 1

\* fl_free leaves no two free blocks that could be one ("check to see if any
\* memory blocks can be combined into larger blocks", malloc_freelist.c:46-50),
\* where the regions are given from the highest down: malloc_addblock puts each
\* at the head of the list, which is in order only then.
GivenDownwards == \A m, n \in DOMAIN Regions : m < n => Regions[n].at < Regions[m].at
Coalesced == \A b, c \in ToSet(free) : End(b, size) # c
FreeCoalesces == [][used' # used /\ used' \subseteq used => Coalesced']_flvars

\* What the user holds is what an allocator would have handed out.
Handed == {[at |-> b + Header, len |-> size[b]] : b \in used}

Heap == INSTANCE Allocator WITH heap <- Given, blocks <- Handed

\* The words that hold n bytes.  The rounding of a size within a word of the end
\* of size_t overflows, and nothing is said of the length it is answered with.
Owed(n) == IF n > SizeMod - PtrSize THEN 0 ELSE (n + PtrSize - 1) \div PtrSize

\* The requests a step may be the answer to.
Answered == {n \in Requests : Malloc(n)}

HeapNext ==
    \/ \E r \in ToSet(Regions) : Heap!Give(Words(r))
    \/ /\ Answered # {}
       /\ \A n \in Answered : \E b \in Handed' : Heap!Malloc(Owed(n), b)
    \/ \E b \in Handed : Heap!Free(b)

\* Every step of the free list is a step of the allocator: memory is handed out
\* once, at the length that was asked for at least, unless rounding the size
\* overflows, and stays with its owner, unmoved and unshortened, while other
\* blocks are split, freed and merged.
ImplementsAllocator == Heap!Init /\ [][HeapNext]_(Heap!vars)

====

--------------------------------- MODULE Heap ---------------------------------
(***************************************************************************)
(* The heap of mem.c (RT_USING_SMALL_MEM): blocks that lie one behind the  *)
(* other, each with a header that links it to its neighbours by their      *)
(* offsets, and the pointer lfree at which rt_malloc begins its search.    *)
(* Sizes count words (RT_ALIGN_SIZE).  What a call does between taking and *)
(* releasing heap_sem is one step; rt_realloc has up to three such         *)
(* sections, between which other threads use the heap.                     *)
(***************************************************************************)
EXTENDS Waiting

CONSTANTS
    SizeofMem,  \* SIZEOF_STRUCT_MEM
    MinSize,    \* MIN_SIZE_ALIGNED
    MemSize,    \* mem_size_aligned
    Sizes       \* the sizes that are asked for

ASSUME HeapAssumption ==
    /\ SizeofMem \in Nat \ {0} /\ MinSize \in Nat \ {0} /\ MemSize \in Nat
    /\ MinSize <= MemSize /\ Sizes \subseteq 1 .. MemSize

VARIABLES
    heap    \* lfree, used_mem, and hdr: the header at each offset at which a
            \* block begins; and history: own, the size last asked for of each
            \* block that the application has, and trimmed, whether rt_realloc
            \* has cut a block

\* heap_end, whose used flag is set and whose prev is not looked at
End == MemSize + SizeofMem

HpInit ==
    heap = [lfree |-> 0, used_mem |-> 0,
            hdr |-> [o \in {0, End} |-> [used |-> o = End, next |-> End, prev |-> o]],
            own |-> [o \in {} |-> 0], trimmed |-> FALSE]

-----------------------------------------------------------------------------
(* Blocks *)

\* The size of the block at p without its header.
Room(hdr, p) == hdr[p].next - (p + SizeofMem)

\* A free block is made of what lies behind the first size words of block p.
Split(hdr, p, size) ==
    LET p2 == p + SizeofMem + size
        n  == hdr[p].next
        linked == [hdr EXCEPT ![p].next = p2, ![n].prev = IF n = End THEN @ ELSE p2]
    IN  [o \in DOMAIN hdr \cup {p2} |->
            IF o = p2 THEN [used |-> FALSE, next |-> n, prev |-> p] ELSE linked[o]]

\* Mutant: lfree keeps pointing to the header that is gone.
Merge_KeepLfree(h, p) ==
    LET n  == h.hdr[p].next
        nn == h.hdr[n].next
        linked == [h.hdr EXCEPT ![p].next = nn, ![nn].prev = p]
    IN  [h EXCEPT !.hdr = [o \in DOMAIN h.hdr \ {n} |-> linked[o]]]

\* The block behind p becomes part of p.
Merge(h, p) ==
    LET n  == h.hdr[p].next
        nn == h.hdr[n].next
        linked == [h.hdr EXCEPT ![p].next = nn, ![nn].prev = p]
    IN  [h EXCEPT !.hdr = [o \in DOMAIN h.hdr \ {n} |-> linked[o]],
                  !.lfree = IF @ = n THEN p ELSE @]

plug_holes(h, p) ==
    LET f == IF ~h.hdr[h.hdr[p].next].used THEN Merge(h, p) ELSE h
        before == f.hdr[p].prev
    IN  IF before # p /\ ~f.hdr[before].used THEN Merge(f, before) ELSE f

-----------------------------------------------------------------------------
(* rt_malloc, for sizes up to mem_size_aligned; and rt_calloc *)

\* Mutant: the header is not counted.
Fits_NoHeader(h, size) ==
    {p \in DOMAIN h.hdr : /\ h.lfree <= p /\ p < MemSize - size
                          /\ ~h.hdr[p].used /\ h.hdr[p].next - p >= size}

\* The blocks that the search accepts; it takes the first.  A block that begins
\* at mem_size_aligned - size or behind is not looked at even if it fits.
Fits(h, size) ==
    {p \in DOMAIN h.hdr : /\ h.lfree <= p /\ p < MemSize - size
                          /\ ~h.hdr[p].used /\ Room(h.hdr, p) >= size}

AtLeastMin(size) == IF size < MinSize THEN MinSize ELSE size

\* The first free block behind p, or heap_end.
NextFree(hdr, p) == Min({o \in DOMAIN hdr : o > p /\ (~hdr[o].used \/ o = End)})

\* Block p is taken, whole or its first size words.
Taken(h, p, size) ==
    LET split == Room(h.hdr, p) >= size + SizeofMem + MinSize
        hdr == [(IF split THEN Split(h.hdr, p, size) ELSE h.hdr) EXCEPT ![p].used = TRUE]
    IN  [h EXCEPT !.hdr = hdr,
                  !.used_mem = @ + (hdr[p].next - p),
                  !.lfree = IF @ = p THEN NextFree(hdr, p) ELSE @]

Found(size) == Fits(heap, AtLeastMin(size)) # {}
FirstFit(size) == Min(Fits(heap, AtLeastMin(size)))

Allocate(size) ==
    LET p == FirstFit(size) IN
    heap' = [Taken(heap, p, AtLeastMin(size)) EXCEPT
                !.own = [o \in DOMAIN @ \cup {p} |-> IF o = p THEN size ELSE @[o]]]

HpMalloc(t, size) ==
    /\ Calls(t, "hp_malloc") /\ Found(size)
    /\ Allocate(size)
    /\ UNCHANGED <<kernel, waiting>>

-----------------------------------------------------------------------------
(* rt_free *)

Freed(h, p) ==
    plug_holes([h EXCEPT !.hdr[p].used = FALSE,
                         !.lfree = IF p < @ THEN p ELSE @,
                         !.used_mem = @ - (h.hdr[p].next - p),
                         !.own = [o \in DOMAIN @ \ {p} |-> @[o]]], p)

\* The application frees and reallocates what it has, and not what a call of
\* rt_realloc is busy with.
Reallocating == {t \in User : pc[t].at \in {"hp_expand", "hp_copied"}}
Mine == DOMAIN heap.own \ {pc[t].arg.old : t \in Reallocating}

HpFree(t, p) ==
    /\ Calls(t, "hp_free") /\ p \in Mine
    /\ heap' = Freed(heap, p)
    /\ UNCHANGED <<kernel, waiting>>

-----------------------------------------------------------------------------
(* rt_realloc of a block to a size other than 0; with no block or size 0   *)
(* it is rt_malloc or rt_free                                              *)

Trims(p, newsize) == newsize + SizeofMem + MinSize < Room(heap.hdr, p)

\* The block has the size, or its end is cut off.
HpReallocInPlace(t, p, newsize) ==
    /\ Calls(t, "hp_realloc") /\ p \in Mine
    /\ \/ Room(heap.hdr, p) = newsize
          /\ heap' = [heap EXCEPT !.own[p] = newsize]
       \/ Trims(p, newsize)
          /\ heap' = plug_holes(
                [heap EXCEPT !.hdr = Split(@, p, newsize),
                             !.used_mem = @ - (Room(heap.hdr, p) - newsize),
                             !.own[p] = newsize, !.trimmed = TRUE],
                p + SizeofMem + newsize)
    /\ UNCHANGED <<kernel, waiting>>

\* Otherwise the first section changes nothing.
HpReallocMoves(t, p, newsize) ==
    /\ Calls(t, "hp_realloc") /\ p \in Mine
    /\ Room(heap.hdr, p) # newsize /\ ~Trims(p, newsize)
    /\ Goto(t, "hp_expand", [old |-> p, newsize |-> newsize])
    /\ UNCHANGED <<k, isr, dead, fault, waiting, heap>>

\* The new block, or none: then the old one is kept.
HpReallocMalloc(t) ==
    LET newsize == pc[t].arg.newsize IN
    /\ Is(t, "hp_expand")
    /\ IF Found(newsize) THEN Allocate(newsize) /\ Goto(t, "hp_copied", pc[t].arg)
       ELSE UNCHANGED heap /\ Goto(t, "run", t)
    /\ UNCHANGED <<k, isr, dead, fault, waiting>>

HpReallocFree(t) ==
    /\ Is(t, "hp_copied")
    /\ heap' = Freed(heap, pc[t].arg.old)
    /\ Goto(t, "run", t)
    /\ UNCHANGED <<k, isr, dead, fault, waiting>>

HpStep(consumer) ==
    \E t \in consumer :
        \/ \E size \in Sizes :
            \/ HpMalloc(t, size)
            \/ \E p \in Mine : HpReallocInPlace(t, p, size) \/ HpReallocMoves(t, p, size)
        \/ \E p \in Mine : HpFree(t, p)
        \/ HpReallocMalloc(t) \/ HpReallocFree(t)

-----------------------------------------------------------------------------

\* The blocks lie one behind the other from the first word to heap_end, each
\* long enough for its header, the links lead from neighbour to neighbour in
\* both directions, and lfree leads to a header that exists.
HeapTiled ==
    LET hdr == heap.hdr
        blocks == DOMAIN hdr \ {End}
    IN  /\ 0 \in blocks /\ hdr[0].prev = 0 /\ heap.lfree \in DOMAIN hdr
        /\ \A p \in blocks :
            LET n == hdr[p].next IN
            /\ n \in DOMAIN hdr /\ Room(hdr, p) >= 0
            /\ \A o \in DOMAIN hdr : ~(p < o /\ o < n)
            /\ n # End => hdr[n].prev = p

\* The used blocks are those that the application has, each as large as was asked
\* for, and used_mem, which rt_memory_info reports, counts exactly these.
AllocationsIntact ==
    LET used == {p \in DOMAIN heap.hdr \ {End} : heap.hdr[p].used} IN
    /\ used = DOMAIN heap.own
    /\ \A p \in used : Room(heap.hdr, p) >= heap.own[p]
    /\ heap.used_mem = MapThenSumSet(LAMBDA p : heap.hdr[p].next - p, used)

\* No two neighbouring blocks are free: the fragmentation that plug_holes is for,
\* and what rt_malloc relies on when it takes a whole block.
FreeBlocksMerged ==
    \A p \in DOMAIN heap.hdr :
        ~heap.hdr[p].used => heap.hdr[heap.hdr[p].next].used

\* lfree is the lowest free block, so that rt_malloc finds what is free; unless
\* rt_realloc has cut a block, which does not move lfree down.
LowestFree ==
    heap.trimmed \/ heap.lfree = Min({p \in DOMAIN heap.hdr : ~heap.hdr[p].used \/ p = End})
\* The structure rt_malloc, rt_free and rt_realloc rely on when one of them is
\* called between two sections of another's rt_realloc.
HeapWellFormed == HeapTiled /\ FreeBlocksMerged /\ LowestFree
===============================================================================

-------------------------------- MODULE Tlsf --------------------------------
(***************************************************************************)
(* The kernel's heap: the two-level segregated fit allocator of tlsf.c     *)
(* behind kmalloc.c.  Block headers live in the memory that is handed out, *)
(* word by word: a block's prev_phys_block is the last word of the block   *)
(* before it, and its list pointers are the first words of its user's      *)
(* data.  So memory is a function from addresses to words, and what a      *)
(* function of the code does to it is an operator on the heap h.           *)
(*                                                                         *)
(* The kernel is not preemptive, so a call is one action.                  *)
(***************************************************************************)
EXTENDS Integers, FiniteSetsExt

CONSTANTS
    PoolBytes,            \* bytes given to tlsf_add_pool
    SL_INDEX_COUNT_LOG2,
    FL_INDEX_MAX,
    SizeMod,              \* 2^32, what a size_t wraps at
    Requests,             \* sizes asked for
    Aligns,               \* alignments asked for
    MaxLive               \* bound on the allocations at a time

Word == 4                 \* sizeof(size_t), ALIGN_SIZE
ALIGN_SIZE_LOG2 == 2
SL_INDEX_COUNT == 2 ^ SL_INDEX_COUNT_LOG2
FL_INDEX_SHIFT == SL_INDEX_COUNT_LOG2 + ALIGN_SIZE_LOG2
FL_INDEX_COUNT == FL_INDEX_MAX - FL_INDEX_SHIFT + 1
SMALL_BLOCK_SIZE == 2 ^ FL_INDEX_SHIFT
block_size_min == 3 * Word
block_size_max == 2 ^ FL_INDEX_MAX
HeaderSize == 4 * Word    \* sizeof(block_header_t)

ASSUME PoolAssumption ==
    /\ PoolBytes - 2 * Word \in block_size_min .. block_size_max - 1
    /\ SizeMod \in Nat /\ SizeMod > block_size_max /\ SizeMod % block_size_max = 0
    /\ Requests \subseteq 0 .. SizeMod - 1 /\ Aligns \subseteq {2 ^ i : i \in 2 .. FL_INDEX_MAX}

\* The pool starts at 0; block_null is in the control structure before it.
First == -Word
block_null == -8 * Word
Words == {Word * i : i \in -8 .. PoolBytes \div Word - 1}
Lists == (0 .. FL_INDEX_COUNT - 1) \X (0 .. SL_INDEX_COUNT - 1)

\* What users store: any word, here one that looks like a header's two flags.
UserWord == 3

VARIABLES
    heap,  \* mem, fl_bitmap, sl_bitmap, blocks: the memory and the control structure
    live,  \* the size asked for of each allocation, by its address
    full   \* how many bytes the last call found no block for, 0 if it did

vars == <<heap, live, full>>

-----------------------------------------------------------------------------
(* Block headers: prev_phys_block, size, next_free, prev_free. *)

Store(h, a, x) == [h EXCEPT !.mem[a] = x]
SizeWord(h, b) == h.mem[b + Word]
next_free(h, b) == h.mem[b + 2 * Word]
prev_free(h, b) == h.mem[b + 3 * Word]

\* Two bits of the size say whether the block, and the block before it, is free.
Flags(x) == x % Word
block_size(h, b) == SizeWord(h, b) - Flags(SizeWord(h, b))
block_set_size(h, b, n) == Store(h, b + Word, n + Flags(SizeWord(h, b)))
block_is_last(h, b) == block_size(h, b) = 0
block_is_free(h, b) == Flags(SizeWord(h, b)) \in {1, 3}
block_is_prev_free(h, b) == Flags(SizeWord(h, b)) \in {2, 3}

SetFlags(h, b, free, prev) ==
    Store(h, b + Word, block_size(h, b) + (IF free THEN 1 ELSE 0) + (IF prev THEN 2 ELSE 0))
block_set_free(h, b) == SetFlags(h, b, TRUE, block_is_prev_free(h, b))
block_set_used(h, b) == SetFlags(h, b, FALSE, block_is_prev_free(h, b))
block_set_prev_free(h, b) == SetFlags(h, b, block_is_free(h, b), TRUE)
block_set_prev_used(h, b) == SetFlags(h, b, block_is_free(h, b), FALSE)

block_from_ptr(p) == p - 2 * Word
block_to_ptr(b) == b + 2 * Word
block_prev(h, b) == h.mem[b]
block_next(h, b) == block_to_ptr(b) + block_size(h, b) - Word
block_link_next(h, b) == Store(h, block_next(h, b), b)

block_mark_as_free(h, b) ==
    block_set_free(block_set_prev_free(block_link_next(h, b), block_next(h, b)), b)
block_mark_as_used(h, b) == block_set_used(block_set_prev_used(h, block_next(h, b)), b)

\* The sum is a size_t: a request just below 2^32 becomes a small one.
align_up(x, a) == (((x + a - 1) % SizeMod) \div a) * a
align_down(x, a) == x - (x % a)

\* 0, "no such size", for a request of no bytes or of more than any block has.
adjust_request_size(n, align) ==
    IF n # 0 /\ align_up(n, align) < block_size_max
    THEN Max({align_up(n, align), block_size_min}) ELSE 0

-----------------------------------------------------------------------------
(* The lists of free blocks. *)

fls(n) == Max({i \in 0 .. FL_INDEX_MAX + 1 : 2 ^ i <= n})

\* The indices of the list for blocks of n bytes.
mapping_insert(n) ==
    IF n < SMALL_BLOCK_SIZE
    THEN <<0, n \div (SMALL_BLOCK_SIZE \div SL_INDEX_COUNT)>>
    ELSE <<fls(n) - (FL_INDEX_SHIFT - 1),
           n \div 2 ^ (fls(n) - SL_INDEX_COUNT_LOG2) - SL_INDEX_COUNT>>

\* Mutant: the list a block of n bytes would be in, whose blocks may be smaller.
NoRoundUp(n) == mapping_insert(n)

\* The list from which on every block has n bytes.
mapping_search(n) ==
    mapping_insert(IF n < SMALL_BLOCK_SIZE THEN n
                   ELSE n + 2 ^ (fls(n) - SL_INDEX_COUNT_LOG2) - 1)

\* Mutant: only the row of l is searched.
OwnRowOnly(h, l) == {<<l[1], s>> : s \in {Min(r) : r \in {{t \in h.sl_bitmap[l[1]] : t >= l[2]}} \ {{}}}}

\* The first list in use at or after l: in its own row, or in a later one.
search_suitable_block(h, l) ==
    LET row == {s \in h.sl_bitmap[l[1]] : s >= l[2]}
        rows == {f \in h.fl_bitmap : f > l[1]}
    IN  IF row # {} THEN {<<l[1], Min(row)>>}
        ELSE {<<f, Min(h.sl_bitmap[f])>> : f \in {Min(r) : r \in {rows} \ {{}}}}

\* Mutant: the first-level bit stays.
RowBitStays(h, l) == [h EXCEPT !.sl_bitmap[l[1]] = @ \ {l[2]}]

ClearBits(h, l) ==
    [h EXCEPT !.sl_bitmap[l[1]] = @ \ {l[2]},
              !.fl_bitmap = IF h.sl_bitmap[l[1]] = {l[2]} THEN @ \ {l[1]} ELSE @]

remove_free_block(h, b, l) ==
    LET next == next_free(h, b)
        prev == prev_free(h, b)
        u == Store(Store(h, next + 3 * Word, prev), prev + 2 * Word, next)
        v == [u EXCEPT !.blocks[l] = next]
    IN  IF h.blocks[l] # b THEN u
        ELSE IF next = block_null THEN ClearBits(v, l) ELSE v

insert_free_block(h, b, l) ==
    LET current == h.blocks[l]
        u == Store(Store(h, b + 2 * Word, current), b + 3 * Word, block_null)
    IN  [Store(u, current + 3 * Word, b) EXCEPT
            !.blocks[l] = b, !.fl_bitmap = @ \cup {l[1]}, !.sl_bitmap[l[1]] = @ \cup {l[2]}]

block_remove(h, b) == remove_free_block(h, b, mapping_insert(block_size(h, b)))
block_insert(h, b) == insert_free_block(h, b, mapping_insert(block_size(h, b)))

-----------------------------------------------------------------------------
(* Splitting and merging.  What the code returns beside the heap is a block. *)

With(h, b) == [h |-> h, b |-> b]

block_can_split(h, b, n) == block_size(h, b) >= HeaderSize + n

\* The flags of the new header are what its word held before.
block_split(h, b, n) ==
    LET r == block_to_ptr(b) + n - Word
        left == block_size(h, b) - (n + Word)
    IN  With(block_mark_as_free(block_set_size(block_set_size(h, r, left), b, n), r), r)

block_absorb(h, prev, b) ==
    With(block_link_next(Store(h, prev + Word, SizeWord(h, prev) + block_size(h, b) + Word), prev),
         prev)

\* Mutant: only the block after is looked at.
NoMergePrev(h, b) == With(h, b)

block_merge_prev(h, b) ==
    IF block_is_prev_free(h, b)
    THEN block_absorb(block_remove(h, block_prev(h, b)), block_prev(h, b), b) ELSE With(h, b)

block_merge_next(h, b) ==
    IF block_is_free(h, block_next(h, b))
    THEN block_absorb(block_remove(h, block_next(h, b)), b, block_next(h, b)) ELSE With(h, b)

block_trim_free(h, b, n) ==
    LET s == block_split(h, b, n)
    IN  IF ~block_can_split(h, b, n) THEN h
        ELSE block_insert(block_set_prev_free(block_link_next(s.h, b), s.b), s.b)

block_trim_used(h, b, n) ==
    LET s == block_split(h, b, n)
        m == block_merge_next(block_set_prev_used(s.h, s.b), s.b)
    IN  IF ~block_can_split(h, b, n) THEN h ELSE block_insert(m.h, m.b)

block_trim_free_leading(h, b, n) ==
    LET s == block_split(h, b, n - Word)
    IN  IF ~block_can_split(h, b, n) THEN With(h, b)
        ELSE With(block_insert(block_link_next(block_set_prev_free(s.h, s.b), b), b), s.b)

\* A set, empty when there is none.
block_locate_free(h, n) ==
    IF n = 0 \/ mapping_search(n)[1] >= FL_INDEX_COUNT THEN {}
    ELSE {With(remove_free_block(h, h.blocks[l], l), h.blocks[l]) :
             l \in search_suitable_block(h, mapping_search(n))}

block_prepare_used(f, n) ==
    With(block_mark_as_used(block_trim_free(f.h, f.b, n), f.b), block_to_ptr(f.b))

-----------------------------------------------------------------------------
(* The interface. *)

control_construct ==
    [mem |-> [a \in Words |-> IF a >= block_null + 2 * Word /\ a < block_null + HeaderSize
                              THEN block_null ELSE 0],
     fl_bitmap |-> {}, sl_bitmap |-> [f \in 0 .. FL_INDEX_COUNT - 1 |-> {}],
     blocks |-> [l \in Lists |-> block_null]]

tlsf_add_pool(h) ==
    LET a == block_set_prev_used(block_set_free(
                block_set_size(h, First, align_down(PoolBytes - 2 * Word, Word)), First), First)
        i == block_link_next(block_insert(a, First), First)
        n == block_next(i, First)
    IN  block_set_prev_free(block_set_used(block_set_size(i, n, 0), n), n)

\* What malloc(n) may return: an allocation, or nothing.
Found(h, n) == {block_prepare_used(f, n) : f \in block_locate_free(h, n)}

\* The words of a block, its prev_phys_block aside, that are its user's.
UserArea(h, p) == {a \in Words : p <= a /\ a < p + block_size(h, block_from_ptr(p))}

\* The blocks tlsf_walk_pool comes to, the sentinel included.
Pool(h) ==
    LET from[b \in Words] == IF block_is_last(h, b) THEN {b} ELSE {b} \cup from[block_next(h, b)]
    IN  from[First]

\* Nobody knows what is in a free block beyond its header, nor looks at the last
\* field of block_null: the model puts one and the same word there.
Settled(h) ==
    LET free == {b \in Pool(h) : block_is_free(h, b)}
        unread == UNION {{a \in Words : a >= b + HeaderSize /\ a < block_next(h, b)} : b \in free}
    IN  [h EXCEPT !.mem = [a \in Words |-> IF a \in unread THEN UserWord
                                           ELSE IF a = block_null + 3 * Word THEN block_null
                                           ELSE h.mem[a]]]

\* kmalloc_init: tlsf_create_with_pool
Init == heap = Settled(tlsf_add_pool(control_construct)) /\ live = <<>> /\ full = 0

\* Users store what they like in all of the block, from some offset on.
Fill(h, p, from) ==
    Settled([h EXCEPT !.mem = [a \in Words |-> IF a \in UserArea(h, p) /\ a >= p + from
                                               THEN UserWord ELSE h.mem[a]]])

\* The caller gets p for n bytes.
Give(h, p, n) ==
    /\ heap' = Fill(h, p, 0)
    /\ live' = [q \in DOMAIN live \cup {p} |-> IF q = p THEN n ELSE live[q]]
    /\ full' = 0

NoMemory(n) == full' = n /\ UNCHANGED <<heap, live>>

tlsf_malloc(n) ==
    LET adjust == adjust_request_size(n, Word)
        found == Found(heap, adjust)
    IN  /\ Cardinality(DOMAIN live) < MaxLive
        /\ \/ \E f \in found : Give(f.h, f.b, n)
           \/ found = {} /\ NoMemory(adjust)

\* Where the aligned block starts: the gap before it is empty or can be a block.
AlignedGap(p, align) ==
    LET gap == align_up(p, align) - p
    IN  IF gap \in 1 .. HeaderSize - 1
        THEN align_up(align_up(p, align) + Max({HeaderSize - gap, align}), align) - p ELSE gap

tlsf_memalign(align, n) ==
    LET adjust == adjust_request_size(n, Word)
        wide == adjust_request_size(adjust + align + HeaderSize, align)
        aligned_size == IF adjust # 0 /\ align > Word THEN wide ELSE adjust
        found == block_locate_free(heap, aligned_size)
    IN  /\ Cardinality(DOMAIN live) < MaxLive
        /\ \/ \E f \in found :
                 LET gap == AlignedGap(block_to_ptr(f.b), align)
                     t == IF gap # 0 THEN block_trim_free_leading(f.h, f.b, gap) ELSE f
                     u == block_prepare_used(t, adjust)
                 IN  Give(u.h, u.b, n)
           \/ found = {} /\ NoMemory(aligned_size)

Freed(h, p) ==
    LET prev == block_merge_prev(block_mark_as_free(h, block_from_ptr(p)), block_from_ptr(p))
        next == block_merge_next(prev.h, prev.b)
    IN  block_insert(next.h, next.b)

tlsf_free(p) ==
    /\ p \in DOMAIN live
    /\ heap' = Settled(Freed(heap, p))
    /\ live' = [q \in DOMAIN live \ {p} |-> live[q]]
    /\ full' = 0

\* In place when the block, with a free one after it, is large enough, and also
\* when adjust is 0 because no block has n bytes: then the block is cut down to
\* nothing and p returned as if it had grown.
ReallocInPlace(p, n) ==
    LET b == block_from_ptr(p)
        next == block_next(heap, b)
        cursize == block_size(heap, b)
        combined == cursize + block_size(heap, next) + Word
        adjust == adjust_request_size(n, Word)
        grown == IF adjust > cursize
                 THEN block_mark_as_used(block_merge_next(heap, b).h, b) ELSE heap
    IN  /\ adjust <= cursize \/ (block_is_free(heap, next) /\ adjust <= combined)
        /\ heap' = Fill(block_trim_used(grown, b, adjust), p, live[p])
        /\ live' = [live EXCEPT ![p] = n]
        /\ full' = 0

memcpy(h, to, from, n) ==
    [h EXCEPT !.mem = [a \in Words |-> IF a \in to .. to + n - 1 THEN h.mem[from + a - to]
                                       ELSE h.mem[a]]]

\* Mutant: the old block is freed before it is copied.
FreeThenCopy(h, to, from, n) == memcpy(Freed(h, from), to, from, n)

MoveTo(h, to, from, n) == Freed(memcpy(h, to, from, n), from)

\* Otherwise malloc, memcpy, free; the old block stays if there is no memory.
ReallocMoves(p, n) ==
    LET b == block_from_ptr(p)
        next == block_next(heap, b)
        adjust == adjust_request_size(n, Word)
        found == Found(heap, adjust)
    IN  /\ adjust > block_size(heap, b)
        /\ block_is_free(heap, next) => adjust > block_size(heap, b) + block_size(heap, next) + Word
        /\ \/ \E f \in found :
                 /\ heap' = Fill(MoveTo(f.h, f.b, p, Min({block_size(heap, b), n})), f.b, live[p])
                 /\ live' = [q \in (DOMAIN live \ {p}) \cup {f.b} |-> IF q = f.b THEN n ELSE live[q]]
                 /\ full' = 0
           \/ found = {} /\ NoMemory(adjust)

\* A null pointer makes it malloc, which is tlsf_malloc(n).
tlsf_realloc(p, n) ==
    /\ p \in DOMAIN live
    /\ IF n = 0 THEN tlsf_free(p) ELSE ReallocInPlace(p, n) \/ ReallocMoves(p, n)

\* A caller was given a block for more bytes than any block has: by a realloc that
\* does not test for the adjusted size 0, or by a size that wrapped in align_up.
\* Nothing is claimed from then on, and no further call is followed.
Oversized == \E p \in DOMAIN live : live[p] >= block_size_max

Lost == Oversized /\ UNCHANGED vars

Next ==
    \/ /\ ~Oversized
       /\ \/ \E n \in Requests : tlsf_malloc(n)
          \/ \E a \in Aligns, n \in Requests : tlsf_memalign(a, n)
          \/ \E p \in DOMAIN live : tlsf_free(p) \/ \E n \in Requests : tlsf_realloc(p, n)
    \/ Lost

Spec == Init /\ [][Next]_vars

-----------------------------------------------------------------------------
(* Properties. *)

\* The blocks on the list of l.
List(h, l) ==
    LET from[b \in Words] == IF b = block_null THEN {} ELSE {b} \cup from[next_free(h, b)]
    IN  from[h.blocks[l]]

\* tlsf_check_pool: the blocks tile the pool up to the sentinel, each says of the
\* one before whether it is free, no two free ones touch, and a free block can be
\* reached from the one after it.
PoolIntact ==
    LET blocks == Pool(heap)
        last == PoolBytes - 2 * Word
    IN  /\ \A b \in blocks : b <= last /\ (block_is_last(heap, b) <=> b = last)
        /\ ~block_is_prev_free(heap, First) /\ ~block_is_free(heap, last)
        /\ \A b \in blocks \ {last} :
              LET n == block_next(heap, b)
              IN  /\ block_is_prev_free(heap, n) <=> block_is_free(heap, b)
                  /\ block_is_free(heap, b) => ~block_is_free(heap, n) /\ block_prev(heap, n) = b
                  /\ block_size(heap, b) >= block_size_min

\* tlsf_check, and the converse it does not test: a list has the free blocks of its
\* sizes, all of them, and the bitmaps say which lists have any.  A block on no
\* list would be lost for ever.
ListsIntact ==
    LET free == {b \in Pool(heap) : block_is_free(heap, b)}
    IN  \A l \in Lists :
           /\ List(heap, l) = {b \in free : mapping_insert(block_size(heap, b)) = l}
           /\ l[2] \in heap.sl_bitmap[l[1]] <=> List(heap, l) # {}
           /\ l[1] \in heap.fl_bitmap <=> heap.sl_bitmap[l[1]] # {}

\* What callers hold are the used blocks of the pool.
LiveIsUsed ==
    {block_to_ptr(b) : b \in {c \in Pool(heap) : ~block_is_free(heap, c) /\ ~block_is_last(heap, c)}}
       = DOMAIN live

\* A block has at least the size asked for, and no call stores into it: list
\* pointers, headers and back links, which all live in user memory while a block is
\* free, stay clear of it, and what a realloc leaves or moves keeps its contents
\* (the users fill only what it added).
DataKept(p) == /\ live[p] <= block_size(heap, block_from_ptr(p))
               /\ \A a \in UserArea(heap, p) : a < p + live[p] => heap.mem[a] = UserWord

\* A call fails only if no block is free that could hold the size and the
\* rounding of its list, however the memory was split and merged before.
FailsOnlyWhenFull ==
    full # 0 => \A b \in Pool(heap) : block_is_free(heap, b) =>
                   block_size(heap, b) < full + 2 ^ (fls(full) - SL_INDEX_COUNT_LOG2)

\* The pool and the lists over it describe the same blocks after every call, until
\* one succeeds for more bytes than a block can have.
HeapIntact == Oversized \/ (PoolIntact /\ ListsIntact)

\* What callers hold is theirs: large enough, and written by nobody else, also by a
\* call that succeeds for more bytes than a block can have, whose own caller is the
\* only one that loses memory by it.
HoldersSafe ==
    /\ Oversized \/ LiveIsUsed
    /\ \A p \in DOMAIN live : live[p] < block_size_max => DataKept(p)
=============================================================================

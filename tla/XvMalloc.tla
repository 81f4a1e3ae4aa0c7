------------------------------ MODULE XvMalloc ------------------------------
(***************************************************************************)
(* The user memory allocator, umalloc.c: a circular list of free blocks in  *)
(* address order, each with a header [ptr, size].  Addresses and sizes      *)
(* count in headers; `base' is address 0 and the heap lies above it.  The   *)
(* program calls malloc(), free() and, on its own account, sbrk(); sbrk()   *)
(* may fail at any call.                                                    *)
(***************************************************************************)
EXTENDS Integers, FiniteSets, FiniteSetsExt

CONSTANTS HeapStart, HeapEnd,  \* the addresses sbrk() can give
          NALLOC,              \* the least number of units morecore() asks for
          Bytes,               \* arguments of malloc()
          MaxOps               \* calls of the program (bound)

ASSUME HeapAssumption == 0 < HeapStart /\ HeapStart < HeapEnd /\ NALLOC > 0

VARIABLES heap,   \* [ptr, size: the headers in memory, freep, brk]
          used,   \* blocks the program holds: header address |-> bytes it asked for
          mine,   \* units the program got from sbrk() itself
          ops     \* calls left

heapvars == <<heap, used, mine, ops>>

Null == -1
Units == 0..(HeapEnd - 1)
HeaderSize == 8

\* free(): the free block that bp comes after.
RECURSIVE Place(_, _, _)
Place(h, bp, p) ==
  IF \/ bp > p /\ bp < h.ptr[p]
     \/ p >= h.ptr[p] /\ (bp > p \/ bp < h.ptr[p])
  THEN p ELSE Place(h, bp, h.ptr[p])

\* Mutant: a block is joined to the one above without taking over its successor.
JoinUp_KeepsPtr(h, bp, p) ==
  IF bp + h.size[bp] = h.ptr[p]
  THEN [h EXCEPT !.size[bp] = @ + h.size[h.ptr[p]], !.ptr[bp] = h.ptr[p]]
  ELSE [h EXCEPT !.ptr[bp] = h.ptr[p]]

\* free(): join the block to its upper neighbour, then to its lower one.
JoinUp(h, bp, p) ==
  IF bp + h.size[bp] = h.ptr[p]
  THEN [h EXCEPT !.size[bp] = @ + h.size[h.ptr[p]], !.ptr[bp] = h.ptr[h.ptr[p]]]
  ELSE [h EXCEPT !.ptr[bp] = h.ptr[p]]

JoinDown(h, bp, p) ==
  IF p + h.size[p] = bp
  THEN [h EXCEPT !.size[p] = @ + h.size[bp], !.ptr[p] = h.ptr[bp]]
  ELSE [h EXCEPT !.ptr[p] = bp]

FreeBlock(h, bp) ==
  LET p == Place(h, bp, h.freep)
  IN  [JoinDown(JoinUp(h, bp, p), bp, p) EXCEPT !.freep = p]

\* sbrk() as a user program sees it: kernel memory may run out.
CanGrow(h, n) == h.brk + n <= HeapEnd

\* morecore(), when its sbrk() succeeds.
MoreUnits(n) == IF n < NALLOC THEN NALLOC ELSE n
Morecore(h, n) ==
  FreeBlock([h EXCEPT !.size[h.brk] = MoreUnits(n), !.brk = @ + MoreUnits(n)], h.brk)

\* The first-fit loop of malloc(): the heap afterwards and the block, or Null.
Fits(h, prevp, p, n) ==
  LET rest == h.size[p] - n
  IN  IF rest = 0 THEN [h |-> [h EXCEPT !.ptr[prevp] = h.ptr[p], !.freep = prevp], at |-> p]
      ELSE [h |-> [h EXCEPT !.size[p] = rest, !.size[p + rest] = n, !.freep = prevp], at |-> p + rest]

RECURSIVE Search(_, _, _, _, _)
Search(h, prevp, p, n, sbrkok) ==
  IF h.size[p] >= n THEN Fits(h, prevp, p, n)
  ELSE IF p # h.freep THEN Search(h, p, h.ptr[p], n, sbrkok)
  ELSE IF ~sbrkok \/ ~CanGrow(h, MoreUnits(n)) THEN [h |-> h, at |-> Null]
  ELSE LET m == Morecore(h, n) IN Search(m, m.freep, m.ptr[m.freep], n, sbrkok)

Malloc(nbytes, sbrkok) ==
  /\ ops > 0 /\ ops' = ops - 1
  /\ LET nunits == (nbytes + HeaderSize - 1) \div HeaderSize + 1
         h == IF heap.freep = Null THEN [heap EXCEPT !.ptr[0] = 0, !.size[0] = 0, !.freep = 0] ELSE heap
         r == Search(h, h.freep, h.ptr[h.freep], nunits, sbrkok)
     IN  /\ heap' = r.h
         /\ used' = IF r.at = Null THEN used
                    ELSE [b \in DOMAIN used \cup {r.at} |-> IF b = r.at THEN nbytes ELSE used[b]]
  /\ UNCHANGED mine

\* The program frees a block it holds, once.
Free(b) ==
  /\ ops > 0 /\ ops' = ops - 1
  /\ b \in DOMAIN used
  /\ heap' = FreeBlock(heap, b)
  /\ used' = [c \in DOMAIN used \ {b} |-> used[c]]
  /\ UNCHANGED mine

\* The program grows its memory itself: malloc()'s next piece is not adjacent.
OwnSbrk ==
  /\ ops > 0 /\ ops' = ops - 1
  /\ CanGrow(heap, 1)
  /\ heap' = [heap EXCEPT !.brk = @ + 1] /\ mine' = mine \cup {heap.brk}
  /\ UNCHANGED used

HeapInit ==
  /\ heap = [ptr |-> [u \in Units |-> Null], size |-> [u \in Units |-> 0], freep |-> Null, brk |-> HeapStart]
  /\ used = [b \in {} |-> 0] /\ mine = {} /\ ops \in {0, MaxOps}

HeapNext ==
  \/ \E n \in Bytes, ok \in BOOLEAN : Malloc(n, ok)
  \/ \E b \in Units : Free(b)
  \/ OwnSbrk

----------------------------------------------------------------------------
\* The blocks on the free list: what ptr reaches from base.
RECURSIVE Reach(_, _)
Reach(S, p) == IF p \in S \/ p = Null THEN S ELSE Reach(S \cup {p}, heap.ptr[p])
FreeList == IF heap.freep = Null THEN {} ELSE Reach({}, 0)
Span(b) == b..(b + heap.size[b] - 1)

\* The units of the heap are, each exactly once, in a free block, in a block the
\* program holds or its own; the list runs through its blocks in address order and
\* back to base, with no two neighbours left unjoined; and a block is as large as
\* the program asked for.
HeapIsSound ==
  LET blocks == (FreeList \ {0}) \cup DOMAIN used
  IN  /\ UNION {Span(b) : b \in blocks} \cup mine = HeapStart..(heap.brk - 1)
      /\ FoldSet(LAMBDA b, n : n + heap.size[b], 0, blocks) + Cardinality(mine) = heap.brk - HeapStart
      /\ heap.freep # Null => heap.freep \in FreeList
      /\ \A p \in FreeList :
           LET above == {q \in FreeList : q > p}
           IN  /\ heap.ptr[p] = IF above = {} THEN 0 ELSE Min(above)
               /\ p # 0 => p + heap.size[p] \notin FreeList
      /\ \A b \in DOMAIN used : (heap.size[b] - 1) * HeaderSize >= used[b]
=============================================================================

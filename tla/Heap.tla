-------------------------------- MODULE Heap --------------------------------
(***************************************************************************)
(* The user library's allocator (ulib/umalloc.c): a circular list of free  *)
(* blocks in address order, threaded through the headers of the blocks,    *)
(* and grown with sbrk.  Addresses count headers ("units"); the static     *)
(* header `base` is unit 0, the heap starts at unit 1.  Memory is kept     *)
(* byte by byte, HSIZE bytes to the unit.  Requests are small enough for   *)
(* the size arithmetic of malloc not to wrap.                              *)
(***************************************************************************)
EXTENDS Naturals, Sequences, FiniteSets

CONSTANTS HSIZE,      \* sizeof(Header)
          NALLOC,     \* least number of units morecore asks for
          LIMIT,      \* first unit sbrk can no longer give
          Requests,   \* sizes in bytes a program asks for
          MaxHeapCalls \* calls of the program

VARIABLES heap,       \* [ptr, size |-> header fields, freep, brk, mem |-> bytes]
          live,       \* blocks the program holds: header -> expected bytes
          foreign,    \* units the program got from sbrk by itself
          hcalls

hvars == <<heap, live, foreign, hcalls>>

BASE == 0
NULL == LIMIT
Units == 0..(LIMIT - 1)
Bytes(u) == (u * HSIZE)..(u * HSIZE + HSIZE - 1)
Header == "header"
Unset == "blank"
Wrote == "wrote"
Zero == "zero"

(* storing a header overwrites the bytes of its unit                       *)
SetHeader(h, u, p, n) ==
  [h EXCEPT !.ptr[u] = p, !.size[u] = n,
            !.mem = [a \in DOMAIN @ |-> IF a \in Bytes(u) THEN Header ELSE @[a]]]

(* the n bytes of data of block b, from its second unit on                 *)
Data(h, b, n) == [i \in 1..n |-> h.mem[(b + 1) * HSIZE + i - 1]]
Fill(h, b, s) ==
  [h EXCEPT !.mem = [a \in DOMAIN @ |->
     LET i == a + 1 - (b + 1) * HSIZE IN IF a >= (b + 1) * HSIZE /\ i <= Len(s) THEN s[i] ELSE @[a]]]

-----------------------------------------------------------------------------
(* free: where bp belongs in the ring, then joining it to both neighbours  *)
RECURSIVE Place(_, _, _)
Place(h, bp, p) ==
  IF \/ bp > p /\ bp < h.ptr[p]
     \/ p >= h.ptr[p] /\ (bp > p \/ bp < h.ptr[p])
  THEN p ELSE Place(h, bp, h.ptr[p])

Touches_Never(h, lo, hi) == FALSE
Touches(h, lo, hi) == lo + h.size[lo] = hi

FreeBlock(h, bp) ==
  LET p == Place(h, bp, h.freep)
      next == h.ptr[p]
      up == IF Touches(h, bp, next)
            THEN SetHeader(h, bp, h.ptr[next], h.size[bp] + h.size[next])
            ELSE SetHeader(h, bp, next, h.size[bp])
      down == IF Touches(up, p, bp)
              THEN SetHeader(up, p, up.ptr[bp], up.size[p] + up.size[bp])
              ELSE SetHeader(up, p, bp, up.size[p])
  IN [down EXCEPT !.freep = p]

(* sbrk by n units (the kernel's side is in Vm)                            *)
CanGrow(h, n) == h.brk + n <= LIMIT
Sbrk(h, n) == [h EXCEPT !.brk = @ + n]

Enough(nu) == IF nu < NALLOC THEN NALLOC ELSE nu
Morecore(h, nu) == FreeBlock(SetHeader(Sbrk(h, Enough(nu)), h.brk, h.ptr[h.brk], Enough(nu)), h.brk)

(* malloc: first fit from the block after freep; a block that is larger    *)
(* gives its tail                                                          *)
TailOf(h, p, nu) == p + h.size[p] - nu

RECURSIVE Search(_, _, _, _)
Search(h, prevp, p, nu) ==
  IF h.size[p] = nu
  THEN <<[SetHeader(h, prevp, h.ptr[p], h.size[prevp]) EXCEPT !.freep = prevp], p>>
  ELSE IF h.size[p] > nu
  THEN LET t == TailOf(h, p, nu)
       IN <<[SetHeader(SetHeader(h, p, h.ptr[p], h.size[p] - nu), t, h.ptr[t], nu)
              EXCEPT !.freep = prevp], t>>
  ELSE IF p # h.freep THEN Search(h, p, h.ptr[p], nu)
  ELSE IF ~CanGrow(h, Enough(nu)) THEN <<h, NULL>>
  ELSE LET m == Morecore(h, nu) IN Search(m, m.freep, m.ptr[m.freep], nu)

Nunits(n) == ((n + HSIZE - 1) \div HSIZE) + 1
Started(h) == IF h.freep = NULL THEN [SetHeader(h, BASE, BASE, 0) EXCEPT !.freep = BASE] ELSE h
Malloc(h, n) == LET s == Started(h) IN Search(s, s.freep, s.ptr[s.freep], Nunits(n))

-----------------------------------------------------------------------------
HeapInit == /\ heap = [ptr |-> [u \in Units |-> BASE], size |-> [u \in Units |-> 0],
                       freep |-> NULL, brk |-> 1, mem |-> [a \in 0..(LIMIT * HSIZE - 1) |-> Unset]]
            /\ live = << >>
            /\ foreign = {}
            /\ hcalls = 0

HeapCalls == hcalls < MaxHeapCalls /\ hcalls' = hcalls + 1
Without(b) == [c \in DOMAIN live \ {b} |-> live[c]]
With(l, b, s) == [c \in DOMAIN l \cup {b} |-> IF c = b THEN s ELSE l[c]]

(* malloc and calloc: the program writes all of the block it gets from the *)
(* one, the other has filled it with zeros                                 *)
Allocate(n, byte) ==
  LET m == Malloc(heap, n)
      s == [i \in 1..n |-> byte]
  IN /\ HeapCalls
     /\ IF m[2] = NULL THEN heap' = m[1] /\ UNCHANGED live
        ELSE heap' = Fill(m[1], m[2], s) /\ live' = With(live, m[2], s)
     /\ UNCHANGED foreign
UserMalloc(n) == Allocate(n, Wrote)
UserCalloc(n) == Allocate(n, Zero)

UserFree(b) == /\ HeapCalls
               /\ heap' = FreeBlock(heap, b)
               /\ live' = Without(b)
               /\ UNCHANGED foreign

(* realloc: the old block is freed only after the new one has its bytes    *)
CopySize_Old(h, b, n) == (h.size[b] - 1) * HSIZE
CopySize(h, b, n) == LET old == (h.size[b] - 1) * HSIZE IN IF old < n THEN old ELSE n

UserRealloc(b, n) ==
  LET m == Malloc(heap, n)
      copied == Fill(m[1], m[2], Data(m[1], b, CopySize(m[1], b, n)))
      known == IF Len(live[b]) < n THEN Len(live[b]) ELSE n
  IN /\ HeapCalls
     /\ IF n = 0 THEN heap' = FreeBlock(heap, b) /\ live' = Without(b)
        ELSE IF m[2] = NULL THEN heap' = m[1] /\ UNCHANGED live
        ELSE /\ heap' = FreeBlock(copied, b)
             /\ live' = With(Without(b), m[2], SubSeq(live[b], 1, known))
     /\ UNCHANGED foreign

(* the program may grow its memory between two calls                       *)
UserSbrk == /\ HeapCalls
            /\ CanGrow(heap, 1)
            /\ heap' = Sbrk(heap, 1)
            /\ foreign' = foreign \cup {heap.brk}
            /\ UNCHANGED live

HeapNext == \/ \E n \in Requests : UserMalloc(n) \/ UserCalloc(n)
            \/ \E b \in DOMAIN live : UserFree(b) \/ \E n \in Requests : UserRealloc(b, n)
            \/ UserSbrk
HeapSpec == HeapInit /\ [][HeapNext]_hvars

-----------------------------------------------------------------------------
RECURSIVE Ring(_, _)
Ring(p, seen) == IF p \in seen THEN seen ELSE Ring(heap.ptr[p], seen \cup {p})
FreeBlocks == IF heap.freep = NULL THEN {} ELSE Ring(heap.freep, {}) \ {BASE}
Span(b) == b..(b + heap.size[b] - 1)

(* free() and malloc() keep every unit that sbrk gave in exactly one block *)
(* that is free or handed out, whatever sbrk calls lie between; the ring   *)
(* goes through the free blocks in address order and no two of them touch. *)
HeapTiled ==
  LET blocks == FreeBlocks \cup DOMAIN live
  IN /\ FreeBlocks \cap DOMAIN live = {}
     /\ \A b, c \in blocks : b # c => Span(b) \cap Span(c) = {}
     /\ UNION {Span(b) : b \in blocks} = (1..(heap.brk - 1)) \ foreign
     /\ \A b, c \in FreeBlocks : b + heap.size[b] # c
     /\ Cardinality({b \in FreeBlocks \cup {BASE} : heap.freep # NULL /\ heap.ptr[b] <= b}) <= 1

(* What a program wrote in a block stays there until it frees the block,   *)
(* through every later malloc, free and growth; calloc's block starts as   *)
(* zeros, and realloc moves the bytes that fit.                            *)
BlocksKeepData == \A b \in DOMAIN live : Data(heap, b, Len(live[b])) = live[b]
=============================================================================

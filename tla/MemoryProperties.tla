-------------------------- MODULE MemoryProperties --------------------------
(***************************************************************************)
(* What users of palloc.c and malloc.c rely on.                            *)
(***************************************************************************)
EXTENDS Memory

\* The memory programs have, by address.
Own(t) == UNION {Extent(b.ptr, b.size) : b \in held[t]}

\* Nobody else writes into memory a program has: neither the program that got its
\* block last, nor the allocator with its headers, 0xcc and zeros.  It lies in pages
\* whose bit is set.
ContentsKept ==
    \A t \in Thread : \A x \in Own(t) : mem[x] = Data(t) /\ pg_no(x) \in used_map

\* Whatever a call returns is as large as was asked for, in the pool asked for, in
\* nobody's hands, and holds what is promised: zeros from PAL_ZERO and calloc, and from
\* realloc as much of the old block as fits.
CallerServed ==
    \A t \in Thread : pc[t] = "return" /\ f(t).ptr # NULL =>
        LET r    == f(t).req
            mine == Extent(f(t).ptr, Promised(t))
            kept == IF r.op # "realloc" THEN 0 ELSE IF r.a < f(t).old.size THEN r.a ELSE f(t).old.size
        IN  /\ \A x \in mine : x \in DOMAIN mem /\ pg_no(x) \in PoolPages(PoolOf(t)) \cap used_map
            /\ \A u \in Thread : mine \cap Own(u) = {}
            /\ \A x \in mine : mem[x].kind # "arena"
            /\ \A d \in Desc : \A i \in DOMAIN free_list[d] : free_list[d][i] \notin mine
            /\ \A x \in Extent(f(t).ptr, kept) : mem[x] = Data(t)
            /\ r.op = "calloc" \/ (r.op = "page" /\ r.zero) => \A x \in mine : mem[x] = Zero

\* The arenas of descriptor d.
Arenas(d) == {n \in Pages : mem[page_ptr(n)].kind = "arena" /\ mem[page_ptr(n)].desc = d}

\* The assertions of free and of palloc_free_multiple: the arena is one, it has not
\* more free blocks than blocks, and all pages that are freed are in use.
AssertionsHold ==
    \A t \in Thread :
        /\ pc[t] = "free" => mem[Header(f(t).gone)].kind = "arena"
        /\ pc[t] = "free lock" => /\ mem[Header(f(t).gone)].kind = "arena"
                                 /\ mem[Header(f(t).gone)].free_cnt < blocks_per_arena(f(t).desc)
        /\ pc[t] = "fill" => Extent(pg_no(f(t).gone), f(t).cnt) \subseteq used_map

\* While nobody has the lock of a descriptor its books are right: an arena counts its
\* blocks in the free list, each once, has one in use, and is a page whose bit is set;
\* and the list has nothing but blocks of arenas.  free_cnt is what decides when the
\* page is given back.
BooksRight ==
    /\ AssertionsHold
    /\ \A d \in Desc : desc_lock[d] = Nobody =>
          /\ \A i \in DOMAIN free_list[d] : pg_no(free_list[d][i]) \in Arenas(d)
          /\ \A i, j \in DOMAIN free_list[d] : i # j => free_list[d][i] # free_list[d][j]
          /\ \A n \in Arenas(d) :
              /\ mem[page_ptr(n)].free_cnt =
                    Cardinality({i \in DOMAIN free_list[d] : pg_no(free_list[d][i]) = n})
              /\ mem[page_ptr(n)].free_cnt < blocks_per_arena(d)
              /\ n \in used_map

\* No page is lost: when no call is in progress, the bits that are set are those of
\* the pages with something in them that a program has.
NoPageLost ==
    (\A t \in Thread : pc[t] = "program") =>
        used_map = {pg_no(x) : x \in UNION {Own(t) : t \in Thread}}
=============================================================================

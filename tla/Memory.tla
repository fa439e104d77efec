------------------------------- MODULE Memory -------------------------------
(***************************************************************************)
(* The page allocator (threads/palloc.c) over its bitmaps, and the block   *)
(* allocator (threads/malloc.c) on top of it, used by several threads.     *)
(*                                                                         *)
(* Memory is a function from addresses to the thing written there last, in *)
(* units that scale PGSIZE, sizeof (struct arena) and the block sizes      *)
(* down.  Pages are numbered from 1, so that address 0 is the null         *)
(* pointer.  Pages are obtained under the lock of their pool but given     *)
(* back without it, bit by bit; the steps below are cut wherever that can  *)
(* be noticed.                                                             *)
(***************************************************************************)
EXTENDS Integers, Sequences, FiniteSets

Seqs == INSTANCE SequencesExt

CONSTANTS Thread, Nobody,
          KernelPages, UserPages,   \* pages in the two pools
          PGSIZE,                   \* units in a page
          ArenaSize,                \* sizeof (struct arena)
          MinBlock,                 \* block size of the first descriptor (16)
          SizeMod,                  \* size_t is counted modulo this
          Requests,                 \* Requests[t]: what the program of t may ask for
          MaxHeld                   \* bound: blocks the program of t has at a time

NULL  == 0
Pages == 1..(KernelPages + UserPages)
Pool  == {"kernel", "user"}
PoolPages(p) == IF p = "kernel" THEN 1..KernelPages ELSE Pages \ (1..KernelPages)

\* A request: op is "page", "malloc", "calloc", "realloc" or "free"; a and b are its
\* numbers (pages, bytes, or bytes and factor), pool and zero the flags of palloc.
ASSUME MemoryAssumption ==
    /\ Nobody \notin Thread
    /\ {KernelPages, PGSIZE, ArenaSize, MinBlock, SizeMod} \subseteq Nat \ {0}
    /\ UserPages \in Nat /\ MaxHeld \in [Thread -> Nat]
    /\ 2 * ArenaSize <= PGSIZE
    /\ \A t \in Thread : \A r \in Requests[t] :
          /\ r.op \in {"page", "malloc", "calloc", "realloc", "free"}
          /\ r.a \in Nat /\ r.b \in Nat /\ r.pool \in Pool /\ r.zero \in BOOLEAN

\* malloc_init: block sizes double as long as two blocks fit in a page.
BlockSize(d) == MinBlock * 2^(d - 1)
Desc == {d \in 1..10 : BlockSize(d) < PGSIZE \div 2}
blocks_per_arena(d) == (PGSIZE - ArenaSize) \div BlockSize(d)

page_ptr(n)   == n * PGSIZE
pg_no(p)      == p \div PGSIZE
pg_ofs(p)     == p % PGSIZE
DIV_ROUND_UP(x) == ((x + PGSIZE - 1) % SizeMod) \div PGSIZE

\* What a unit of memory holds.
Junk         == [kind |-> "junk"]
CC           == [kind |-> "0xcc"]
Zero         == [kind |-> "zero"]
Data(t)      == [kind |-> "data", by |-> t]
Arena(d, n)  == [kind |-> "arena", desc |-> d, free_cnt |-> n]     \* desc 0: null

Extent(p, n)  == p..(p + n - 1)

VARIABLES
    used_map,   \* the pages whose bit is set
    pool_lock,  \* holder of each pool's lock
    desc_lock,  \* holder of each descriptor's lock
    free_list,  \* free_list[d] of each descriptor
    mem,        \* contents of memory
    held,       \* held[t]: blocks its program has
    pc,         \* where each thread is
    frame       \* local variables of the calls it is in

vars == <<used_map, pool_lock, desc_lock, free_list, mem, held, pc, frame>>
palloc == <<used_map, pool_lock>>
blocks == <<desc_lock, free_list>>

Init ==
    /\ used_map = {}
    /\ pool_lock = [p \in Pool |-> Nobody]
    /\ desc_lock = [d \in Desc |-> Nobody]
    /\ free_list = [d \in Desc |-> <<>>]
    /\ mem = [x \in page_ptr(1)..(page_ptr(KernelPages + UserPages + 1) - 1) |-> Junk]
    /\ held = [t \in Thread |-> {}]
    /\ pc = [t \in Thread |-> "program"]
    /\ frame = [t \in Thread |-> <<>>]

Filled(p, n, v) == [x \in DOMAIN mem |-> IF x \in Extent(p, n) THEN v ELSE mem[x]]
Goto(t, place)  == pc' = [pc EXCEPT ![t] = place]
At(t, place)    == pc[t] = place
f(t)            == frame[t]

-----------------------------------------------------------------------------
(* The program                                                             *)

\* DIV_ROUND_UP and the sum wrap around, and so does the product in calloc.
Size(r) == IF r.op = "calloc" THEN (r.a * r.b) % SizeMod ELSE r.a
Suitable(n) == {d \in Desc : BlockSize(d) >= n}

\* Calls that return at once: nothing is asked for, or calloc sees an overflow.
NothingToDo(r) ==
    \/ Size(r) = 0 /\ r.op # "realloc"
    \/ r.op = "calloc" /\ (Size(r) < r.a \/ Size(r) < r.b)

\* A thread asks for memory; old is the block it passes to realloc.
Ask(t, r, old) ==
    LET small == Suitable(Size(r))
        big   == r.op # "page" /\ small = {}
    IN  /\ At(t, "program") /\ r \in Requests[t] /\ r.op # "free"
        /\ IF r.op = "realloc" THEN old \in held[t] /\ ~old.paged ELSE old = Nobody
        /\ Cardinality(held[t]) < MaxHeld[t] + (IF r.op = "realloc" THEN 1 ELSE 0)
        /\ ~NothingToDo(r) /\ r.a # 0
        /\ frame' = [frame EXCEPT ![t] =
              [req |-> r, old |-> old, ptr |-> NULL, gone |-> NULL, first |-> 0, bit |-> 0,
               desc |-> IF r.op = "page" \/ big THEN 0
                        ELSE CHOOSE d \in small : \A e \in small : d <= e,
               cnt |-> CASE r.op = "page" -> r.a
                         [] big -> DIV_ROUND_UP((Size(r) + ArenaSize) % SizeMod)
                         [] OTHER -> 1]]
        /\ Goto(t, IF r.op = "page" \/ big THEN "get" ELSE "malloc")
        /\ UNCHANGED <<palloc, blocks, mem, held>>

\* A thread gives block b back: with palloc_free_multiple what it got as pages,
\* otherwise with free, or realloc with size 0.
GiveBack(t, b) ==
    /\ At(t, "program") /\ b \in held[t]
    /\ \E r \in Requests[t] : r.op = "free" \/ (r.op = "realloc" /\ r.a = 0 /\ ~b.paged)
    /\ held' = [held EXCEPT ![t] = @ \ {b}]
    /\ frame' = [frame EXCEPT ![t] = [req |-> [op |-> "free"], ptr |-> NULL, gone |-> b.ptr,
                                      desc |-> 0, cnt |-> b.size \div PGSIZE, bit |-> 0]]
    /\ Goto(t, IF b.paged THEN "fill" ELSE "free")
    /\ UNCHANGED <<palloc, blocks, mem>>

\* What a program is promised by the call that returns: the size in units, and what
\* it finds there.  It then writes its own data.
Promised(t) == LET r == f(t).req
               IN  IF r.op = "page" THEN r.a * PGSIZE
                   ELSE IF r.op = "calloc" THEN r.a * r.b ELSE r.a

Receive(t) ==
    /\ At(t, "return")
    /\ IF f(t).ptr = NULL THEN UNCHANGED <<held, mem>>
       ELSE /\ mem' = Filled(f(t).ptr, Promised(t), Data(t))
            /\ held' = [held EXCEPT ![t] = @ \cup {[ptr |-> f(t).ptr, size |-> Promised(t),
                                                    paged |-> f(t).req.op = "page"]}]
    /\ Goto(t, "program")
    /\ frame' = [frame EXCEPT ![t] = <<>>]
    /\ UNCHANGED <<palloc, blocks>>

-----------------------------------------------------------------------------
(* palloc_get_multiple                                                     *)

\* malloc and calloc take pages from the kernel pool.
PoolOf(t) == IF f(t).req.op = "page" THEN f(t).req.pool ELSE "kernel"
First(p)  == IF p = "kernel" THEN 1 ELSE KernelPages + 1
Last(p)   == First(p) + Cardinality(PoolPages(p)) - 1

\* Mutant: the pool's lock is not waited for.
GetLock_NoLock(t) ==
    /\ At(t, "get")
    /\ frame' = [frame EXCEPT ![t].first = First(PoolOf(t)), ![t].bit = 0]
    /\ Goto(t, IF f(t).cnt = 0 THEN "got none" ELSE "scan")
    /\ UNCHANGED <<palloc, blocks, mem, held>>

GetLock(t) ==
    LET p == PoolOf(t)
    IN  /\ At(t, "get")
        /\ IF f(t).cnt = 0 THEN Goto(t, "got none") /\ UNCHANGED pool_lock
           ELSE /\ pool_lock[p] = Nobody
                /\ pool_lock' = [pool_lock EXCEPT ![p] = t]
                /\ Goto(t, "scan")
        /\ frame' = [frame EXCEPT ![t].first = First(p), ![t].bit = 0]
        /\ UNCHANGED <<used_map, blocks, mem, held>>

\* bitmap_scan tests one bit, of the group that begins at first.  If there is no
\* group left the lock is released.
Scan(t) ==
    LET first == f(t).first
        bit   == f(t).bit
    IN  /\ At(t, "scan")
        /\ IF first + f(t).cnt - 1 > Last(PoolOf(t))
           THEN /\ Goto(t, "got none") /\ UNCHANGED frame
                /\ pool_lock' = [pool_lock EXCEPT ![PoolOf(t)] = Nobody]
           ELSE /\ frame' = [frame EXCEPT
                      ![t].first = IF first + bit \in used_map THEN first + 1 ELSE first,
                      ![t].bit = IF first + bit \in used_map \/ bit + 1 = f(t).cnt THEN 0 ELSE bit + 1]
                /\ Goto(t, IF first + bit \notin used_map /\ bit + 1 = f(t).cnt THEN "flip" ELSE "scan")
                /\ UNCHANGED pool_lock
        /\ UNCHANGED <<used_map, blocks, mem, held>>

\* bitmap_set_multiple sets one bit; after the last one the lock is released.
Flip(t) ==
    LET last == f(t).bit + 1 = f(t).cnt
    IN  /\ At(t, "flip")
        /\ used_map' = used_map \cup {f(t).first + f(t).bit}
        /\ frame' = [frame EXCEPT ![t].bit = @ + 1, ![t].ptr = IF last THEN page_ptr(f(t).first) ELSE NULL]
        /\ IF last THEN Goto(t, "got") /\ pool_lock' = [pool_lock EXCEPT ![PoolOf(t)] = Nobody]
           ELSE UNCHANGED <<pc, pool_lock>>
        /\ UNCHANGED <<blocks, mem, held>>

\* PAL_ZERO, and the caller goes on: the program, or malloc for a big block or for
\* a new arena.
Got(t) ==
    LET r == f(t).req
        p == f(t).ptr
        d == f(t).desc
    IN  /\ At(t, "got")
        /\ CASE r.op = "page" ->
                  /\ mem' = IF r.zero THEN Filled(p, PGSIZE * f(t).cnt, Zero) ELSE mem
                  /\ Goto(t, "return") /\ UNCHANGED <<frame, free_list>>
             [] r.op # "page" /\ d = 0 ->
                  /\ mem' = Filled(p, 1, Arena(0, f(t).cnt))
                  /\ frame' = [frame EXCEPT ![t].ptr = p + ArenaSize]
                  /\ Goto(t, "malloced") /\ UNCHANGED free_list
             [] OTHER ->
                  /\ mem' = Filled(p, 1, Arena(d, blocks_per_arena(d)))
                  /\ free_list' = [free_list EXCEPT ![d] = @ \o
                        [i \in 1..blocks_per_arena(d) |-> p + ArenaSize + (i - 1) * BlockSize(d)]]
                  /\ Goto(t, "pop") /\ UNCHANGED frame
        /\ UNCHANGED <<palloc, desc_lock, held>>

GotNone(t) ==
    /\ At(t, "got none")
    /\ desc_lock' = [d \in Desc |-> IF d = f(t).desc THEN Nobody ELSE desc_lock[d]]
    /\ Goto(t, "return")
    /\ UNCHANGED <<palloc, free_list, mem, held, frame>>

-----------------------------------------------------------------------------
(* palloc_free_multiple: no lock is taken                                  *)

\* The pages are overwritten first.
FreeFill(t) ==
    /\ At(t, "fill")
    /\ mem' = Filled(f(t).gone, PGSIZE * f(t).cnt, CC)
    /\ Goto(t, "clear")
    /\ UNCHANGED <<palloc, blocks, held, frame>>

\* Mutant: only the first page's bit is cleared.
FreeClear_One(t) ==
    /\ At(t, "clear")
    /\ used_map' = used_map \ {pg_no(f(t).gone)}
    /\ Goto(t, "freed")
    /\ UNCHANGED <<pool_lock, blocks, mem, held, frame>>

\* bitmap_set_multiple clears one bit.
FreeClear(t) ==
    /\ At(t, "clear")
    /\ used_map' = used_map \ {pg_no(f(t).gone) + f(t).bit}
    /\ frame' = [frame EXCEPT ![t].bit = @ + 1]
    /\ Goto(t, IF f(t).bit + 1 < f(t).cnt THEN "clear" ELSE "freed")
    /\ UNCHANGED <<pool_lock, blocks, mem, held>>

-----------------------------------------------------------------------------
(* malloc, calloc, realloc                                                 *)

\* The lock of the descriptor; a new arena if its list is empty.
Malloc(t) ==
    LET d == f(t).desc
    IN  /\ At(t, "malloc")
        /\ desc_lock[d] = Nobody
        /\ desc_lock' = [desc_lock EXCEPT ![d] = t]
        /\ Goto(t, IF free_list[d] = <<>> THEN "get" ELSE "pop")
        /\ UNCHANGED <<palloc, free_list, mem, held, frame>>

Header(p) == page_ptr(pg_no(p))      \* block_to_arena

Pop(t) ==
    LET d == f(t).desc
        b == Head(free_list[d])
    IN  /\ At(t, "pop")
        /\ free_list' = [free_list EXCEPT ![d] = Tail(@)]
        /\ mem' = [mem EXCEPT ![Header(b)].free_cnt = @ - 1]
        /\ desc_lock' = [desc_lock EXCEPT ![d] = Nobody]
        /\ frame' = [frame EXCEPT ![t].ptr = b]
        /\ Goto(t, "malloced")
        /\ UNCHANGED <<palloc, held>>

block_size(p) == LET a == mem[Header(p)]
                 IN  IF a.desc # 0 THEN BlockSize(a.desc) ELSE PGSIZE * a.free_cnt - pg_ofs(p)

\* Mutant: the old block is given back unread.
Malloced_NoCopy(t) ==
    /\ At(t, "malloced")
    /\ Goto(t, IF f(t).req.op = "realloc" THEN "free" ELSE "return")
    /\ IF f(t).req.op = "realloc"
       THEN /\ held' = [held EXCEPT ![t] = @ \ {f(t).old}]
            /\ frame' = [frame EXCEPT ![t].gone = f(t).old.ptr, ![t].bit = 0]
       ELSE UNCHANGED <<held, frame>>
    /\ UNCHANGED <<palloc, blocks, mem>>

\* malloc has a block: calloc clears it, realloc copies into it and frees the old one.
Malloced(t) ==
    LET r == f(t).req
        p == f(t).ptr
        old == f(t).old
    IN  /\ At(t, "malloced")
        /\ CASE r.op = "calloc" ->
                  mem' = Filled(p, Size(r), Zero) /\ Goto(t, "return") /\ UNCHANGED <<held, frame>>
             [] r.op = "malloc" -> Goto(t, "return") /\ UNCHANGED <<mem, held, frame>>
             [] r.op = "realloc" ->
                  LET n == IF r.a < block_size(old.ptr) THEN r.a ELSE block_size(old.ptr)
                  IN  /\ mem' = [x \in DOMAIN mem |->
                                   IF x \in Extent(p, n) THEN mem[old.ptr + (x - p)] ELSE mem[x]]
                      /\ held' = [held EXCEPT ![t] = @ \ {old}]
                      /\ frame' = [frame EXCEPT ![t].gone = old.ptr, ![t].bit = 0]
                      /\ Goto(t, "free")
        /\ UNCHANGED <<palloc, blocks>>

-----------------------------------------------------------------------------
(* free                                                                    *)

\* A block is overwritten before the lock is taken; a big block is its pages.
Free(t) ==
    LET p == f(t).gone
        a == mem[Header(p)]
    IN  /\ At(t, "free")
        /\ frame' = [frame EXCEPT ![t].desc = a.desc, ![t].cnt = IF a.desc = 0 THEN a.free_cnt ELSE 1,
                                  ![t].gone = IF a.desc = 0 THEN Header(p) ELSE p]
        /\ mem' = IF a.desc = 0 THEN mem ELSE Filled(p, BlockSize(a.desc), CC)
        /\ Goto(t, IF a.desc = 0 THEN "fill" ELSE "free lock")
        /\ UNCHANGED <<palloc, blocks, held>>

\* With the lock: the block goes to the front of the list, and is counted.
FreeLock(t) ==
    LET d == f(t).desc
        p == f(t).gone
        n == mem[Header(p)].free_cnt + 1
    IN  /\ At(t, "free lock") /\ desc_lock[d] = Nobody
        /\ desc_lock' = [desc_lock EXCEPT ![d] = IF n >= blocks_per_arena(d) THEN t ELSE Nobody]
        /\ mem' = [mem EXCEPT ![Header(p)] = Arena(d, n)]
        /\ free_list' = [free_list EXCEPT ![d] = <<p>> \o @]
        /\ frame' = [frame EXCEPT ![t].gone = Header(p)]
        /\ Goto(t, IF n >= blocks_per_arena(d) THEN "unlist" ELSE "return")
        /\ UNCHANGED <<palloc, held>>

list_remove(s, b) == Seqs!RemoveAt(s, CHOOSE i \in DOMAIN s : s[i] = b)

\* Mutant: the blocks of an unused arena stay in the free list.
FreeUnlist_Keeps(t) ==
    /\ At(t, "unlist")
    /\ Goto(t, "fill")
    /\ UNCHANGED <<palloc, blocks, mem, held, frame>>

\* An arena with no block in use any more: its blocks leave the list one by one, then
\* the page is given back.
FreeUnlist(t) ==
    LET d == f(t).desc
        last == f(t).bit + 1 = blocks_per_arena(d)
    IN  /\ At(t, "unlist")
        /\ free_list' = [free_list EXCEPT ![d] =
              list_remove(@, f(t).gone + ArenaSize + f(t).bit * BlockSize(d))]
        /\ frame' = [frame EXCEPT ![t].bit = IF last THEN 0 ELSE @ + 1]
        /\ Goto(t, IF last THEN "fill" ELSE "unlist")
        /\ UNCHANGED <<palloc, desc_lock, mem, held>>

\* The page of the arena is free, and the lock released.
FreeUnlock(t) ==
    /\ At(t, "freed")
    /\ desc_lock' = [d \in Desc |-> IF d = f(t).desc THEN Nobody ELSE desc_lock[d]]
    /\ Goto(t, "return")
    /\ UNCHANGED <<palloc, free_list, mem, held, frame>>

-----------------------------------------------------------------------------
Next == \E t \in Thread :
    \/ \E r \in Requests[t], old \in held[t] \cup {Nobody} : Ask(t, r, old)
    \/ \E b \in held[t] : GiveBack(t, b)
    \/ GetLock(t) \/ Scan(t) \/ Flip(t) \/ Got(t) \/ GotNone(t)
    \/ FreeFill(t) \/ FreeClear(t)
    \/ Malloc(t) \/ Pop(t) \/ Malloced(t)
    \/ Free(t) \/ FreeLock(t) \/ FreeUnlist(t) \/ FreeUnlock(t) \/ Receive(t)

Spec == Init /\ [][Next]_vars
=============================================================================

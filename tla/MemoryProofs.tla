---------------------------- MODULE MemoryProofs ----------------------------
(***************************************************************************)
(* What users of the page and the block allocator rely on, for any number  *)
(* of threads, any sizes and whatever they ask for.                        *)
(*                                                                         *)
(* The invariant says that every page and every block of an arena belongs  *)
(* to one thing: P[n] is whose page n is and B[a] whose the block at a is. *)
(* Nothing in the code records that, so the invariant says that there are  *)
(* such P and B, and a step of the proof says what becomes of them.        *)
(***************************************************************************)
EXTENDS MemoryProperties, FiniteSetTheorems, FunctionTheorems, SequenceTheorems, WellFoundedInduction, TLAPS

-----------------------------------------------------------------------------
(* Whose a page or a block is.                                             *)

None     == <<"none", 0, 0>>       \* a free page; not a block
Listed   == <<"listed", 0, 0>>     \* a block in the free list
Of(d)    == <<"arena", d, 0>>      \* a page of blocks of descriptor d
Has(t, b) == <<"has", t, b>>       \* what the program of t has as b
New(t)   == <<"new", t, 0>>        \* what a call of t has got so far
Gone(t)  == <<"gone", t, 0>>       \* what a call of t is giving back

Addr == page_ptr(1)..(page_ptr(KernelPages + UserPages + 1) - 1)
BlockAt(n, d, i) == page_ptr(n) + ArenaSize + i * BlockSize(d)
Blocks(n, d) == {BlockAt(n, d, i) : i \in 0..(blocks_per_arena(d) - 1)}

NoPage(P, g)  == \A n \in Pages : P[n] # g
NoBlock(B, g) == \A a \in Addr : B[a] # g
Nothing(P, B, g) == NoPage(P, g) /\ NoBlock(B, g)

\* Exactly k pages from n on.
PagesAre(P, B, g, n, k) ==
    /\ n \in Pages /\ k \in Nat /\ n + k - 1 <= KernelPages + UserPages
    /\ \A j \in Pages : P[j] = g <=> n <= j /\ j < n + k
    /\ NoBlock(B, g)

\* No header of an arena in them, but for the one at address h.
Clean(P, m, g, h) == \A x \in Addr : P[pg_no(x)] = g /\ x # h => m[x].kind # "arena"

\* The extent at p of k pages, of a big block with room for s, of a block with room for s.
Paged(P, B, m, g, p, k) ==
    /\ k > 0 /\ p = page_ptr(pg_no(p)) /\ PagesAre(P, B, g, pg_no(p), k) /\ Clean(P, m, g, NULL)

Big(P, B, m, g, p, s) ==
    LET n == pg_no(p)
        k == m[page_ptr(n)].free_cnt
    IN  /\ p = page_ptr(n) + ArenaSize /\ PagesAre(P, B, g, n, k)
        /\ m[page_ptr(n)] = Arena(0, k) /\ Clean(P, m, g, page_ptr(n))
        /\ ArenaSize + s <= k * PGSIZE /\ k * PGSIZE < ArenaSize + s + PGSIZE

Small(P, B, d, g, p, s) ==
    /\ d \in Desc /\ pg_no(p) \in Pages /\ P[pg_no(p)] = Of(d) /\ p \in Blocks(pg_no(p), d)
    /\ NoPage(P, g) /\ \A a \in Addr : B[a] = g <=> a = p
    /\ s <= BlockSize(d)

Block(P, B, m, g, p, s) == Big(P, B, m, g, p, s) \/ \E d \in Desc : Small(P, B, d, g, p, s)

\* g is what a caller was given: b tells where, how much, and how.
Given(P, B, m, g, p, s, paged) ==
    /\ p \in Nat /\ s \in Nat /\ s > 0
    /\ IF paged THEN \E k \in Nat : s = k * PGSIZE /\ Paged(P, B, m, g, p, k)
       ELSE Block(P, B, m, g, p, s)

-----------------------------------------------------------------------------
(* The invariant.                                                          *)

Asks     == {"malloc", "get", "scan", "flip", "got", "got none", "pop", "malloced"}
Frees    == {"free", "free lock", "unlist", "fill", "clear", "freed"}
Arranges == {"get", "scan", "flip", "got", "got none", "pop"}
Releases == {"unlist", "fill", "clear", "freed"}

BlockRecord == [ptr : Nat, size : Nat, paged : BOOLEAN]
AskFrame(t) == [req : Requests[t], old : BlockRecord \cup {Nobody}, ptr : Nat, gone : Nat, first : Nat,
                bit : Nat, desc : Nat, cnt : Nat]
FreeFrame   == [req : {[op |-> "free"]}, ptr : {NULL}, gone : Nat, desc : Nat, cnt : Nat, bit : Nat]

\* What the call of frame r promises, and from which pool.
Promise(r) == IF r.req.op = "page" THEN r.req.a * PGSIZE
              ELSE IF r.req.op = "calloc" THEN r.req.a * r.req.b ELSE r.req.a
From(r)    == IF r.req.op = "page" THEN r.req.pool ELSE "kernel"
Kept(r)    == IF r.req.a < r.old.size THEN r.req.a ELSE r.old.size

FrameOK(t, c, r) ==
    /\ c \in {"program", "return"} \cup Asks \cup Frees
    /\ c = "program" => r = <<>>
    /\ c \in Asks => r \in AskFrame(t)
    /\ c # "program" => r \in AskFrame(t) \cup FreeFrame
    /\ c \in Frees /\ r \in AskFrame(t) => r.req.op = "realloc" /\ r.ptr # NULL
    /\ r \in AskFrame(t) => /\ r.req.op \in {"page", "malloc", "calloc", "realloc"}
                            /\ r.req.a > 0 /\ Promise(r) \in Nat /\ Promise(r) > 0
                            /\ r.req.op = "calloc" => Size(r.req) = Promise(r)
                            /\ r.req.op = "realloc" => r.old \in BlockRecord

\* What a frame asks for while the call looks for it.
AskOK(c, r) ==
    c \in Asks =>
        /\ r.cnt > 0 /\ r.desc \in Desc \cup {0}
        /\ r.req.op = "page" => r.desc = 0 /\ r.cnt = r.req.a
        /\ r.req.op # "page" /\ r.desc = 0 =>
              ArenaSize + Promise(r) <= r.cnt * PGSIZE /\ r.cnt * PGSIZE < ArenaSize + Promise(r) + PGSIZE
        /\ r.desc # 0 => Promise(r) <= BlockSize(r.desc) /\ r.cnt = 1
        /\ c \in {"malloc", "pop"} => r.desc # 0
        /\ c \notin {"got", "pop", "malloced"} => r.ptr = NULL
        /\ c = "malloced" => r.req.op # "page" /\ r.ptr # NULL

\* Locks and what they protect.
LockOK(t, c, r, used, pl, dl, fl) ==
    /\ c \in Arranges \cup Releases /\ r.desc # 0 => r.desc \in Desc /\ dl[r.desc] = t
    /\ c \in Arranges \ {"pop"} /\ r.desc # 0 => fl[r.desc] = <<>>
    /\ c = "pop" => fl[r.desc] # <<>>
    /\ c \in {"scan", "flip"} =>
          /\ pl[From(r)] = t /\ First(From(r)) <= r.first /\ r.bit < r.cnt
    /\ c = "scan" => \A i \in 0..(r.bit - 1) : r.first + i \in PoolPages(From(r)) \ used
    /\ c = "flip" => /\ \A i \in 0..(r.cnt - 1) : r.first + i \in PoolPages(From(r))
                     /\ \A i \in r.bit..(r.cnt - 1) : r.first + i \notin used

\* What a call has got.
NewOK(t, c, r, P, B, m) ==
    /\ c \in {"program", "malloc", "get", "scan", "got none", "pop"} => Nothing(P, B, New(t))
    /\ c \in {"return"} \cup Frees /\ r.ptr = NULL => Nothing(P, B, New(t))
    /\ c = "flip" => PagesAre(P, B, New(t), r.first, r.bit) /\ Clean(P, m, New(t), NULL)
    /\ c = "got" => Paged(P, B, m, New(t), r.ptr, r.cnt)
    /\ c \in {"malloced", "return"} \cup Frees /\ r.ptr # NULL =>
          Given(P, B, m, New(t), r.ptr, Promise(r), r.req.op = "page")
    /\ c # "program" /\ r.req.op # "free" =>
          \A n \in Pages : P[n] = New(t) => n \in PoolPages(From(r))

\* What it is giving back.
GoneOK(t, c, r, P, B, m) ==
    /\ c \in {"program", "freed", "return"} \cup Asks => Nothing(P, B, Gone(t))
    /\ c = "free" => \E s \in Nat : Block(P, B, m, Gone(t), r.gone, s)
    /\ c = "free lock" => Small(P, B, r.desc, Gone(t), r.gone, 0)
    /\ c = "unlist" =>
          LET n == pg_no(r.gone)
          IN  /\ r.desc \in Desc /\ n \in Pages /\ r.gone = page_ptr(n) /\ P[n] = Of(r.desc)
              /\ NoPage(P, Gone(t)) /\ r.bit < blocks_per_arena(r.desc)
              /\ \A a \in Addr : B[a] = Gone(t) <=> \E i \in 0..(r.bit - 1) : a = BlockAt(n, r.desc, i)
              /\ \A i \in r.bit..(blocks_per_arena(r.desc) - 1) : B[BlockAt(n, r.desc, i)] = Listed
    /\ c \in {"free", "free lock", "fill"} => r.bit = 0
    /\ c \in {"free lock", "unlist", "fill"} /\ r.desc # 0 => r.cnt = 1
    /\ c = "fill" =>
          /\ r.cnt > 0 /\ r.gone = page_ptr(pg_no(r.gone)) /\ PagesAre(P, B, Gone(t), pg_no(r.gone), r.cnt)
          /\ \A x \in Addr : P[pg_no(x)] = Gone(t) /\ m[x].kind = "arena" => m[x].desc = r.desc
    /\ c = "clear" =>
          /\ r.bit < r.cnt /\ r.gone = page_ptr(pg_no(r.gone))
          /\ PagesAre(P, B, Gone(t), pg_no(r.gone) + r.bit, r.cnt - r.bit)
          /\ Clean(P, m, Gone(t), NULL)

\* What it has written for its caller.
ContentOK(t, c, r, m) ==
    /\ c \in {"return"} \cup Frees /\ r.ptr # NULL /\ r.req.op = "realloc" =>
          \A x \in Extent(r.ptr, Kept(r)) : m[x] = Data(t)
    /\ c = "return" /\ r.ptr # NULL /\ (r.req.op = "calloc" \/ (r.req.op = "page" /\ r.req.zero)) =>
          \A x \in Extent(r.ptr, Promise(r)) : m[x] = Zero

\* What a program has.
HeldOK(t, c, r, h, P, B, m) ==
    /\ \A b \in h :
          /\ b \in BlockRecord
          /\ Given(P, B, m, Has(t, b), b.ptr, b.size, b.paged)
          /\ \A x \in Extent(b.ptr, b.size) : m[x] = Data(t)
    /\ c \in Asks /\ r.req.op = "realloc" => r.old \in h /\ ~r.old.paged

ThreadOK(t, c, r, h, P, B, m, used, pl, dl, fl) ==
    /\ FrameOK(t, c, r) /\ AskOK(c, r) /\ LockOK(t, c, r, used, pl, dl, fl)
    /\ NewOK(t, c, r, P, B, m) /\ GoneOK(t, c, r, P, B, m) /\ ContentOK(t, c, r, m)
    /\ HeldOK(t, c, r, h, P, B, m)

\* Everything belongs to something.
Tag(h, g) == \E t \in Thread : g = New(t) \/ g = Gone(t) \/ \E b \in h[t] : g = Has(t, b)

Mapped(P, B, used, h) ==
    /\ P = [n \in Pages |-> P[n]] /\ B = [a \in Addr |-> B[a]]
    /\ used \subseteq Pages
    /\ \A n \in Pages : P[n] = None <=> n \notin used
    /\ \A n \in Pages : P[n] = None \/ (\E d \in Desc : P[n] = Of(d)) \/ Tag(h, P[n])
    /\ \A a \in Addr : B[a] \in {None, Listed} \/ Tag(h, B[a])
    /\ \A a \in Addr : B[a] # None <=>
          \E d \in Desc : P[pg_no(a)] = Of(d) /\ a \in Blocks(pg_no(a), d)

\* The free lists.
ListsOK(P, B, fl) ==
    /\ fl \in [Desc -> Seq(Addr)]
    /\ \A d \in Desc : \A i, j \in DOMAIN fl[d] : fl[d][i] = fl[d][j] => i = j
    /\ \A d \in Desc : \A a \in Addr :
          (\E i \in DOMAIN fl[d] : fl[d][i] = a) <=> B[a] = Listed /\ P[pg_no(a)] = Of(d)

\* The arenas: but while the holder of the lock is about to take the first block of a new
\* one, or to give back an unused one, each has a block in use and counts the others.
ListedOn(B, n, d) == {a \in Blocks(n, d) : B[a] = Listed}
Counted(B, m, n, d) == m[page_ptr(n)].free_cnt = Cardinality(ListedOn(B, n, d))

ArenaOK(P, B, m, c, r, dl, fl, n, d) ==
    /\ n \in PoolPages("kernel") /\ m[page_ptr(n)] = Arena(d, m[page_ptr(n)].free_cnt)
    /\ \A x \in Addr : pg_no(x) = n /\ x # page_ptr(n) => m[x].kind # "arena"
    /\ \/ Counted(B, m, n, d) /\ m[page_ptr(n)].free_cnt < blocks_per_arena(d)
       \/ \E u \in Thread : dl[d] = u /\ c[u] = "pop" /\ r[u].desc = d /\ pg_no(Head(fl[d])) = n /\ Counted(B, m, n, d)
       \/ \E u \in Thread : dl[d] = u /\ c[u] = "unlist" /\ r[u].desc = d /\ r[u].gone = page_ptr(n)

MemOK(P, m) ==
    /\ m = [x \in Addr |-> m[x]]
    /\ Clean(P, m, None, NULL)

LocksOK(pl, dl) == pl = [p \in Pool |-> pl[p]] /\ dl = [d \in Desc |-> dl[d]]

Owned(P, B) ==
    /\ Mapped(P, B, used_map, held) /\ LocksOK(pool_lock, desc_lock) /\ ListsOK(P, B, free_list)
    /\ MemOK(P, mem)
    /\ \A n \in Pages, d \in Desc :
          P[n] = Of(d) => ArenaOK(P, B, mem, pc, frame, desc_lock, free_list, n, d)
    /\ pc = [t \in Thread |-> pc[t]] /\ frame = [t \in Thread |-> frame[t]] /\ held = [t \in Thread |-> held[t]]
    /\ \A t \in Thread :
          ThreadOK(t, pc[t], frame[t], held[t], P, B, mem, used_map, pool_lock, desc_lock, free_list)

MemoryInv == \E P, B : Owned(P, B)

-----------------------------------------------------------------------------
(* Pages, blocks and addresses.                                            *)

LEMMA Sizes ==
    /\ PGSIZE \in Nat /\ PGSIZE > 0 /\ ArenaSize \in Nat /\ ArenaSize > 0 /\ MinBlock \in Nat /\ MinBlock > 0
    /\ SizeMod \in Nat /\ SizeMod > 0 /\ KernelPages \in Nat /\ KernelPages > 0 /\ UserPages \in Nat
    /\ 2 * ArenaSize <= PGSIZE /\ ArenaSize < PGSIZE
BY MemoryAssumption

LEMMA Times ==
    ASSUME NEW S \in Nat, NEW q \in Nat, NEW m \in Nat, q < m
    PROVE  q * S \in Nat /\ m * S \in Nat /\ q * S + S <= m * S
<1> DEFINE d == m - q - 1
<1>1. d \in Nat /\ m = q + 1 + d
  OBVIOUS
<1> HIDE DEF d
<1>2. m * S = q * S + S + d * S
  BY <1>1
<1>3. d * S \in Nat /\ q * S \in Nat /\ m * S \in Nat
  BY <1>1
<1> QED BY <1>2, <1>3

LEMMA Ptr ==
    ASSUME NEW n \in Nat
    PROVE  /\ page_ptr(n) \in Nat /\ page_ptr(n + 1) = page_ptr(n) + PGSIZE
           /\ n > 0 => page_ptr(n) > 0
<1>1. PGSIZE \in Nat /\ PGSIZE > 0 /\ n * PGSIZE \in Nat /\ (n + 1) * PGSIZE = n * PGSIZE + PGSIZE
  BY Sizes
<1>2. n > 0 => n * PGSIZE > 0
  <2>1. CASE n > 0
    <3>1. 0 \in Nat /\ 0 * PGSIZE = 0
      BY <1>1
    <3>2. 0 * PGSIZE + PGSIZE <= n * PGSIZE
      BY <1>1, <2>1, <3>1, Times
    <3> QED BY <1>1, <3>1, <3>2
  <2> QED BY <2>1
<1> QED BY <1>1, <1>2 DEF page_ptr

LEMMA PtrOrder ==
    ASSUME NEW n \in Nat, NEW m \in Nat
    PROVE  /\ n < m => page_ptr(n) + PGSIZE <= page_ptr(m)
           /\ n <= m => page_ptr(n) <= page_ptr(m)
<1>1. page_ptr(n) \in Nat /\ page_ptr(m) \in Nat /\ PGSIZE \in Nat
  BY Ptr, Sizes
<1>2. n < m => page_ptr(n) + PGSIZE <= page_ptr(m)
  BY <1>1, Times DEF page_ptr
<1> QED BY <1>1, <1>2

LEMMA PtrSum ==
    ASSUME NEW n \in Nat, NEW k \in Nat
    PROVE  page_ptr(n + k) = page_ptr(n) + k * PGSIZE /\ k * PGSIZE \in Nat
<1>1. PGSIZE \in Nat
  BY Sizes
<1> QED BY <1>1 DEF page_ptr

LEMMA PageOf ==
    ASSUME NEW x \in Nat
    PROVE  /\ pg_no(x) \in Nat /\ page_ptr(pg_no(x)) <= x /\ x < page_ptr(pg_no(x)) + PGSIZE
           /\ pg_ofs(x) = x - page_ptr(pg_no(x))
<1>1. /\ pg_no(x) \in Nat /\ pg_ofs(x) \in Nat /\ pg_ofs(x) < PGSIZE
      /\ x = PGSIZE * pg_no(x) + pg_ofs(x) /\ PGSIZE \in Nat
  BY Sizes DEF pg_no, pg_ofs
<1>2. PGSIZE * pg_no(x) = page_ptr(pg_no(x)) /\ page_ptr(pg_no(x)) \in Nat
  BY <1>1, Ptr DEF page_ptr
<1> QED BY <1>1, <1>2

LEMMA PageIs ==
    ASSUME NEW x \in Nat, NEW n \in Nat
    PROVE  pg_no(x) = n <=> page_ptr(n) <= x /\ x < page_ptr(n) + PGSIZE
<1> DEFINE k == pg_no(x)
<1>1. /\ k \in Nat /\ page_ptr(k) <= x /\ x < page_ptr(k) + PGSIZE /\ PGSIZE \in Nat
      /\ page_ptr(k) \in Nat /\ page_ptr(n) \in Nat
  BY PageOf, Ptr, Sizes
<1> HIDE DEF k
<1>2. k < n => ~(page_ptr(n) <= x)
  BY <1>1, PtrOrder
<1>3. n < k => ~(x < page_ptr(n) + PGSIZE)
  BY <1>1, PtrOrder
<1>4. k = n <=> page_ptr(n) <= x /\ x < page_ptr(n) + PGSIZE
  BY <1>1, <1>2, <1>3
<1> QED BY <1>4 DEF k

\* Addresses are in pages, in the order of the pages.
LEMMA PageRange ==
    ASSUME NEW x \in Nat, NEW n \in Nat, NEW m \in Nat
    PROVE  n <= pg_no(x) /\ pg_no(x) < m <=> page_ptr(n) <= x /\ x < page_ptr(m)
<1> DEFINE k == pg_no(x)
<1>1. /\ k \in Nat /\ page_ptr(k) <= x /\ x < page_ptr(k) + PGSIZE /\ PGSIZE \in Nat
      /\ page_ptr(k) \in Nat /\ page_ptr(n) \in Nat /\ page_ptr(m) \in Nat
  BY PageOf, Ptr, Sizes
<1> HIDE DEF k
<1>2. n <= k <=> page_ptr(n) <= x
  <2>1. CASE k < n
    BY <1>1, <2>1, PtrOrder
  <2>2. CASE n <= k
    BY <1>1, <2>2, PtrOrder
  <2> QED BY <1>1, <2>1, <2>2
<1>3. k < m <=> x < page_ptr(m)
  <2>1. CASE k < m
    BY <1>1, <2>1, PtrOrder
  <2>2. CASE m <= k
    BY <1>1, <2>2, PtrOrder
  <2> QED BY <1>1, <2>1, <2>2
<1> QED BY <1>2, <1>3 DEF k

LEMMA PagesNat == /\ Pages \subseteq Nat /\ KernelPages + UserPages \in Nat
                  /\ \A n \in Pages : n > 0 /\ n <= KernelPages + UserPages
BY Sizes DEF Pages

LEMMA AddrIs ==
    /\ Addr \subseteq Nat
    /\ \A x \in Addr : x > 0
    /\ \A x \in Nat : x \in Addr <=> pg_no(x) \in Pages
<1> DEFINE N == KernelPages + UserPages
<1>1. N \in Nat /\ Pages = 1..N /\ N + 1 \in Nat
  BY Sizes DEF Pages
<1>2. page_ptr(1) \in Nat /\ page_ptr(1) > 0 /\ page_ptr(N + 1) \in Nat
  BY <1>1, Ptr
<1>3. Addr = page_ptr(1)..(page_ptr(N + 1) - 1)
  BY DEF Addr
<1> HIDE DEF N
<1>4. \A x \in Nat : x \in Addr <=> page_ptr(1) <= x /\ x < page_ptr(N + 1)
  BY <1>2, <1>3
<1>5. ASSUME NEW x \in Nat PROVE x \in Addr <=> pg_no(x) \in Pages
  <2>1. 1 <= pg_no(x) /\ pg_no(x) < N + 1 <=> page_ptr(1) <= x /\ x < page_ptr(N + 1)
    BY <1>1, PageRange
  <2>2. pg_no(x) \in Nat
    BY PageOf
  <2> QED BY <1>1, <1>4, <2>1, <2>2
<1> QED BY <1>2, <1>3, <1>5

LEMMA PtrAddr ==
    ASSUME NEW n \in Pages
    PROVE  /\ page_ptr(n) \in Addr /\ pg_no(page_ptr(n)) = n
           /\ page_ptr(n) + ArenaSize \in Addr /\ pg_no(page_ptr(n) + ArenaSize) = n
           /\ Header(page_ptr(n)) = page_ptr(n) /\ Header(page_ptr(n) + ArenaSize) = page_ptr(n)
<1>1. n \in Nat /\ page_ptr(n) \in Nat /\ PGSIZE \in Nat /\ PGSIZE > 0 /\ ArenaSize \in Nat /\ ArenaSize < PGSIZE
  BY PagesNat, Ptr, Sizes
<1>2. pg_no(page_ptr(n)) = n /\ pg_no(page_ptr(n) + ArenaSize) = n
  BY <1>1, PageIs
<1> QED BY <1>1, <1>2, AddrIs DEF Header

\* What k pages are.
LEMMA PagesExtent ==
    ASSUME NEW n \in Pages, NEW k \in Nat, n + k - 1 <= KernelPages + UserPages
    PROVE  /\ k * PGSIZE \in Nat
           /\ \A x : x \in Extent(page_ptr(n), k * PGSIZE) <=> x \in Addr /\ n <= pg_no(x) /\ pg_no(x) < n + k
<1>1. n \in Nat /\ n > 0 /\ n + k \in Nat /\ KernelPages + UserPages \in Nat
  BY PagesNat
<1>2. page_ptr(n + k) = page_ptr(n) + k * PGSIZE /\ k * PGSIZE \in Nat /\ page_ptr(n) \in Nat
  BY <1>1, PtrSum, Ptr
<1>3. ASSUME NEW x \in Nat
      PROVE  x \in Extent(page_ptr(n), k * PGSIZE) <=> n <= pg_no(x) /\ pg_no(x) < n + k
  <2>1. x \in Extent(page_ptr(n), k * PGSIZE) <=> page_ptr(n) <= x /\ x < page_ptr(n + k)
    BY <1>2 DEF Extent
  <2> QED BY <1>1, <2>1, PageRange
<1>4. ASSUME NEW x \in Nat, n <= pg_no(x), pg_no(x) < n + k PROVE x \in Addr
  <2>1. pg_no(x) \in Nat
    BY PageOf
  <2>2. pg_no(x) \in Pages
    BY <1>1, <1>4, <2>1 DEF Pages
  <2> QED BY <2>2, AddrIs
<1>5. \A x : x \in Extent(page_ptr(n), k * PGSIZE) => x \in Nat
  BY <1>2 DEF Extent
<1> QED BY <1>2, <1>3, <1>4, <1>5, AddrIs

LEMMA Powers ==
    ASSUME NEW d \in 1..10 PROVE 2^(d - 1) \in Nat /\ 2^(d - 1) > 0
<1>1. CASE d = 1
  <2>1. d - 1 = 0 /\ 2^0 = 1
    BY <1>1
  <2> QED BY <2>1
<1>2. CASE d = 2
  <2>1. d - 1 = 1 /\ 2^1 = 2
    BY <1>2
  <2> QED BY <2>1
<1>3. CASE d = 3
  <2>1. d - 1 = 2 /\ 2^2 = 4
    BY <1>3
  <2> QED BY <2>1
<1>4. CASE d = 4
  <2>1. d - 1 = 3 /\ 2^3 = 8
    BY <1>4
  <2> QED BY <2>1
<1>5. CASE d = 5
  <2>1. d - 1 = 4 /\ 2^4 = 16
    BY <1>5
  <2> QED BY <2>1
<1>6. CASE d = 6
  <2>1. d - 1 = 5 /\ 2^5 = 32
    BY <1>6
  <2> QED BY <2>1
<1>7. CASE d = 7
  <2>1. d - 1 = 6 /\ 2^6 = 64
    BY <1>7
  <2> QED BY <2>1
<1>8. CASE d = 8
  <2>1. d - 1 = 7 /\ 2^7 = 128
    BY <1>8
  <2> QED BY <2>1
<1>9. CASE d = 9
  <2>1. d - 1 = 8 /\ 2^8 = 256
    BY <1>9
  <2> QED BY <2>1
<1>10. CASE d = 10
  <2>1. d - 1 = 9 /\ 2^9 = 512
    BY <1>10
  <2> QED BY <2>1
<1> QED BY <1>1, <1>2, <1>3, <1>4, <1>5, <1>6, <1>7, <1>8, <1>9, <1>10

LEMMA BlockSizes ==
    ASSUME NEW d \in Desc
    PROVE  /\ d \in Nat /\ d # 0 /\ BlockSize(d) \in Nat /\ BlockSize(d) > 0
           /\ blocks_per_arena(d) \in Nat /\ blocks_per_arena(d) > 0
           /\ ArenaSize + blocks_per_arena(d) * BlockSize(d) <= PGSIZE
<1> DEFINE s == BlockSize(d)
           r == PGSIZE - ArenaSize
           q == r \div s
<1>1. d \in 1..10 /\ s < PGSIZE \div 2
  BY DEF Desc
<1>2. s \in Nat /\ s > 0
  <2> DEFINE p == 2^(d - 1)
  <2>1. p \in Nat /\ p > 0 /\ MinBlock \in Nat /\ MinBlock > 0
    BY <1>1, Powers, Sizes
  <2>2. s = MinBlock * p
    BY DEF BlockSize
  <2> HIDE DEF p
  <2>3. MinBlock * p \in Nat /\ MinBlock * p > 0
    <3>1. 0 * p + p <= MinBlock * p /\ MinBlock * p \in Nat
      BY <2>1, Times
    <3>2. 0 * p = 0
      BY <2>1
    <3> QED BY <2>1, <3>1, <3>2
  <2> QED BY <2>2, <2>3
<1> HIDE DEF s
<1>3. PGSIZE \in Nat /\ ArenaSize \in Nat /\ 2 * ArenaSize <= PGSIZE /\ r \in Nat /\ s <= r
  <2>1. PGSIZE \in Nat /\ ArenaSize \in Nat /\ 2 * ArenaSize <= PGSIZE
    BY Sizes
  <2>2. 2 * (PGSIZE \div 2) <= PGSIZE /\ PGSIZE \div 2 \in Nat
    BY <2>1
  <2> QED BY <1>1, <1>2, <2>1, <2>2
<1> HIDE DEF r
<1>4. q \in Nat /\ s * q <= r /\ r < s * q + s
  BY <1>2, <1>3
<1>5. q > 0
  <2>1. CASE q = 0
    <3>1. s * q = 0
      BY <1>2, <2>1
    <3> QED BY <1>2, <1>3, <1>4, <3>1
  <2> QED BY <1>4, <2>1
<1>6. blocks_per_arena(d) = q
  BY DEF blocks_per_arena, s, r
<1>7. q * s = s * q /\ s * q \in Nat
  <2> HIDE DEF q
  <2> QED BY <1>2, <1>4
<1>8. ArenaSize + q * s <= PGSIZE
  <2> HIDE DEF q
  <2> QED BY <1>3, <1>4, <1>7 DEF r
<1> QED BY <1>1, <1>2, <1>4, <1>5, <1>6, <1>8 DEF s

\* A block lies in its page, behind the header.
LEMMA BlockLies ==
    ASSUME NEW n \in Nat, NEW d \in Desc, NEW i \in 0..(blocks_per_arena(d) - 1)
    PROVE  /\ BlockAt(n, d, i) \in Nat /\ page_ptr(n) + ArenaSize <= BlockAt(n, d, i)
           /\ BlockAt(n, d, i) + BlockSize(d) <= page_ptr(n) + PGSIZE
<1> DEFINE s == BlockSize(d)
           c == blocks_per_arena(d)
<1>1. s \in Nat /\ s > 0 /\ c \in Nat /\ ArenaSize + c * s <= PGSIZE /\ i \in Nat /\ i < c
  BY BlockSizes
<1>2. page_ptr(n) \in Nat /\ ArenaSize \in Nat
  BY Ptr, Sizes
<1>3. BlockAt(n, d, i) = page_ptr(n) + ArenaSize + i * s
  BY DEF BlockAt
<1> HIDE DEF s, c
<1>4. i * s \in Nat /\ c * s \in Nat /\ i * s + s <= c * s
  BY <1>1, Times
<1>5. PGSIZE \in Nat
  BY Sizes
<1> QED BY <1>1, <1>2, <1>3, <1>4, <1>5 DEF s

LEMMA BlockIn ==
    ASSUME NEW n \in Pages, NEW d \in Desc, NEW a \in Blocks(n, d)
    PROVE  /\ a \in Addr /\ pg_no(a) = n /\ Header(a) = page_ptr(n) /\ a # page_ptr(n) /\ a # NULL
           /\ \A x \in Extent(a, BlockSize(d)) : x \in Addr /\ pg_no(x) = n /\ x # page_ptr(n)
           /\ a \in Extent(a, BlockSize(d))
<1>1. PICK i \in 0..(blocks_per_arena(d) - 1) : a = BlockAt(n, d, i)
  BY DEF Blocks
<1>2. n \in Nat
  BY PagesNat
<1>3. /\ a \in Nat /\ page_ptr(n) + ArenaSize <= a /\ a + BlockSize(d) <= page_ptr(n) + PGSIZE
      /\ BlockSize(d) \in Nat /\ BlockSize(d) > 0 /\ ArenaSize \in Nat /\ ArenaSize > 0 /\ page_ptr(n) \in Nat
      /\ PGSIZE \in Nat
  BY <1>1, <1>2, BlockLies, BlockSizes, Sizes, Ptr
<1>4. ASSUME NEW x \in Extent(a, BlockSize(d)) PROVE x \in Addr /\ pg_no(x) = n /\ x # page_ptr(n)
  <2>1. x \in Nat /\ page_ptr(n) < x /\ x < page_ptr(n) + PGSIZE
    BY <1>3 DEF Extent
  <2>2. pg_no(x) = n
    BY <1>2, <1>3, <2>1, PageIs
  <2> QED BY <1>3, <2>1, <2>2, AddrIs
<1>5. a \in Extent(a, BlockSize(d))
  BY <1>3 DEF Extent
<1>6. a # NULL
  BY <1>4, <1>5, AddrIs DEF NULL
<1> QED BY <1>4, <1>5, <1>6 DEF Header

\* Two blocks of an arena do not overlap.
LEMMA BlocksApart ==
    ASSUME NEW n \in Pages, NEW d \in Desc, NEW a \in Blocks(n, d), NEW b \in Blocks(n, d), a # b
    PROVE  Extent(a, BlockSize(d)) \cap Extent(b, BlockSize(d)) = {}
<1>1. PICK i \in 0..(blocks_per_arena(d) - 1) : a = BlockAt(n, d, i)
  BY DEF Blocks
<1>2. PICK j \in 0..(blocks_per_arena(d) - 1) : b = BlockAt(n, d, j)
  BY DEF Blocks
<1> DEFINE s == BlockSize(d)
<1>3. s \in Nat /\ i \in Nat /\ j \in Nat /\ page_ptr(n) \in Nat /\ ArenaSize \in Nat /\ i # j
  BY <1>1, <1>2, BlockSizes, PagesNat, Ptr, Sizes
<1>4. a = page_ptr(n) + ArenaSize + i * s /\ b = page_ptr(n) + ArenaSize + j * s
  BY <1>1, <1>2 DEF BlockAt
<1> HIDE DEF s
<1>5. a \in Nat /\ b \in Nat /\ (a + s <= b \/ b + s <= a)
  <2>1. CASE i < j
    <3>1. i * s \in Nat /\ j * s \in Nat /\ i * s + s <= j * s
      BY <1>3, <2>1, Times
    <3> QED BY <1>3, <1>4, <3>1
  <2>2. CASE j < i
    <3>1. i * s \in Nat /\ j * s \in Nat /\ j * s + s <= i * s
      BY <1>3, <2>2, Times
    <3> QED BY <1>3, <1>4, <3>1
  <2> QED BY <1>3, <2>1, <2>2
<1>6. Extent(a, s) \cap Extent(b, s) = {}
  BY <1>3, <1>5 DEF Extent
<1> QED BY <1>6 DEF s

LEMMA BlockOnce ==
    ASSUME NEW n \in Pages, NEW d \in Desc, NEW i \in 0..(blocks_per_arena(d) - 1),
           NEW j \in 0..(blocks_per_arena(d) - 1), BlockAt(n, d, i) = BlockAt(n, d, j)
    PROVE  i = j
<1> DEFINE s == BlockSize(d)
<1>1. s \in Nat /\ s > 0 /\ i \in Nat /\ j \in Nat /\ page_ptr(n) \in Nat /\ ArenaSize \in Nat
  BY BlockSizes, PagesNat, Ptr, Sizes
<1>2. page_ptr(n) + ArenaSize + i * s = page_ptr(n) + ArenaSize + j * s
  BY DEF BlockAt
<1> HIDE DEF s
<1>3. i * s \in Nat /\ j * s \in Nat
  BY <1>1
<1>4. i * s = j * s
  BY <1>1, <1>2, <1>3
<1>5. CASE i < j
  BY <1>1, <1>3, <1>4, <1>5, Times
<1>6. CASE j < i
  BY <1>1, <1>3, <1>4, <1>6, Times
<1> QED BY <1>1, <1>5, <1>6

LEMMA BlocksCount ==
    ASSUME NEW n \in Pages, NEW d \in Desc
    PROVE  IsFiniteSet(Blocks(n, d)) /\ Cardinality(Blocks(n, d)) = blocks_per_arena(d)
<1> DEFINE c == blocks_per_arena(d)
           h == [i \in 0..(c - 1) |-> BlockAt(n, d, i)]
<1>1. c \in Nat /\ c > 0
  BY BlockSizes
<1>2. IsFiniteSet(0..(c - 1)) /\ Cardinality(0..(c - 1)) = c
  <2>1. 0 \in Int /\ c - 1 \in Int /\ ~(0 > c - 1) /\ (c - 1) - 0 + 1 = c
    BY <1>1
  <2> HIDE DEF c
  <2> QED BY <2>1, FS_Interval
<1>3. h \in Bijection(0..(c - 1), Blocks(n, d))
  <2>1. h \in [0..(c - 1) -> Blocks(n, d)]
    BY DEF Blocks
  <2>2. \A i, j \in 0..(c - 1) : h[i] = h[j] => i = j
    BY BlockOnce
  <2>3. \A a \in Blocks(n, d) : \E i \in 0..(c - 1) : h[i] = a
    BY DEF Blocks
  <2> HIDE DEF h
  <2> QED BY <2>1, <2>2, <2>3, Fun_IsBij
<1>4. ExistsBijection(0..(c - 1), Blocks(n, d))
  BY <1>3 DEF ExistsBijection
<1> HIDE DEF h
<1>5. IsFiniteSet(Blocks(n, d)) /\ Cardinality(Blocks(n, d)) = Cardinality(0..(c - 1))
  <2> HIDE DEF c
  <2> QED BY <1>2, <1>4, FS_Bijection
<1> QED BY <1>2, <1>5

-----------------------------------------------------------------------------
(* Owners.                                                                 *)

\* What belongs to thread u, to any thread; whose unit x of memory is.
Theirs(u, g) == g = New(u) \/ g = Gone(u) \/ \E b : g = Has(u, b)
Owner(g) == \E u : Theirs(u, g)
Owns(P, B, g, x) ==
    \/ P[pg_no(x)] = g
    \/ \E d \in Desc : \E a \in Blocks(pg_no(x), d) :
          P[pg_no(x)] = Of(d) /\ B[a] = g /\ x \in Extent(a, BlockSize(d))

\* The header of an arena is the only one in its page.
OneHeader(P, m) ==
    \A d \in Desc : \A x \in Addr : P[pg_no(x)] = Of(d) /\ x # page_ptr(pg_no(x)) => m[x].kind # "arena"

LEMMA TagsDiffer ==
    /\ None # Listed /\ \A d : Of(d) # None /\ Of(d) # Listed
    /\ \A d, e : Of(d) = Of(e) => d = e
    /\ \A t, u : New(t) = New(u) \/ Gone(t) = Gone(u) => t = u
    /\ \A t, u, b, c : Has(t, b) = Has(u, c) => t = u /\ b = c
    /\ \A t, u, b : New(t) # Gone(u) /\ New(t) # Has(u, b) /\ Gone(t) # Has(u, b)
    /\ \A t : New(t) \notin {None, Listed} /\ Gone(t) \notin {None, Listed}
    /\ \A t, b : Has(t, b) \notin {None, Listed}
    /\ \A d, t : Of(d) # New(t) /\ Of(d) # Gone(t)
    /\ \A d, t, b : Of(d) # Has(t, b)
BY DEF None, Listed, Of, New, Gone, Has

LEMMA Owners ==
    ASSUME NEW g, Owner(g)
    PROVE  g # None /\ g # Listed /\ \A d : Of(d) # g
BY TagsDiffer DEF Owner, Theirs

LEMMA OwnersAre ==
    \A t : /\ Theirs(t, New(t)) /\ Theirs(t, Gone(t)) /\ \A b : Theirs(t, Has(t, b))
           /\ Owner(New(t)) /\ Owner(Gone(t)) /\ \A b : Owner(Has(t, b))
BY DEF Owner, Theirs

LEMMA TheirsOnce ==
    ASSUME NEW t, NEW u, NEW g, Theirs(t, g), Theirs(u, g)
    PROVE  t = u
BY TagsDiffer DEF Theirs

LEMMA OwnsOnce ==
    ASSUME NEW P, NEW B, NEW x \in Addr, NEW g, NEW h, Owner(g), Owner(h), Owns(P, B, g, x), Owns(P, B, h, x)
    PROVE  g = h
<1> DEFINE n == pg_no(x)
<1>0. n \in Pages
  BY AddrIs
<1>1. CASE P[n] = g
  <2>1. CASE P[n] = h
    BY <1>1, <2>1
  <2>2. CASE P[n] # h
    <3>1. PICK d \in Desc : P[n] = Of(d)
      BY <2>2 DEF Owns
    <3> QED BY <1>1, <3>1, Owners
  <2> QED BY <2>1, <2>2
<1>2. CASE P[n] # g
  <2>0. PICK d \in Desc : \E a \in Blocks(n, d) : P[n] = Of(d) /\ B[a] = g /\ x \in Extent(a, BlockSize(d))
    BY <1>2 DEF Owns
  <2>1. PICK a \in Blocks(n, d) : P[n] = Of(d) /\ B[a] = g /\ x \in Extent(a, BlockSize(d))
    BY <2>0
  <2>2. P[n] # h
    BY <2>1, Owners
  <2>6. PICK e \in Desc : \E b \in Blocks(n, e) : P[n] = Of(e) /\ B[b] = h /\ x \in Extent(b, BlockSize(e))
    BY <2>2 DEF Owns
  <2>3. PICK b \in Blocks(n, e) : P[n] = Of(e) /\ B[b] = h /\ x \in Extent(b, BlockSize(e))
    BY <2>6
  <2>4. d = e
    BY <2>1, <2>3, TagsDiffer
  <2>5. a = b
    <3> SUFFICES ASSUME a # b PROVE FALSE
      OBVIOUS
    <3>1. Extent(a, BlockSize(d)) \cap Extent(b, BlockSize(d)) = {}
      BY <1>0, <2>4, BlocksApart
    <3> QED BY <2>1, <2>3, <2>4, <3>1
  <2> QED BY <2>1, <2>3, <2>5
<1> QED BY <1>1, <1>2

\* Nobody has the header of an arena.
LEMMA HeaderNotOwned ==
    ASSUME NEW P, NEW B, NEW n \in Pages, NEW d \in Desc, P[n] = Of(d), NEW g, Owner(g)
    PROVE  ~Owns(P, B, g, page_ptr(n))
<1>1. page_ptr(n) \in Addr /\ pg_no(page_ptr(n)) = n
  BY PtrAddr
<1>2. P[n] # g
  BY Owners
<1>3. ASSUME NEW e \in Desc, NEW a \in Blocks(n, e) PROVE page_ptr(n) \notin Extent(a, BlockSize(e))
  BY BlockIn
<1> QED BY <1>1, <1>2, <1>3 DEF Owns

\* Nobody has anything in a free block, or a free page.
LEMMA BlockOwned ==
    ASSUME NEW P, NEW B, NEW n \in Pages, NEW d \in Desc, P[n] = Of(d), NEW a \in Blocks(n, d),
           NEW x \in Extent(a, BlockSize(d)), NEW g, Owner(g)
    PROVE  Owns(P, B, g, x) <=> B[a] = g
<1>1. x \in Addr /\ pg_no(x) = n
  BY BlockIn
<1>2. P[n] # g
  BY Owners
<1>3. ASSUME Owns(P, B, g, x) PROVE B[a] = g
  <2>0. PICK e \in Desc : \E b \in Blocks(n, e) : P[n] = Of(e) /\ B[b] = g /\ x \in Extent(b, BlockSize(e))
    BY <1>1, <1>2, <1>3 DEF Owns
  <2>1. PICK b \in Blocks(n, e) : P[n] = Of(e) /\ B[b] = g /\ x \in Extent(b, BlockSize(e))
    BY <2>0
  <2>2. d = e
    BY <2>1, TagsDiffer
  <2>3. a = b
    <3> SUFFICES ASSUME a # b PROVE FALSE
      OBVIOUS
    <3>1. Extent(a, BlockSize(d)) \cap Extent(b, BlockSize(d)) = {}
      BY <2>2, BlocksApart
    <3> QED BY <2>1, <2>2, <3>1
  <2> QED BY <2>1, <2>3
<1>4. ASSUME B[a] = g PROVE Owns(P, B, g, x)
  BY <1>1, <1>4 DEF Owns
<1> QED BY <1>3, <1>4

-----------------------------------------------------------------------------
(* What is given to a caller is its own, and has no header of an arena.    *)

LEMMA PagesOwned ==
    ASSUME NEW P, NEW B, NEW g, NEW n, NEW k, PagesAre(P, B, g, n, k),
           NEW x \in Extent(page_ptr(n), k * PGSIZE)
    PROVE  x \in Addr /\ P[pg_no(x)] = g /\ Owns(P, B, g, x)
<1>1. n \in Pages /\ k \in Nat /\ n + k - 1 <= KernelPages + UserPages
  BY DEF PagesAre
<1>2. x \in Addr /\ n <= pg_no(x) /\ pg_no(x) < n + k
  BY <1>1, PagesExtent
<1>3. pg_no(x) \in Pages
  BY <1>2, AddrIs
<1>4. P[pg_no(x)] = g
  BY <1>2, <1>3 DEF PagesAre
<1> QED BY <1>2, <1>4 DEF Owns

\* The size block_size computes.
Room(m, p) == LET a == m[Header(p)]
              IN  IF a.desc # 0 THEN BlockSize(a.desc) ELSE PGSIZE * a.free_cnt - pg_ofs(p)

Headers(P, m) == \A d \in Desc : \A n \in Pages :
    P[n] = Of(d) => m[page_ptr(n)] = Arena(d, m[page_ptr(n)].free_cnt)

LEMMA BigOwned ==
    ASSUME NEW P, NEW B, NEW m, NEW g, NEW p \in Nat, NEW s \in Nat, s > 0, Big(P, B, m, g, p, s)
    PROVE  /\ Room(m, p) \in Nat /\ s <= Room(m, p) /\ p \in Addr /\ Header(p) = page_ptr(pg_no(p))
           /\ \A x \in Extent(p, Room(m, p)) :
                 x \in Addr /\ Owns(P, B, g, x) /\ m[x].kind # "arena" /\ P[pg_no(x)] = g
<1> DEFINE n == pg_no(p)
           k == m[page_ptr(n)].free_cnt
<1>1. /\ p = page_ptr(n) + ArenaSize /\ PagesAre(P, B, g, n, k) /\ m[page_ptr(n)] = Arena(0, k)
      /\ Clean(P, m, g, page_ptr(n)) /\ ArenaSize + s <= k * PGSIZE
  BY DEF Big
<1>2. n \in Pages /\ k \in Nat
  BY <1>1 DEF PagesAre
<1>3. Header(p) = page_ptr(n) /\ pg_ofs(p) = ArenaSize
  <2>1. n \in Nat /\ page_ptr(n) \in Nat /\ ArenaSize \in Nat /\ pg_ofs(p) = p - page_ptr(n)
    BY <1>2, PagesNat, Ptr, Sizes, PageOf
  <2> QED BY <1>1, <2>1 DEF Header
<1>4. Room(m, p) = PGSIZE * k - ArenaSize
  BY <1>1, <1>3 DEF Room, Arena
<1>5. PGSIZE * k = k * PGSIZE /\ k * PGSIZE \in Nat /\ PGSIZE \in Nat /\ ArenaSize \in Nat /\ ArenaSize > 0
  BY <1>2, Sizes
<1> HIDE DEF k
<1>6. Room(m, p) \in Nat /\ s <= Room(m, p) /\ Room(m, p) = k * PGSIZE - ArenaSize
  BY <1>1, <1>4, <1>5
<1>7. page_ptr(n) \in Nat
  BY <1>2, PagesNat, Ptr
<1>8. ASSUME NEW x \in Extent(p, Room(m, p))
      PROVE  x \in Addr /\ Owns(P, B, g, x) /\ m[x].kind # "arena" /\ P[pg_no(x)] = g
  <2>1. x \in Extent(page_ptr(n), k * PGSIZE) /\ x # page_ptr(n)
    BY <1>1, <1>5, <1>6, <1>7, <1>8 DEF Extent
  <2>2. x \in Addr /\ P[pg_no(x)] = g /\ Owns(P, B, g, x)
    BY <1>1, <2>1, PagesOwned
  <2> QED BY <1>1, <2>1, <2>2 DEF Clean
<1>9. p \in Addr
  BY <1>1, <1>2, PtrAddr
<1> QED BY <1>3, <1>6, <1>8, <1>9

LEMMA SmallOwned ==
    ASSUME NEW P, NEW B, NEW m, NEW d, NEW g, NEW p, NEW s \in Nat, Small(P, B, d, g, p, s),
           Headers(P, m), OneHeader(P, m)
    PROVE  /\ d \in Desc /\ m[Header(p)] = Arena(d, m[Header(p)].free_cnt)
           /\ Room(m, p) = BlockSize(d) /\ Room(m, p) \in Nat /\ s <= Room(m, p) /\ p \in Addr
           /\ Header(p) = page_ptr(pg_no(p))
           /\ \A x \in Extent(p, Room(m, p)) :
                 x \in Addr /\ Owns(P, B, g, x) /\ m[x].kind # "arena" /\ P[pg_no(x)] = Of(d)
<1> DEFINE n == pg_no(p)
<1>1. d \in Desc /\ n \in Pages /\ P[n] = Of(d) /\ p \in Blocks(n, d) /\ s <= BlockSize(d)
  BY DEF Small
<1>2. p \in Addr /\ Header(p) = page_ptr(n)
  BY <1>1, BlockIn
<1>3. B[p] = g
  BY <1>2 DEF Small
<1>4. m[Header(p)] = Arena(d, m[Header(p)].free_cnt)
  BY <1>1, <1>2 DEF Headers
<1>5. BlockSize(d) \in Nat /\ d # 0
  BY <1>1, BlockSizes
<1>6. m[Header(p)].desc = d
  BY <1>4 DEF Arena
<1>7. Room(m, p) = BlockSize(d)
  BY <1>5, <1>6 DEF Room
<1>8. ASSUME NEW x \in Extent(p, Room(m, p))
      PROVE  x \in Addr /\ Owns(P, B, g, x) /\ m[x].kind # "arena" /\ P[pg_no(x)] = Of(d)
  <2>1. x \in Addr /\ pg_no(x) = n /\ x # page_ptr(n)
    BY <1>1, <1>7, <1>8, BlockIn
  <2>2. Owns(P, B, g, x)
    BY <1>1, <1>3, <1>7, <1>8, <2>1 DEF Owns
  <2> QED BY <1>1, <2>1, <2>2 DEF OneHeader
<1> QED BY <1>1, <1>2, <1>4, <1>5, <1>7, <1>8

LEMMA BlockOwns ==
    ASSUME NEW P, NEW B, NEW m, NEW g, NEW p \in Nat, NEW s \in Nat, s > 0, Block(P, B, m, g, p, s),
           Headers(P, m), OneHeader(P, m)
    PROVE  /\ Room(m, p) \in Nat /\ s <= Room(m, p) /\ p \in Addr /\ Header(p) = page_ptr(pg_no(p))
           /\ \A x \in Extent(p, Room(m, p)) :
                 x \in Addr /\ Owns(P, B, g, x) /\ m[x].kind # "arena"
<1>1. CASE Big(P, B, m, g, p, s)
  BY <1>1, BigOwned
<1>2. CASE ~Big(P, B, m, g, p, s)
  <2>1. PICK d \in Desc : Small(P, B, d, g, p, s)
    BY <1>2 DEF Block
  <2> QED BY <2>1, SmallOwned
<1> QED BY <1>1, <1>2

LEMMA GivenOwns ==
    ASSUME NEW P, NEW B, NEW m, NEW g, NEW p, NEW s, NEW paged, Given(P, B, m, g, p, s, paged),
           Headers(P, m), OneHeader(P, m)
    PROVE  /\ p \in Addr /\ p \in Nat /\ s \in Nat /\ s > 0 /\ p \in Extent(p, s)
           /\ \A x \in Extent(p, s) : x \in Addr /\ Owns(P, B, g, x) /\ m[x].kind # "arena"
<1>1. p \in Nat /\ s \in Nat /\ s > 0
  BY DEF Given
<1>2. ASSUME paged
      PROVE  \A x \in Extent(p, s) : x \in Addr /\ Owns(P, B, g, x) /\ m[x].kind # "arena"
  <2>1. PICK k \in Nat : s = k * PGSIZE /\ Paged(P, B, m, g, p, k)
    BY <1>2 DEF Given
  <2>2. p = page_ptr(pg_no(p)) /\ PagesAre(P, B, g, pg_no(p), k) /\ Clean(P, m, g, NULL)
    BY <2>1 DEF Paged
  <2>3. TAKE x \in Extent(p, s)
  <2>4. x \in Addr /\ P[pg_no(x)] = g /\ Owns(P, B, g, x)
    BY <2>1, <2>2, <2>3, PagesOwned
  <2>5. x # NULL
    BY <2>4, AddrIs DEF NULL
  <2> QED BY <2>2, <2>4, <2>5 DEF Clean
<1>3. ASSUME ~paged
      PROVE  \A x \in Extent(p, s) : x \in Addr /\ Owns(P, B, g, x) /\ m[x].kind # "arena"
  <2>1. Block(P, B, m, g, p, s)
    BY <1>3 DEF Given
  <2>2. /\ Room(m, p) \in Nat /\ s <= Room(m, p)
        /\ \A x \in Extent(p, Room(m, p)) : x \in Addr /\ Owns(P, B, g, x) /\ m[x].kind # "arena"
    BY <1>1, <2>1, BlockOwns
  <2>3. Extent(p, s) \subseteq Extent(p, Room(m, p))
    BY <1>1, <2>2 DEF Extent
  <2> QED BY <2>2, <2>3
<1>4. p \in Extent(p, s)
  BY <1>1 DEF Extent
<1> QED BY <1>1, <1>2, <1>3, <1>4

-----------------------------------------------------------------------------
(* What belongs to g belongs to h after a step: to g still, or to what it  *)
(* has become.                                                             *)

Same(P, B, P2, B2, g, h) ==
    /\ \A n \in Pages : P2[n] = h <=> P[n] = g
    /\ \A a \in Addr : B2[a] = h <=> B[a] = g
    /\ \A a \in Addr : B[a] = g => P2[pg_no(a)] = P[pg_no(a)]

\* The headers of arenas in the pages of g are those there were.
Soft(P, m, m2, g) ==
    \A x \in Addr : P[pg_no(x)] = g => m2[x] = m[x] \/ (m[x].kind # "arena" /\ m2[x].kind # "arena")

LEMMA PagesMove ==
    ASSUME NEW P, NEW B, NEW P2, NEW B2, NEW g, NEW h, Same(P, B, P2, B2, g, h), NEW n, NEW k
    PROVE  /\ PagesAre(P, B, g, n, k) => PagesAre(P2, B2, h, n, k)
           /\ NoPage(P, g) => NoPage(P2, h)
           /\ NoBlock(B, g) => NoBlock(B2, h)
           /\ Nothing(P, B, g) => Nothing(P2, B2, h)
<1>1. NoPage(P, g) => NoPage(P2, h)
  BY DEF Same, NoPage
<1>2. NoBlock(B, g) => NoBlock(B2, h)
  BY DEF Same, NoBlock
<1>3. PagesAre(P, B, g, n, k) => PagesAre(P2, B2, h, n, k)
  BY <1>2 DEF Same, PagesAre
<1> QED BY <1>1, <1>2, <1>3 DEF Nothing

LEMMA CleanMoves ==
    ASSUME NEW P, NEW B, NEW P2, NEW B2, NEW m, NEW m2, NEW g, NEW h, Same(P, B, P2, B2, g, h),
           Soft(P, m, m2, g), NEW z
    PROVE  Clean(P, m, g, z) => Clean(P2, m2, h, z)
<1> SUFFICES ASSUME Clean(P, m, g, z), NEW x \in Addr, P2[pg_no(x)] = h, x # z PROVE m2[x].kind # "arena"
  BY DEF Clean
<1>1. pg_no(x) \in Pages
  BY AddrIs
<1>2. P[pg_no(x)] = g
  BY <1>1 DEF Same
<1>3. m[x].kind # "arena"
  BY <1>2 DEF Clean
<1> QED BY <1>2, <1>3 DEF Soft

LEMMA SmallMoves ==
    ASSUME NEW P, NEW B, NEW P2, NEW B2, NEW g, NEW h, Same(P, B, P2, B2, g, h), NEW d, NEW p, NEW s,
           Small(P, B, d, g, p, s)
    PROVE  Small(P2, B2, d, h, p, s)
<1>1. d \in Desc /\ pg_no(p) \in Pages /\ P[pg_no(p)] = Of(d) /\ p \in Blocks(pg_no(p), d)
  BY DEF Small
<1>2. p \in Addr
  BY <1>1, BlockIn
<1>3. B[p] = g
  BY <1>2 DEF Small
<1>4. P2[pg_no(p)] = Of(d)
  BY <1>1, <1>2, <1>3 DEF Same
<1>5. NoPage(P2, h)
  BY PagesMove DEF Small
<1>6. \A a \in Addr : B2[a] = h <=> a = p
  BY DEF Same, Small
<1> QED BY <1>1, <1>4, <1>5, <1>6 DEF Small

LEMMA BigMoves ==
    ASSUME NEW P, NEW B, NEW P2, NEW B2, NEW m, NEW m2, NEW g, NEW h, Same(P, B, P2, B2, g, h),
           Soft(P, m, m2, g), NEW p, NEW s \in Nat, Big(P, B, m, g, p, s)
    PROVE  Big(P2, B2, m2, h, p, s)
<1> DEFINE n == pg_no(p)
           k == m[page_ptr(n)].free_cnt
<1>1. /\ p = page_ptr(n) + ArenaSize /\ PagesAre(P, B, g, n, k) /\ m[page_ptr(n)] = Arena(0, k)
      /\ Clean(P, m, g, page_ptr(n)) /\ ArenaSize + s <= k * PGSIZE /\ k * PGSIZE < ArenaSize + s + PGSIZE
  BY DEF Big
<1>2. n \in Pages /\ k \in Nat /\ \A j \in Pages : P[j] = g <=> n <= j /\ j < n + k
  BY <1>1 DEF PagesAre
<1>3. P[n] = g
  <2>1. PGSIZE \in Nat /\ ArenaSize \in Nat /\ ArenaSize > 0
    BY Sizes
  <2>2. k # 0
    <3> SUFFICES ASSUME k = 0 PROVE FALSE
      OBVIOUS
    <3>1. k * PGSIZE = 0
      BY <2>1
    <3> HIDE DEF k
    <3> QED BY <1>1, <2>1, <3>1
  <2> HIDE DEF k
  <2>3. n \in Nat
    BY <1>2, PagesNat
  <2> QED BY <1>2, <2>2, <2>3
<1>4. page_ptr(n) \in Addr /\ pg_no(page_ptr(n)) = n
  BY <1>2, PtrAddr
<1>5. m[page_ptr(n)].kind = "arena"
  BY <1>1 DEF Arena
<1>6. m2[page_ptr(n)] = m[page_ptr(n)]
  BY <1>3, <1>4, <1>5 DEF Soft
<1>7. PagesAre(P2, B2, h, n, k) /\ Clean(P2, m2, h, page_ptr(n))
  BY <1>1, PagesMove, CleanMoves
<1> QED BY <1>1, <1>6, <1>7 DEF Big

LEMMA BlockMoves ==
    ASSUME NEW P, NEW B, NEW P2, NEW B2, NEW m, NEW m2, NEW g, NEW h, Same(P, B, P2, B2, g, h),
           Soft(P, m, m2, g), NEW p, NEW s \in Nat, Block(P, B, m, g, p, s)
    PROVE  Block(P2, B2, m2, h, p, s)
<1>1. CASE Big(P, B, m, g, p, s)
  BY <1>1, BigMoves DEF Block
<1>2. CASE ~Big(P, B, m, g, p, s)
  <2>1. PICK d \in Desc : Small(P, B, d, g, p, s)
    BY <1>2 DEF Block
  <2>2. Small(P2, B2, d, h, p, s)
    BY <2>1, SmallMoves
  <2> QED BY <2>2 DEF Block
<1> QED BY <1>1, <1>2

LEMMA GivenMoves ==
    ASSUME NEW P, NEW B, NEW P2, NEW B2, NEW m, NEW m2, NEW g, NEW h, Same(P, B, P2, B2, g, h),
           Soft(P, m, m2, g), NEW p, NEW s, NEW paged, Given(P, B, m, g, p, s, paged)
    PROVE  Given(P2, B2, m2, h, p, s, paged)
<1>1. p \in Nat /\ s \in Nat /\ s > 0
  BY DEF Given
<1>2. ASSUME paged PROVE \E k \in Nat : s = k * PGSIZE /\ Paged(P2, B2, m2, h, p, k)
  <2>1. PICK k \in Nat : s = k * PGSIZE /\ Paged(P, B, m, g, p, k)
    BY <1>2 DEF Given
  <2>2. Paged(P2, B2, m2, h, p, k)
    BY <2>1, PagesMove, CleanMoves DEF Paged
  <2> QED BY <2>1, <2>2
<1>3. ASSUME ~paged PROVE Block(P2, B2, m2, h, p, s)
  BY <1>1, <1>3, BlockMoves DEF Given
<1> QED BY <1>1, <1>2, <1>3 DEF Given

-----------------------------------------------------------------------------
(* A step of thread t leaves what the others are about alone.              *)

KeepsTags(u, P, B, P2, B2) == \A g : Theirs(u, g) => Same(P, B, P2, B2, g, g)
KeepsMem(u, P, B, m, m2) == \A g : Theirs(u, g) => \A x \in Addr : Owns(P, B, g, x) => m2[x] = m[x]
KeepsList(u, P, B, dl, fl, P2, B2, dl2, fl2) ==
    \A d \in Desc : dl[d] = u =>
        /\ dl2[d] = u /\ fl2[d] = fl[d]
        /\ \A n \in Pages : P[n] = Of(d) =>
              P2[n] = Of(d) /\ \A a \in Addr : pg_no(a) = n /\ B[a] = Listed => B2[a] = Listed
KeepsPool(u, used, pl, used2, pl2) ==
    \A p \in Pool : pl[p] = u => pl2[p] = u /\ \A n \in PoolPages(p) : n \notin used => n \notin used2

LEMMA KeepsSoft ==
    ASSUME NEW u, NEW P, NEW B, NEW m, NEW m2, KeepsMem(u, P, B, m, m2), NEW g, Theirs(u, g)
    PROVE  Soft(P, m, m2, g)
BY DEF KeepsMem, Soft, Owns

LEMMA LockStays ==
    ASSUME NEW u, NEW c, NEW r, NEW P, NEW B, NEW P2, NEW B2, NEW used, NEW pl, NEW dl, NEW fl,
           NEW used2, NEW pl2, NEW dl2, NEW fl2,
           KeepsList(u, P, B, dl, fl, P2, B2, dl2, fl2), KeepsPool(u, used, pl, used2, pl2),
           c \in {"scan", "flip"} => From(r) \in Pool,
           c = "pop" => r.desc # 0,
           c = "flip" => r.bit \in Nat,
           LockOK(u, c, r, used, pl, dl, fl)
    PROVE  LockOK(u, c, r, used2, pl2, dl2, fl2)
<1>1. c \in Arranges \cup Releases /\ r.desc # 0 => r.desc \in Desc /\ dl[r.desc] = u
  BY DEF LockOK
<1>2. c \in Arranges \cup Releases /\ r.desc # 0 => r.desc \in Desc /\ dl2[r.desc] = u /\ fl2[r.desc] = fl[r.desc]
  BY <1>1 DEF KeepsList
<1>3. /\ c \in Arranges \ {"pop"} /\ r.desc # 0 => fl2[r.desc] = <<>>
      /\ c = "pop" => fl2[r.desc] # <<>>
  BY <1>2 DEF LockOK, Arranges
<1>4. c \in {"scan", "flip"} =>
          /\ pl2[From(r)] = u /\ First(From(r)) <= r.first /\ r.bit < r.cnt
          /\ \A n \in PoolPages(From(r)) : n \notin used => n \notin used2
  BY DEF LockOK, KeepsPool
<1>5. c = "scan" => \A i \in 0..(r.bit - 1) : r.first + i \in PoolPages(From(r)) \ used2
  BY <1>4 DEF LockOK
<1>6. c = "flip" => \A i \in 0..(r.cnt - 1) : r.first + i \in PoolPages(From(r))
  BY DEF LockOK
<1>7. ASSUME c = "flip", NEW i \in r.bit..(r.cnt - 1) PROVE r.first + i \notin used2
  <2>1. r.bit \in Nat
    BY <1>7
  <2>2. i \in 0..(r.cnt - 1)
    BY <1>7, <2>1
  <2>3. r.first + i \in PoolPages(From(r)) /\ r.first + i \notin used
    BY <1>6, <1>7, <2>2 DEF LockOK
  <2> QED BY <1>4, <1>7, <2>3
<1> QED BY <1>2, <1>3, <1>4, <1>5, <1>6, <1>7 DEF LockOK

LEMMA NewStays ==
    ASSUME NEW u, NEW c, NEW r, NEW P, NEW B, NEW P2, NEW B2, NEW m, NEW m2,
           Same(P, B, P2, B2, New(u), New(u)), Soft(P, m, m2, New(u)), NewOK(u, c, r, P, B, m)
    PROVE  NewOK(u, c, r, P2, B2, m2)
<1>1. c \in {"program", "malloc", "get", "scan", "got none", "pop"} => Nothing(P2, B2, New(u))
  BY PagesMove DEF NewOK
<1>2. c \in {"return"} \cup Frees /\ r.ptr = NULL => Nothing(P2, B2, New(u))
  BY PagesMove DEF NewOK
<1>3. c = "flip" => PagesAre(P2, B2, New(u), r.first, r.bit) /\ Clean(P2, m2, New(u), NULL)
  BY PagesMove, CleanMoves DEF NewOK
<1>4. c = "got" => Paged(P2, B2, m2, New(u), r.ptr, r.cnt)
  BY PagesMove, CleanMoves DEF NewOK, Paged
<1>5. c \in {"malloced", "return"} \cup Frees /\ r.ptr # NULL =>
          Given(P2, B2, m2, New(u), r.ptr, Promise(r), r.req.op = "page")
  BY GivenMoves DEF NewOK
<1>6. c # "program" /\ r.req.op # "free" => \A n \in Pages : P2[n] = New(u) => n \in PoolPages(From(r))
  BY DEF NewOK, Same
<1> QED BY <1>1, <1>2, <1>3, <1>4, <1>5, <1>6 DEF NewOK

LEMMA GoneStays ==
    ASSUME NEW u, NEW c, NEW r, NEW P, NEW B, NEW P2, NEW B2, NEW m, NEW m2, NEW dl, NEW fl, NEW dl2, NEW fl2,
           Same(P, B, P2, B2, Gone(u), Gone(u)), KeepsMem(u, P, B, m, m2),
           KeepsList(u, P, B, dl, fl, P2, B2, dl2, fl2),
           c = "unlist" => r.desc \in Desc /\ dl[r.desc] = u,
           c = "unlist" => r.bit \in Nat,
           GoneOK(u, c, r, P, B, m)
    PROVE  GoneOK(u, c, r, P2, B2, m2)
<1>0. Soft(P, m, m2, Gone(u))
  BY KeepsSoft, OwnersAre
<1>1. c \in {"program", "freed", "return"} \cup Asks => Nothing(P2, B2, Gone(u))
  BY PagesMove DEF GoneOK
<1>2. c = "free" => \E s \in Nat : Block(P2, B2, m2, Gone(u), r.gone, s)
  BY <1>0, BlockMoves DEF GoneOK
<1>3. c = "free lock" => Small(P2, B2, r.desc, Gone(u), r.gone, 0)
  BY SmallMoves DEF GoneOK
<1>4. ASSUME c = "unlist"
      PROVE  LET n == pg_no(r.gone)
             IN  /\ r.desc \in Desc /\ n \in Pages /\ r.gone = page_ptr(n) /\ P2[n] = Of(r.desc)
                 /\ NoPage(P2, Gone(u)) /\ r.bit < blocks_per_arena(r.desc)
                 /\ \A a \in Addr : B2[a] = Gone(u) <=> \E i \in 0..(r.bit - 1) : a = BlockAt(n, r.desc, i)
                 /\ \A i \in r.bit..(blocks_per_arena(r.desc) - 1) : B2[BlockAt(n, r.desc, i)] = Listed
  <2> DEFINE n == pg_no(r.gone)
             d == r.desc
  <2>1. /\ d \in Desc /\ n \in Pages /\ r.gone = page_ptr(n) /\ P[n] = Of(d)
        /\ NoPage(P, Gone(u)) /\ r.bit < blocks_per_arena(d)
        /\ \A a \in Addr : B[a] = Gone(u) <=> \E i \in 0..(r.bit - 1) : a = BlockAt(n, d, i)
        /\ \A i \in r.bit..(blocks_per_arena(d) - 1) : B[BlockAt(n, d, i)] = Listed
    BY <1>4 DEF GoneOK
  <2>2. P2[n] = Of(d) /\ \A a \in Addr : pg_no(a) = n /\ B[a] = Listed => B2[a] = Listed
    BY <1>4, <2>1 DEF KeepsList
  <2>3. NoPage(P2, Gone(u)) /\ \A a \in Addr : B2[a] = Gone(u) <=> B[a] = Gone(u)
    <3>1. NoPage(P2, Gone(u))
      BY <2>1, PagesMove
    <3> QED BY <3>1 DEF Same
  <2>4. ASSUME NEW i \in r.bit..(blocks_per_arena(d) - 1) PROVE B2[BlockAt(n, d, i)] = Listed
    <3>1. r.bit \in Nat
      BY <1>4
    <3>2. i \in 0..(blocks_per_arena(d) - 1)
      BY <2>4, <3>1, <2>1, BlockSizes
    <3>3. BlockAt(n, d, i) \in Blocks(n, d)
      BY <3>2 DEF Blocks
    <3>4. BlockAt(n, d, i) \in Addr /\ pg_no(BlockAt(n, d, i)) = n
      BY <2>1, <3>3, BlockIn
    <3> QED BY <2>1, <2>2, <2>4, <3>4
  <2>5. \A a \in Addr : B2[a] = Gone(u) <=> \E i \in 0..(r.bit - 1) : a = BlockAt(n, d, i)
    BY <2>1, <2>3
  <2> QED BY <2>1, <2>2, <2>3, <2>4, <2>5
<1>5. /\ c \in {"free", "free lock", "fill"} => r.bit = 0
      /\ c \in {"free lock", "unlist", "fill"} /\ r.desc # 0 => r.cnt = 1
  BY DEF GoneOK
<1>6. c = "fill" =>
          /\ r.cnt > 0 /\ r.gone = page_ptr(pg_no(r.gone)) /\ PagesAre(P2, B2, Gone(u), pg_no(r.gone), r.cnt)
          /\ \A x \in Addr : P2[pg_no(x)] = Gone(u) /\ m2[x].kind = "arena" => m2[x].desc = r.desc
  <2> SUFFICES ASSUME c = "fill"
               PROVE  /\ r.cnt > 0 /\ r.gone = page_ptr(pg_no(r.gone)) /\ PagesAre(P2, B2, Gone(u), pg_no(r.gone), r.cnt)
                      /\ \A x \in Addr : P2[pg_no(x)] = Gone(u) /\ m2[x].kind = "arena" => m2[x].desc = r.desc
    OBVIOUS
  <2>1. r.cnt > 0 /\ r.gone = page_ptr(pg_no(r.gone)) /\ PagesAre(P2, B2, Gone(u), pg_no(r.gone), r.cnt)
    BY PagesMove DEF GoneOK
  <2>2. ASSUME NEW x \in Addr, P2[pg_no(x)] = Gone(u), m2[x].kind = "arena" PROVE m2[x].desc = r.desc
    <3>1. P[pg_no(x)] = Gone(u)
      BY <2>2, AddrIs DEF Same
    <3>2. m2[x] = m[x]
      BY <3>1, OwnersAre DEF KeepsMem, Owns
    <3> QED BY <2>2, <3>1, <3>2 DEF GoneOK
  <2> QED BY <2>1, <2>2
<1>7. c = "clear" =>
          /\ r.bit < r.cnt /\ r.gone = page_ptr(pg_no(r.gone))
          /\ PagesAre(P2, B2, Gone(u), pg_no(r.gone) + r.bit, r.cnt - r.bit)
          /\ Clean(P2, m2, Gone(u), NULL)
  BY <1>0, PagesMove, CleanMoves DEF GoneOK
<1> QED BY <1>1, <1>2, <1>3, <1>4, <1>5, <1>6, <1>7 DEF GoneOK

\* What a frame has.
LEMMA AnyFrame ==
    ASSUME NEW t \in Thread, NEW c, NEW r, FrameOK(t, c, r), c # "program"
    PROVE  /\ r.ptr \in Nat /\ r.gone \in Nat /\ r.desc \in Nat /\ r.cnt \in Nat /\ r.bit \in Nat
           /\ r \in AskFrame(t) <=> r.req.op # "free"
           /\ r \notin AskFrame(t) => r \in FreeFrame /\ r.ptr = NULL
           /\ c \in Asks => r.req.op # "free"
<1>1. r \in AskFrame(t) \cup FreeFrame
  BY DEF FrameOK
<1>2. r \in AskFrame(t) => r.req.op # "free"
  BY DEF FrameOK
<1>3. r \in FreeFrame => r.req.op = "free" /\ r.ptr = NULL
  BY DEF FreeFrame
<1>4. r \in AskFrame(t) \/ r \in FreeFrame => r.ptr \in Nat /\ r.gone \in Nat /\ r.desc \in Nat /\ r.cnt \in Nat /\ r.bit \in Nat
  BY DEF AskFrame, FreeFrame, NULL
<1> QED BY <1>1, <1>2, <1>3, <1>4 DEF FrameOK

LEMMA AskedFrame ==
    ASSUME NEW t \in Thread, NEW c, NEW r, FrameOK(t, c, r), c # "program", r.req.op # "free"
    PROVE  /\ r.req \in Requests[t] /\ r.req.op \in {"page", "malloc", "calloc", "realloc"}
           /\ r.req.a \in Nat /\ r.req.a > 0 /\ r.req.b \in Nat /\ r.req.zero \in BOOLEAN
           /\ Promise(r) \in Nat /\ Promise(r) > 0 /\ From(r) \in Pool /\ r.first \in Nat
           /\ r.req.op = "realloc" => r.old \in BlockRecord
           /\ c \in Frees => r.req.op = "realloc" /\ r.ptr # NULL
           /\ r.req.op = "calloc" => Size(r.req) = Promise(r)
<1>1. r \in AskFrame(t)
  BY AnyFrame
<1>2. r.req \in Requests[t] /\ r.first \in Nat
  BY <1>1 DEF AskFrame
<1>3. r.req.a \in Nat /\ r.req.b \in Nat /\ r.req.pool \in Pool /\ r.req.zero \in BOOLEAN
  BY <1>2, MemoryAssumption
<1>4. From(r) \in Pool
  BY <1>3 DEF From, Pool
<1> QED BY <1>1, <1>2, <1>3, <1>4 DEF FrameOK

LEMMA KeptSize ==
    ASSUME NEW t \in Thread, NEW c, NEW r, FrameOK(t, c, r), c # "program", r.req.op = "realloc"
    PROVE  /\ Kept(r) \in Nat /\ Kept(r) <= Promise(r) /\ Promise(r) = r.req.a /\ r.old.size \in Nat
           /\ Kept(r) <= r.old.size /\ r.old.ptr \in Nat
<1>1. r.old.size \in Nat /\ r.req.a \in Nat /\ r.old.ptr \in Nat
  BY AskedFrame DEF BlockRecord
<1> QED BY <1>1 DEF Kept, Promise

LEMMA ContentStays ==
    ASSUME NEW u \in Thread, NEW c, NEW r, NEW P, NEW B, NEW m, NEW m2, FrameOK(u, c, r), NewOK(u, c, r, P, B, m),
           Headers(P, m), OneHeader(P, m), KeepsMem(u, P, B, m, m2), ContentOK(u, c, r, m)
    PROVE  ContentOK(u, c, r, m2)
<1>1. ASSUME c \in {"return"} \cup Frees, r.ptr # NULL
      PROVE  \A x \in Extent(r.ptr, Promise(r)) : m2[x] = m[x]
  <2>1. Given(P, B, m, New(u), r.ptr, Promise(r), r.req.op = "page")
    BY <1>1 DEF NewOK
  <2>2. \A x \in Extent(r.ptr, Promise(r)) : x \in Addr /\ Owns(P, B, New(u), x)
    BY <2>1, GivenOwns
  <2> QED BY <2>2, OwnersAre DEF KeepsMem
<1>2. ASSUME c \in {"return"} \cup Frees, r.ptr # NULL, r.req.op = "realloc", NEW x \in Extent(r.ptr, Kept(r))
      PROVE  m2[x] = Data(u)
  <2>1. c # "program"
    BY <1>2 DEF Frees
  <2>2. Kept(r) \in Nat /\ Promise(r) \in Nat /\ Kept(r) <= Promise(r) /\ r.ptr \in Nat
    BY <1>2, <2>1, KeptSize, AnyFrame, AskedFrame
  <2>3. x \in Extent(r.ptr, Promise(r))
    BY <1>2, <2>2 DEF Extent
  <2> QED BY <1>1, <1>2, <2>3 DEF ContentOK
<1>3. ASSUME c = "return", r.ptr # NULL, r.req.op = "calloc" \/ (r.req.op = "page" /\ r.req.zero),
             NEW x \in Extent(r.ptr, Promise(r))
      PROVE  m2[x] = Zero
  BY <1>1, <1>3 DEF ContentOK
<1> QED BY <1>2, <1>3 DEF ContentOK

LEMMA HeldStays ==
    ASSUME NEW u, NEW h, NEW b \in h, NEW P, NEW B, NEW P2, NEW B2, NEW m, NEW m2,
           Same(P, B, P2, B2, Has(u, b), Has(u, b)), Headers(P, m), OneHeader(P, m),
           \A x \in Addr : Owns(P, B, Has(u, b), x) => m2[x] = m[x],
           b \in BlockRecord, Given(P, B, m, Has(u, b), b.ptr, b.size, b.paged),
           \A x \in Extent(b.ptr, b.size) : m[x] = Data(u)
    PROVE  /\ Given(P2, B2, m2, Has(u, b), b.ptr, b.size, b.paged)
           /\ \A x \in Extent(b.ptr, b.size) : m2[x] = Data(u)
<1>1. Soft(P, m, m2, Has(u, b))
  BY DEF Soft, Owns
<1>2. Given(P2, B2, m2, Has(u, b), b.ptr, b.size, b.paged)
  BY <1>1, GivenMoves
<1>3. \A x \in Extent(b.ptr, b.size) : x \in Addr /\ Owns(P, B, Has(u, b), x)
  BY GivenOwns
<1> QED BY <1>2, <1>3

LEMMA OtherThread ==
    ASSUME NEW u \in Thread, NEW c, NEW r, NEW h, NEW P, NEW B, NEW m, NEW used, NEW pl, NEW dl, NEW fl,
           NEW P2, NEW B2, NEW m2, NEW used2, NEW pl2, NEW dl2, NEW fl2,
           ThreadOK(u, c, r, h, P, B, m, used, pl, dl, fl), Headers(P, m), OneHeader(P, m),
           KeepsTags(u, P, B, P2, B2), KeepsMem(u, P, B, m, m2),
           KeepsList(u, P, B, dl, fl, P2, B2, dl2, fl2), KeepsPool(u, used, pl, used2, pl2)
    PROVE  ThreadOK(u, c, r, h, P2, B2, m2, used2, pl2, dl2, fl2)
<1>1. /\ FrameOK(u, c, r) /\ AskOK(c, r) /\ LockOK(u, c, r, used, pl, dl, fl)
      /\ NewOK(u, c, r, P, B, m) /\ GoneOK(u, c, r, P, B, m) /\ ContentOK(u, c, r, m)
      /\ HeldOK(u, c, r, h, P, B, m)
  BY DEF ThreadOK
<1>2. \A g : Theirs(u, g) => Same(P, B, P2, B2, g, g) /\ Soft(P, m, m2, g)
  BY KeepsSoft DEF KeepsTags
<1>3. LockOK(u, c, r, used2, pl2, dl2, fl2)
  <2>1. c \in {"scan", "flip"} => From(r) \in Pool
    BY <1>1, AskedFrame, AnyFrame DEF Asks
  <2>2. c = "pop" => r.desc # 0
    BY <1>1 DEF AskOK, Asks
  <2>3. c = "flip" => r.bit \in Nat
    BY <1>1, AnyFrame
  <2> QED BY <1>1, <2>1, <2>2, <2>3, LockStays
<1>4. NewOK(u, c, r, P2, B2, m2)
  BY <1>1, <1>2, OwnersAre, NewStays
<1>5. GoneOK(u, c, r, P2, B2, m2)
  <2>1. ASSUME c = "unlist" PROVE r.desc \in Desc /\ dl[r.desc] = u /\ r.bit \in Nat
    <3>1. r.desc \in Desc
      BY <1>1, <2>1 DEF GoneOK
    <3>2. r.desc # 0
      BY <3>1, BlockSizes
    <3>3. dl[r.desc] = u
      BY <1>1, <2>1, <3>2 DEF LockOK, Releases
    <3> QED BY <1>1, <2>1, <3>1, <3>3, AnyFrame
  <2>2. Same(P, B, P2, B2, Gone(u), Gone(u))
    BY <1>2, OwnersAre
  <2> QED BY <1>1, <2>1, <2>2, GoneStays
<1>6. ContentOK(u, c, r, m2)
  BY <1>1, ContentStays
<1>7. HeldOK(u, c, r, h, P2, B2, m2)
  <2>1. ASSUME NEW b \in h
        PROVE  /\ Given(P2, B2, m2, Has(u, b), b.ptr, b.size, b.paged)
               /\ \A x \in Extent(b.ptr, b.size) : m2[x] = Data(u)
               /\ b \in BlockRecord
    <3>1. /\ b \in BlockRecord /\ Given(P, B, m, Has(u, b), b.ptr, b.size, b.paged)
          /\ \A x \in Extent(b.ptr, b.size) : m[x] = Data(u)
      BY <1>1 DEF HeldOK
    <3>2. Same(P, B, P2, B2, Has(u, b), Has(u, b))
      BY <1>2, OwnersAre
    <3>3. \A x \in Addr : Owns(P, B, Has(u, b), x) => m2[x] = m[x]
      BY OwnersAre DEF KeepsMem
    <3> QED BY <3>1, <3>2, <3>3, HeldStays
  <2> QED BY <1>1, <2>1 DEF HeldOK
<1> QED BY <1>1, <1>3, <1>4, <1>5, <1>6, <1>7 DEF ThreadOK

-----------------------------------------------------------------------------
(* The parts of the invariant, and a step as a whole.                      *)

\* Only thread t takes a step.
Quiet(t) ==
    /\ pc' = [u \in Thread |-> pc'[u]] /\ frame' = [u \in Thread |-> frame'[u]] /\ held' = [u \in Thread |-> held'[u]]
    /\ \A u \in Thread : u # t => pc'[u] = pc[u] /\ frame'[u] = frame[u] /\ held'[u] = held[u]

ThreadNow(t, P, B) ==
    ThreadOK(t, pc[t], frame[t], held[t], P, B, mem, used_map, pool_lock, desc_lock, free_list)
ThreadNext(t, P, B) ==
    ThreadOK(t, pc'[t], frame'[t], held'[t], P, B, mem', used_map', pool_lock', desc_lock', free_list')

LEMMA ThreadIs ==
    ASSUME NEW P, NEW B, Owned(P, B), NEW t \in Thread
    PROVE  /\ ThreadNow(t, P, B)
           /\ FrameOK(t, pc[t], frame[t]) /\ AskOK(pc[t], frame[t])
           /\ LockOK(t, pc[t], frame[t], used_map, pool_lock, desc_lock, free_list)
           /\ NewOK(t, pc[t], frame[t], P, B, mem) /\ GoneOK(t, pc[t], frame[t], P, B, mem)
           /\ ContentOK(t, pc[t], frame[t], mem) /\ HeldOK(t, pc[t], frame[t], held[t], P, B, mem)
BY DEF Owned, ThreadOK, ThreadNow

LEMMA OwnedIs ==
    ASSUME NEW P, NEW B, Owned(P, B)
    PROVE  /\ Mapped(P, B, used_map, held) /\ LocksOK(pool_lock, desc_lock) /\ ListsOK(P, B, free_list)
           /\ MemOK(P, mem) /\ Headers(P, mem) /\ OneHeader(P, mem)
           /\ pc = [t \in Thread |-> pc[t]] /\ frame = [t \in Thread |-> frame[t]] /\ held = [t \in Thread |-> held[t]]
           /\ DOMAIN mem = Addr
           /\ \A n \in Pages, d \in Desc :
                 P[n] = Of(d) => ArenaOK(P, B, mem, pc, frame, desc_lock, free_list, n, d)
<1>1. /\ Mapped(P, B, used_map, held) /\ LocksOK(pool_lock, desc_lock) /\ ListsOK(P, B, free_list) /\ MemOK(P, mem)
      /\ pc = [t \in Thread |-> pc[t]] /\ frame = [t \in Thread |-> frame[t]] /\ held = [t \in Thread |-> held[t]]
      /\ \A n \in Pages, d \in Desc :
            P[n] = Of(d) => ArenaOK(P, B, mem, pc, frame, desc_lock, free_list, n, d)
  BY DEF Owned
<1>2. Headers(P, mem)
  BY <1>1 DEF Headers, ArenaOK
<1>3. OneHeader(P, mem)
  <2> SUFFICES ASSUME NEW d \in Desc, NEW x \in Addr, P[pg_no(x)] = Of(d), x # page_ptr(pg_no(x))
               PROVE  mem[x].kind # "arena"
    BY DEF OneHeader
  <2>1. pg_no(x) \in Pages
    BY AddrIs
  <2>2. ArenaOK(P, B, mem, pc, frame, desc_lock, free_list, pg_no(x), d)
    BY <1>1, <2>1
  <2> QED BY <2>2 DEF ArenaOK
<1>4. DOMAIN mem = Addr
  BY <1>1 DEF MemOK
<1> QED BY <1>1, <1>2, <1>3, <1>4

LEMMA Step ==
    ASSUME NEW t \in Thread, NEW P, NEW B, NEW P2, NEW B2, Owned(P, B), Quiet(t),
           Mapped(P2, B2, used_map', held'), LocksOK(pool_lock', desc_lock'), ListsOK(P2, B2, free_list'),
           MemOK(P2, mem'),
           \A n \in Pages, d \in Desc :
              P2[n] = Of(d) => ArenaOK(P2, B2, mem', pc', frame', desc_lock', free_list', n, d),
           ThreadNext(t, P2, B2),
           \A u \in Thread : u # t =>
              /\ KeepsTags(u, P, B, P2, B2) /\ KeepsMem(u, P, B, mem, mem')
              /\ KeepsList(u, P, B, desc_lock, free_list, P2, B2, desc_lock', free_list')
              /\ KeepsPool(u, used_map, pool_lock, used_map', pool_lock')
    PROVE  MemoryInv'
<1>1. ASSUME NEW u \in Thread PROVE ThreadNext(u, P2, B2)
  <2>1. CASE u = t
    BY <2>1
  <2>2. CASE u # t
    <3>1. ThreadOK(u, pc[u], frame[u], held[u], P, B, mem, used_map, pool_lock, desc_lock, free_list)
      BY ThreadIs DEF ThreadNow
    <3>2. Headers(P, mem) /\ OneHeader(P, mem)
      BY OwnedIs
    <3>3. /\ KeepsTags(u, P, B, P2, B2) /\ KeepsMem(u, P, B, mem, mem')
          /\ KeepsList(u, P, B, desc_lock, free_list, P2, B2, desc_lock', free_list')
          /\ KeepsPool(u, used_map, pool_lock, used_map', pool_lock')
      BY <2>2
    <3>4. ThreadOK(u, pc[u], frame[u], held[u], P2, B2, mem', used_map', pool_lock', desc_lock', free_list')
      BY <3>1, <3>2, <3>3, OtherThread
    <3> QED BY <2>2, <3>4 DEF Quiet, ThreadNext
  <2> QED BY <2>1, <2>2
<1>2. Owned(P2, B2)'
  BY <1>1 DEF Owned, ThreadNext, Quiet
<1> QED BY <1>2 DEF MemoryInv

-----------------------------------------------------------------------------
(* What an arena is, after a step that is not about it.                    *)

LEMMA ArenaStays ==
    ASSUME NEW n \in Pages, NEW d \in Desc, NEW P, NEW B, NEW m, NEW c, NEW r, NEW dl, NEW fl,
           NEW P2, NEW B2, NEW m2, NEW c2, NEW r2, NEW dl2, NEW fl2, ArenaOK(P, B, m, c, r, dl, fl, n, d),
           m2[page_ptr(n)] = m[page_ptr(n)],
           \A x \in Addr : pg_no(x) = n /\ x # page_ptr(n) => m2[x] = m[x] \/ m2[x].kind # "arena",
           \A a \in Blocks(n, d) : B2[a] = Listed <=> B[a] = Listed,
           \A u \in Thread : dl[d] = u /\ c[u] \in {"pop", "unlist"} =>
              dl2[d] = u /\ c2[u] = c[u] /\ r2[u] = r[u] /\ fl2[d] = fl[d]
    PROVE  ArenaOK(P2, B2, m2, c2, r2, dl2, fl2, n, d)
<1>1. ListedOn(B2, n, d) = ListedOn(B, n, d)
  BY DEF ListedOn
<1>2. Counted(B, m, n, d) => Counted(B2, m2, n, d)
  BY <1>1 DEF Counted
<1>3. /\ n \in PoolPages("kernel") /\ m2[page_ptr(n)] = Arena(d, m2[page_ptr(n)].free_cnt)
      /\ \A x \in Addr : pg_no(x) = n /\ x # page_ptr(n) => m2[x].kind # "arena"
  BY DEF ArenaOK
<1>4. CASE Counted(B, m, n, d) /\ m[page_ptr(n)].free_cnt < blocks_per_arena(d)
  BY <1>2, <1>3, <1>4 DEF ArenaOK
<1>5. CASE \E u \in Thread : dl[d] = u /\ c[u] = "pop" /\ r[u].desc = d /\ pg_no(Head(fl[d])) = n /\ Counted(B, m, n, d)
  <2>1. PICK u \in Thread : dl[d] = u /\ c[u] = "pop" /\ r[u].desc = d /\ pg_no(Head(fl[d])) = n /\ Counted(B, m, n, d)
    BY <1>5
  <2>2. dl2[d] = u /\ c2[u] = "pop" /\ r2[u].desc = d /\ pg_no(Head(fl2[d])) = n /\ Counted(B2, m2, n, d)
    BY <1>2, <2>1
  <2> QED BY <1>3, <2>2 DEF ArenaOK
<1>6. CASE \E u \in Thread : dl[d] = u /\ c[u] = "unlist" /\ r[u].desc = d /\ r[u].gone = page_ptr(n)
  <2>1. PICK u \in Thread : dl[d] = u /\ c[u] = "unlist" /\ r[u].desc = d /\ r[u].gone = page_ptr(n)
    BY <1>6
  <2>2. dl2[d] = u /\ c2[u] = "unlist" /\ r2[u].desc = d /\ r2[u].gone = page_ptr(n)
    BY <2>1
  <2> QED BY <1>3, <2>2 DEF ArenaOK
<1> QED BY <1>4, <1>5, <1>6 DEF ArenaOK

\* The holder of the lock of d is not in the middle of something, or still in it.
Settled(t, d) ==
    desc_lock[d] = t => \/ pc[t] \notin {"pop", "unlist"}
                        \/ desc_lock'[d] = t /\ pc'[t] = pc[t] /\ frame'[t] = frame[t] /\ free_list'[d] = free_list[d]

LEMMA ArenaStep ==
    ASSUME NEW t \in Thread, NEW P, NEW B, NEW P2, NEW B2, Owned(P, B), Quiet(t),
           NEW n \in Pages, NEW d \in Desc, P[n] = Of(d), Settled(t, d),
           mem'[page_ptr(n)] = mem[page_ptr(n)],
           \A x \in Addr : pg_no(x) = n /\ x # page_ptr(n) => mem'[x] = mem[x] \/ mem'[x].kind # "arena",
           \A a \in Blocks(n, d) : B2[a] = Listed <=> B[a] = Listed,
           \A u \in Thread : u # t => KeepsList(u, P, B, desc_lock, free_list, P2, B2, desc_lock', free_list')
    PROVE  ArenaOK(P2, B2, mem', pc', frame', desc_lock', free_list', n, d)
<1>1. ArenaOK(P, B, mem, pc, frame, desc_lock, free_list, n, d)
  BY OwnedIs
<1>2. ASSUME NEW u \in Thread, desc_lock[d] = u, pc[u] \in {"pop", "unlist"}
      PROVE  desc_lock'[d] = u /\ pc'[u] = pc[u] /\ frame'[u] = frame[u] /\ free_list'[d] = free_list[d]
  <2>1. CASE u = t
    BY <1>2, <2>1 DEF Settled
  <2>2. CASE u # t
    BY <1>2, <2>2 DEF KeepsList, Quiet
  <2> QED BY <2>1, <2>2
<1> QED BY <1>1, <1>2, ArenaStays

-----------------------------------------------------------------------------
(* What the other threads keep.                                            *)

LEMMA TagsSame ==
    ASSUME NEW u, NEW P, NEW B
    PROVE  KeepsTags(u, P, B, P, B)
BY DEF KeepsTags, Same

LEMMA MemMine ==
    ASSUME NEW t, NEW u, t # u, NEW P, NEW B, NEW m, NEW m2,
           \A x \in Addr : \/ m2[x] = m[x]
                           \/ \E g : Theirs(t, g) /\ Owns(P, B, g, x)
                           \/ \E n \in Pages, d \in Desc : P[n] = Of(d) /\ x = page_ptr(n)
    PROVE  KeepsMem(u, P, B, m, m2)
<1> SUFFICES ASSUME NEW g, Theirs(u, g), NEW x \in Addr, Owns(P, B, g, x), m2[x] # m[x] PROVE FALSE
  BY DEF KeepsMem
<1>1. Owner(g)
  BY DEF Owner
<1>2. ASSUME NEW h, Theirs(t, h), Owns(P, B, h, x) PROVE FALSE
  <2>1. Owner(h)
    BY <1>2 DEF Owner
  <2>2. g = h
    BY <1>1, <1>2, <2>1, OwnsOnce
  <2> QED BY <1>2, <2>2, TheirsOnce
<1>3. ASSUME NEW n \in Pages, NEW d \in Desc, P[n] = Of(d), x = page_ptr(n) PROVE FALSE
  BY <1>1, <1>3, HeaderNotOwned
<1> QED BY <1>2, <1>3

\* A block belongs to something in a page of blocks.
LEMMA BlockPage ==
    ASSUME NEW P, NEW B, NEW used, NEW h, Mapped(P, B, used, h), NEW a \in Addr, B[a] # None
    PROVE  pg_no(a) \in Pages /\ \E d \in Desc : P[pg_no(a)] = Of(d) /\ a \in Blocks(pg_no(a), d)
BY AddrIs DEF Mapped

\* What belonged to g belongs to h.
Moved(P, g, h) == [x \in DOMAIN P |-> IF P[x] = g THEN h ELSE P[x]]

LEMMA Moves ==
    ASSUME NEW P, NEW B, NEW used, NEW hs, Mapped(P, B, used, hs), NEW g, NEW h, Owner(g), Owner(h),
           g = h \/ Nothing(P, B, h)
    PROVE  /\ Same(P, B, Moved(P, g, h), Moved(B, g, h), g, h)
           /\ g # h => Nothing(Moved(P, g, h), Moved(B, g, h), g)
           /\ \A k : Owner(k) /\ k # g /\ k # h => Same(P, B, Moved(P, g, h), Moved(B, g, h), k, k)
<1> DEFINE P2 == Moved(P, g, h)
           B2 == Moved(B, g, h)
<1>1. DOMAIN P = Pages /\ DOMAIN B = Addr
  BY DEF Mapped
<1>2. \A n \in Pages : P2[n] = IF P[n] = g THEN h ELSE P[n]
  BY <1>1 DEF Moved
<1>3. \A a \in Addr : B2[a] = IF B[a] = g THEN h ELSE B[a]
  BY <1>1 DEF Moved
<1> HIDE DEF P2, B2
<1>4. ASSUME NEW a \in Addr, B[a] # None PROVE P2[pg_no(a)] = P[pg_no(a)]
  <2>1. PICK d \in Desc : P[pg_no(a)] = Of(d)
    BY <1>4, BlockPage
  <2>2. P[pg_no(a)] # g
    BY <2>1, Owners
  <2> QED BY <1>2, <2>2, AddrIs
<1>5. \A k : \A a \in Addr : B[a] = k /\ Owner(k) => P2[pg_no(a)] = P[pg_no(a)]
  BY <1>4, Owners
<1>6. \A n \in Pages : P2[n] = h <=> P[n] = g
  BY <1>2 DEF Nothing, NoPage
<1>7. \A a \in Addr : B2[a] = h <=> B[a] = g
  BY <1>3 DEF Nothing, NoBlock
<1>8. Same(P, B, P2, B2, g, h)
  BY <1>5, <1>6, <1>7 DEF Same
<1>9. g # h => Nothing(P2, B2, g)
  BY <1>2, <1>3 DEF Nothing, NoPage, NoBlock
<1>10. ASSUME NEW k, Owner(k), k # g, k # h PROVE Same(P, B, P2, B2, k, k)
  BY <1>2, <1>3, <1>5, <1>10 DEF Same
<1> QED BY <1>8, <1>9, <1>10 DEF P2, B2

-----------------------------------------------------------------------------
(* Steps that change locks only, and steps after which what thread t had   *)
(* as g it has as h, and may have written there.                           *)

Locks(t) ==
    /\ LocksOK(pool_lock', desc_lock')
    /\ \A p \in Pool : pool_lock'[p] = pool_lock[p] \/ pool_lock[p] \in {t, Nobody}
    /\ \A d \in Desc : desc_lock'[d] = desc_lock[d] \/ desc_lock[d] \in {t, Nobody}

LEMMA NobodyIs == \A u \in Thread : u # Nobody
BY MemoryAssumption

LEMMA QuietStep ==
    ASSUME NEW t \in Thread, NEW P, NEW B, Owned(P, B), Quiet(t), Locks(t),
           UNCHANGED <<used_map, free_list, mem, held>>,
           pc[t] \notin {"pop", "unlist"}, ThreadNext(t, P, B)
    PROVE  MemoryInv'
<1>0. /\ Mapped(P, B, used_map, held) /\ ListsOK(P, B, free_list) /\ MemOK(P, mem)
  BY OwnedIs
<1>1. ASSUME NEW u \in Thread, u # t
      PROVE  /\ KeepsTags(u, P, B, P, B) /\ KeepsMem(u, P, B, mem, mem')
             /\ KeepsList(u, P, B, desc_lock, free_list, P, B, desc_lock', free_list')
             /\ KeepsPool(u, used_map, pool_lock, used_map', pool_lock')
  <2>1. KeepsTags(u, P, B, P, B)
    BY TagsSame
  <2>2. KeepsMem(u, P, B, mem, mem')
    BY DEF KeepsMem
  <2>3. KeepsList(u, P, B, desc_lock, free_list, P, B, desc_lock', free_list')
    BY <1>1, NobodyIs DEF KeepsList, Locks
  <2>4. KeepsPool(u, used_map, pool_lock, used_map', pool_lock')
    BY <1>1, NobodyIs DEF KeepsPool, Locks
  <2> QED BY <2>1, <2>2, <2>3, <2>4
<1>2. ASSUME NEW n \in Pages, NEW d \in Desc, P[n] = Of(d)
      PROVE  ArenaOK(P, B, mem', pc', frame', desc_lock', free_list', n, d)
  <2>1. Settled(t, d)
    BY DEF Settled
  <2>2. mem' = mem
    OBVIOUS
  <2> QED BY <1>1, <1>2, <2>1, <2>2, ArenaStep
<1>3. /\ Mapped(P, B, used_map', held') /\ ListsOK(P, B, free_list') /\ MemOK(P, mem')
      /\ LocksOK(pool_lock', desc_lock')
  BY <1>0 DEF Locks
<1> QED BY <1>1, <1>2, <1>3, Step

LEMMA MovedIs ==
    ASSUME NEW P, NEW B, P = [n \in Pages |-> P[n]], B = [a \in Addr |-> B[a]], NEW g, NEW h, Owner(g), Owner(h)
    PROVE  /\ Moved(P, g, h) = [n \in Pages |-> IF P[n] = g THEN h ELSE P[n]]
           /\ Moved(B, g, h) = [a \in Addr |-> IF B[a] = g THEN h ELSE B[a]]
           /\ \A n \in Pages : \A d \in Desc : Moved(P, g, h)[n] = Of(d) <=> P[n] = Of(d)
           /\ \A n \in Pages : Moved(P, g, h)[n] = None <=> P[n] = None
           /\ \A a \in Addr : Moved(B, g, h)[a] = Listed <=> B[a] = Listed
           /\ \A a \in Addr : Moved(B, g, h)[a] = None <=> B[a] = None
<1>1. DOMAIN P = Pages /\ DOMAIN B = Addr
  OBVIOUS
<1>2. Moved(P, g, h) = [n \in Pages |-> IF P[n] = g THEN h ELSE P[n]]
  BY <1>1 DEF Moved
<1>3. Moved(B, g, h) = [a \in Addr |-> IF B[a] = g THEN h ELSE B[a]]
  BY <1>1 DEF Moved
<1>4. g # None /\ g # Listed /\ h # None /\ h # Listed /\ \A d : Of(d) # g /\ Of(d) # h
  BY Owners
<1> QED BY <1>2, <1>3, <1>4

\* What belonged to something belongs to something with h for g.
Retagged(hs, hs2, g, h) == Tag(hs2, h) /\ \A k : Tag(hs, k) /\ k # g => Tag(hs2, k)

LEMMA MapMoves ==
    ASSUME NEW P, NEW B, NEW used, NEW hs, NEW hs2, Mapped(P, B, used, hs), NEW g, NEW h, Owner(g), Owner(h),
           Retagged(hs, hs2, g, h)
    PROVE  Mapped(Moved(P, g, h), Moved(B, g, h), used, hs2)
<1> DEFINE P2 == Moved(P, g, h)
           B2 == Moved(B, g, h)
<1>1. P = [n \in Pages |-> P[n]] /\ B = [a \in Addr |-> B[a]]
  BY DEF Mapped
<1>2. /\ P2 = [n \in Pages |-> IF P[n] = g THEN h ELSE P[n]]
      /\ B2 = [a \in Addr |-> IF B[a] = g THEN h ELSE B[a]]
      /\ \A n \in Pages : \A d \in Desc : P2[n] = Of(d) <=> P[n] = Of(d)
      /\ \A n \in Pages : P2[n] = None <=> P[n] = None
      /\ \A a \in Addr : B2[a] = None <=> B[a] = None
  BY <1>1, MovedIs
<1> HIDE DEF P2, B2
<1>7. P2 = [n \in Pages |-> P2[n]] /\ B2 = [a \in Addr |-> B2[a]]
  BY <1>2
<1>8. used \subseteq Pages /\ \A n \in Pages : P2[n] = None <=> n \notin used
  BY <1>2 DEF Mapped
<1>9. \A n \in Pages : P2[n] = None \/ (\E d \in Desc : P2[n] = Of(d)) \/ Tag(hs2, P2[n])
  BY <1>2 DEF Mapped, Retagged
<1>10. \A a \in Addr : B2[a] \in {None, Listed} \/ Tag(hs2, B2[a])
  BY <1>2 DEF Mapped, Retagged
<1>11. \A a \in Addr : B2[a] # None <=> \E d \in Desc : P2[pg_no(a)] = Of(d) /\ a \in Blocks(pg_no(a), d)
  BY <1>2, AddrIs DEF Mapped
<1> QED BY <1>7, <1>8, <1>9, <1>10, <1>11 DEF Mapped, P2, B2

LEMMA ListsMove ==
    ASSUME NEW P, NEW B, NEW P2, NEW B2, NEW fl, ListsOK(P, B, fl),
           \A n \in Pages, d \in Desc : P2[n] = Of(d) <=> P[n] = Of(d),
           \A a \in Addr : B2[a] = Listed <=> B[a] = Listed
    PROVE  ListsOK(P2, B2, fl)
BY AddrIs DEF ListsOK

LEMMA MoveStep ==
    ASSUME NEW t \in Thread, NEW P, NEW B, Owned(P, B), Quiet(t), NEW g, NEW h, Theirs(t, g), Theirs(t, h),
           g = h \/ Nothing(P, B, h), Retagged(held, held', g, h),
           UNCHANGED <<used_map, pool_lock, desc_lock, free_list>>, pc[t] \notin {"pop", "unlist"},
           mem' = [x \in Addr |-> mem'[x]],
           \A x \in Addr : \/ mem'[x] = mem[x]
                           \/ \E e : Theirs(t, e) /\ Owns(P, B, e, x) /\ (mem'[x].kind # "arena" \/ P[pg_no(x)] = e),
           ThreadNext(t, Moved(P, g, h), Moved(B, g, h))
    PROVE  MemoryInv'
<1> DEFINE P2 == Moved(P, g, h)
           B2 == Moved(B, g, h)
<1>0. /\ Mapped(P, B, used_map, held) /\ LocksOK(pool_lock, desc_lock) /\ ListsOK(P, B, free_list) /\ MemOK(P, mem)
  BY OwnedIs
<1>1. Owner(g) /\ Owner(h)
  BY DEF Owner
<1>2. /\ Mapped(P2, B2, used_map, held')
      /\ \A n \in Pages, d \in Desc : P2[n] = Of(d) <=> P[n] = Of(d)
      /\ \A n \in Pages : P2[n] = None <=> P[n] = None
      /\ \A a \in Addr : B2[a] = Listed <=> B[a] = Listed
  <2>1. Mapped(P2, B2, used_map, held')
    BY <1>0, <1>1, MapMoves
  <2>2. P = [n \in Pages |-> P[n]] /\ B = [a \in Addr |-> B[a]]
    BY <1>0 DEF Mapped
  <2> QED BY <1>1, <2>1, <2>2, MovedIs
<1>3. \A k : Owner(k) /\ k # g /\ k # h => Same(P, B, P2, B2, k, k)
  BY <1>0, <1>1, Moves
<1> HIDE DEF P2, B2
<1>4. ASSUME NEW u \in Thread, u # t
      PROVE  /\ KeepsTags(u, P, B, P2, B2) /\ KeepsMem(u, P, B, mem, mem')
             /\ KeepsList(u, P, B, desc_lock, free_list, P2, B2, desc_lock', free_list')
             /\ KeepsPool(u, used_map, pool_lock, used_map', pool_lock')
  <2>1. KeepsTags(u, P, B, P2, B2)
    <3> SUFFICES ASSUME NEW k, Theirs(u, k) PROVE Same(P, B, P2, B2, k, k)
      BY DEF KeepsTags
    <3>1. k # g /\ k # h /\ Owner(k)
      BY <1>4, TheirsOnce DEF Owner
    <3> QED BY <1>3, <3>1
  <2>2. KeepsMem(u, P, B, mem, mem')
    <3>1. \A x \in Addr : mem'[x] = mem[x] \/ \E k : Theirs(t, k) /\ Owns(P, B, k, x)
      OBVIOUS
    <3> QED BY <1>4, <3>1, MemMine
  <2>3. KeepsList(u, P, B, desc_lock, free_list, P2, B2, desc_lock', free_list')
    BY <1>2 DEF KeepsList
  <2>4. KeepsPool(u, used_map, pool_lock, used_map', pool_lock')
    BY DEF KeepsPool
  <2> QED BY <2>1, <2>2, <2>3, <2>4
<1>5. ASSUME NEW n \in Pages, NEW d \in Desc, P2[n] = Of(d)
      PROVE  ArenaOK(P2, B2, mem', pc', frame', desc_lock', free_list', n, d)
  <2>1. P[n] = Of(d) /\ Settled(t, d)
    BY <1>2, <1>5 DEF Settled
  <2>2. mem'[page_ptr(n)] = mem[page_ptr(n)]
    <3>1. page_ptr(n) \in Addr
      BY PtrAddr
    <3>2. ASSUME NEW e, Theirs(t, e) PROVE ~Owns(P, B, e, page_ptr(n))
      BY <2>1, <3>2, HeaderNotOwned DEF Owner
    <3> QED BY <3>1, <3>2
  <2>3. \A x \in Addr : pg_no(x) = n /\ x # page_ptr(n) => mem'[x] = mem[x] \/ mem'[x].kind # "arena"
    <3>1. \A e : Theirs(t, e) => P[n] # e
      BY <2>1, Owners DEF Owner
    <3> QED BY <3>1
  <2>4. \A a \in Blocks(n, d) : B2[a] = Listed <=> B[a] = Listed
    BY <1>2, BlockIn
  <2> QED BY <1>4, <2>1, <2>2, <2>3, <2>4, ArenaStep
<1>6. MemOK(P2, mem')
  <2> SUFFICES ASSUME NEW x \in Addr, P2[pg_no(x)] = None, x # NULL PROVE mem'[x].kind # "arena"
    BY DEF MemOK, Clean
  <2>1. P[pg_no(x)] = None /\ pg_no(x) \in Pages
    BY <1>2, AddrIs
  <2>2. mem[x].kind # "arena"
    BY <1>0, <2>1 DEF MemOK, Clean
  <2>3. ASSUME NEW e, Theirs(t, e) PROVE ~Owns(P, B, e, x)
    <3>1. Owner(e)
      BY <2>3 DEF Owner
    <3> QED BY <2>1, <3>1, Owners, TagsDiffer DEF Owns
  <2> QED BY <2>2, <2>3
<1>7. ListsOK(P2, B2, free_list') /\ LocksOK(pool_lock', desc_lock') /\ Mapped(P2, B2, used_map', held')
  BY <1>0, <1>2, ListsMove
<1>8. ThreadNext(t, P2, B2)
  BY DEF P2, B2
<1> QED BY <1>4, <1>5, <1>6, <1>7, <1>8, Step

LEMMA MovedSame ==
    ASSUME NEW P, NEW B, NEW used, NEW hs, Mapped(P, B, used, hs), NEW g
    PROVE  Moved(P, g, g) = P /\ Moved(B, g, g) = B
<1>1. P = [n \in Pages |-> P[n]] /\ B = [a \in Addr |-> B[a]]
  BY DEF Mapped
<1> QED BY <1>1 DEF Moved

\* A step that writes into what thread t has as g.
LEMMA MemStep ==
    ASSUME NEW t \in Thread, NEW P, NEW B, Owned(P, B), Quiet(t), NEW g, g = New(t) \/ g = Gone(t),
           UNCHANGED <<used_map, pool_lock, desc_lock, free_list, held>>, pc[t] \notin {"pop", "unlist"},
           mem' = [x \in Addr |-> mem'[x]],
           \A x \in Addr : mem'[x] = mem[x] \/ (Owns(P, B, g, x) /\ (mem'[x].kind # "arena" \/ P[pg_no(x)] = g)),
           ThreadNext(t, P, B)
    PROVE  MemoryInv'
<1>1. Theirs(t, g) /\ Tag(held', g)
  BY DEF Theirs, Tag
<1>2. Moved(P, g, g) = P /\ Moved(B, g, g) = B
  BY OwnedIs, MovedSame
<1>3. Retagged(held, held', g, g)
  BY <1>1 DEF Retagged
<1>4. ThreadNext(t, Moved(P, g, g), Moved(B, g, g))
  BY <1>2
<1> QED BY <1>1, <1>3, <1>4, MoveStep

-----------------------------------------------------------------------------
(* Steps that change locks and local variables only.                       *)

\* What the program of t has is not touched.
LEMMA HeldKeeps ==
    ASSUME NEW t, NEW c, NEW r, NEW h, NEW P, NEW B, NEW m, HeldOK(t, c, r, h, P, B, m), NEW c2, NEW r2,
           c2 \in Asks /\ r2.req.op = "realloc" => r2.old \in h /\ ~r2.old.paged
    PROVE  HeldOK(t, c2, r2, h, P, B, m)
BY DEF HeldOK

LEMMA Unlocks ==
    ASSUME NEW t \in Thread, NEW P, NEW B, Owned(P, B), pc[t] \in {"got none", "freed"},
           UNCHANGED pool_lock, desc_lock' = [d \in Desc |-> IF d = f(t).desc THEN Nobody ELSE desc_lock[d]]
    PROVE  Locks(t)
<1>1. LocksOK(pool_lock, desc_lock)
  BY OwnedIs
<1>2. ASSUME NEW d \in Desc, d = f(t).desc PROVE desc_lock[d] = t
  <2>1. f(t).desc # 0 /\ pc[t] \in Arranges \cup Releases
    BY <1>2, BlockSizes DEF Arranges, Releases
  <2> QED BY <1>2, <2>1, ThreadIs DEF LockOK, f
<1>3. LocksOK(pool_lock', desc_lock')
  BY <1>1 DEF LocksOK
<1> QED BY <1>2, <1>3 DEF Locks

LEMMA GotNoneKeeps ==
    ASSUME NEW t \in Thread, NEW P, NEW B, Owned(P, B), GotNone(t)
    PROVE  MemoryInv'
<1> DEFINE r == frame[t]
<1>1. /\ pc[t] = "got none" /\ pc' = [pc EXCEPT ![t] = "return"]
      /\ desc_lock' = [d \in Desc |-> IF d = f(t).desc THEN Nobody ELSE desc_lock[d]]
      /\ UNCHANGED <<palloc, free_list, mem, held, frame>>
  BY DEF GotNone, At, Goto
<1>2. pc'[t] = "return" /\ frame'[t] = r /\ held'[t] = held[t] /\ Quiet(t)
  BY <1>1, OwnedIs DEF Quiet
<1>3. Locks(t)
  BY <1>1, Unlocks DEF palloc
<1>4. /\ FrameOK(t, "got none", r) /\ AskOK("got none", r) /\ NewOK(t, "got none", r, P, B, mem)
      /\ GoneOK(t, "got none", r, P, B, mem) /\ HeldOK(t, "got none", r, held[t], P, B, mem)
  BY <1>1, ThreadIs
<1>5. r.ptr = NULL
  BY <1>4 DEF AskOK, Asks
<1>6. FrameOK(t, "return", r) /\ AskOK("return", r)
  BY <1>4 DEF FrameOK, AskOK, Asks, Frees
<1>7. LockOK(t, "return", r, used_map', pool_lock', desc_lock', free_list')
  BY DEF LockOK, Arranges, Releases
<1>8. NewOK(t, "return", r, P, B, mem)
  BY <1>4, <1>5 DEF NewOK, Frees
<1>9. GoneOK(t, "return", r, P, B, mem)
  BY <1>4 DEF GoneOK, Asks
<1>10. ContentOK(t, "return", r, mem)
  BY <1>5 DEF ContentOK
<1>11. HeldOK(t, "return", r, held[t], P, B, mem)
  BY <1>4, HeldKeeps DEF Asks
<1>12. ThreadNext(t, P, B)
  BY <1>1, <1>2, <1>6, <1>7, <1>8, <1>9, <1>10, <1>11 DEF ThreadNext, ThreadOK
<1>13. UNCHANGED <<used_map, free_list, mem, held>>
  BY <1>1 DEF palloc
<1> QED BY <1>1, <1>2, <1>3, <1>12, <1>13, QuietStep

LEMMA FreeUnlockKeeps ==
    ASSUME NEW t \in Thread, NEW P, NEW B, Owned(P, B), FreeUnlock(t)
    PROVE  MemoryInv'
<1> DEFINE r == frame[t]
<1>1. /\ pc[t] = "freed" /\ pc' = [pc EXCEPT ![t] = "return"]
      /\ desc_lock' = [d \in Desc |-> IF d = f(t).desc THEN Nobody ELSE desc_lock[d]]
      /\ UNCHANGED <<palloc, free_list, mem, held, frame>>
  BY DEF FreeUnlock, At, Goto
<1>2. pc'[t] = "return" /\ frame'[t] = r /\ held'[t] = held[t] /\ Quiet(t)
  BY <1>1, OwnedIs DEF Quiet
<1>3. Locks(t)
  BY <1>1, Unlocks DEF palloc
<1>4. /\ FrameOK(t, "freed", r) /\ NewOK(t, "freed", r, P, B, mem) /\ ContentOK(t, "freed", r, mem)
      /\ GoneOK(t, "freed", r, P, B, mem) /\ HeldOK(t, "freed", r, held[t], P, B, mem)
  BY <1>1, ThreadIs
<1>5. r.req.op \in {"free", "realloc"}
  BY <1>4, AnyFrame, AskedFrame DEF Frees
<1>6. FrameOK(t, "return", r) /\ AskOK("return", r)
  BY <1>4 DEF FrameOK, AskOK, Asks, Frees
<1>7. LockOK(t, "return", r, used_map', pool_lock', desc_lock', free_list')
  BY DEF LockOK, Arranges, Releases
<1>8. NewOK(t, "return", r, P, B, mem)
  BY <1>4 DEF NewOK, Frees
<1>9. GoneOK(t, "return", r, P, B, mem)
  BY <1>4 DEF GoneOK
<1>10. ContentOK(t, "return", r, mem)
  BY <1>4, <1>5 DEF ContentOK, Frees
<1>11. HeldOK(t, "return", r, held[t], P, B, mem)
  BY <1>4, HeldKeeps DEF Asks
<1>12. ThreadNext(t, P, B)
  BY <1>1, <1>2, <1>6, <1>7, <1>8, <1>9, <1>10, <1>11 DEF ThreadNext, ThreadOK
<1>13. UNCHANGED <<used_map, free_list, mem, held>>
  BY <1>1 DEF palloc
<1> QED BY <1>1, <1>2, <1>3, <1>12, <1>13, QuietStep

LEMMA MallocKeeps ==
    ASSUME NEW t \in Thread, NEW P, NEW B, Owned(P, B), Malloc(t)
    PROVE  MemoryInv'
<1> DEFINE r == frame[t]
           d == r.desc
           c == IF free_list[d] = <<>> THEN "get" ELSE "pop"
<1>1. /\ pc[t] = "malloc" /\ pc' = [pc EXCEPT ![t] = c]
      /\ desc_lock[d] = Nobody /\ desc_lock' = [desc_lock EXCEPT ![d] = t]
      /\ UNCHANGED <<palloc, free_list, mem, held, frame>>
  BY DEF Malloc, At, Goto, f
<1>2. c \in {"get", "pop"}
  OBVIOUS
<1>3. pc'[t] = c /\ frame'[t] = r /\ held'[t] = held[t] /\ Quiet(t)
  BY <1>1, OwnedIs DEF Quiet
<1>4. /\ FrameOK(t, "malloc", r) /\ AskOK("malloc", r) /\ NewOK(t, "malloc", r, P, B, mem)
      /\ GoneOK(t, "malloc", r, P, B, mem) /\ HeldOK(t, "malloc", r, held[t], P, B, mem)
  BY <1>1, ThreadIs
<1>5. d # 0 /\ d \in Desc
  BY <1>4 DEF AskOK, Asks
<1>6. Locks(t)
  <2>1. LocksOK(pool_lock, desc_lock)
    BY OwnedIs
  <2> QED BY <1>1, <1>5, <2>1 DEF Locks, LocksOK, palloc
<1>7. desc_lock'[d] = t
  BY <1>1, <1>5, OwnedIs DEF LocksOK
<1>8. LockOK(t, c, r, used_map', pool_lock', desc_lock', free_list')
  BY <1>1, <1>2, <1>5, <1>7 DEF LockOK, Arranges, Releases
<1> HIDE DEF c
<1>9. FrameOK(t, c, r) /\ AskOK(c, r)
  BY <1>2, <1>4, <1>5 DEF FrameOK, AskOK, Asks, Frees
<1>10. NewOK(t, c, r, P, B, mem)
  BY <1>2, <1>4 DEF NewOK, Frees
<1>11. GoneOK(t, c, r, P, B, mem)
  BY <1>2, <1>4 DEF GoneOK, Asks
<1>12. ContentOK(t, c, r, mem)
  BY <1>2 DEF ContentOK, Frees
<1>13. HeldOK(t, c, r, held[t], P, B, mem)
  <2>1. r.req.op = "realloc" => r.old \in held[t] /\ ~r.old.paged
    BY <1>4 DEF HeldOK, Asks
  <2> QED BY <1>4, <2>1, HeldKeeps
<1>14. ThreadNext(t, P, B)
  BY <1>1, <1>3, <1>8, <1>9, <1>10, <1>11, <1>12, <1>13 DEF ThreadNext, ThreadOK
<1>15. UNCHANGED <<used_map, free_list, mem, held>>
  BY <1>1 DEF palloc
<1> QED BY <1>1, <1>3, <1>6, <1>14, <1>15, QuietStep

-----------------------------------------------------------------------------
(* The pools, and the search for pages.                                    *)

LEMMA PoolIs ==
    ASSUME NEW p \in Pool
    PROVE  /\ First(p) \in Nat /\ First(p) > 0 /\ Last(p) \in Int /\ Last(p) <= KernelPages + UserPages
           /\ PoolPages(p) \subseteq Pages
           /\ \A n \in Nat : n \in PoolPages(p) <=> First(p) <= n /\ n <= Last(p)
<1> DEFINE K == KernelPages
           N == KernelPages + UserPages
<1>1. K \in Nat /\ K > 0 /\ UserPages \in Nat /\ N \in Nat /\ K <= N /\ N - K = UserPages
  BY Sizes
<1>2. Pages = 1..N
  BY DEF Pages
<1>3. CASE p = "kernel"
  <2>1. PoolPages(p) = 1..K /\ First(p) = 1
    BY <1>3 DEF PoolPages, First
  <2>2. Cardinality(1..K) = K
    <3>1. 1 \in Int /\ K \in Int /\ ~(1 > K) /\ K - 1 + 1 = K
      BY <1>1
    <3> HIDE DEF K
    <3> QED BY <3>1, FS_Interval
  <2>3. Last(p) = K
    BY <1>1, <2>1, <2>2 DEF Last
  <2> QED BY <1>1, <1>2, <2>1, <2>3
<1>4. CASE p = "user"
  <2>1. PoolPages(p) = (K + 1)..N /\ First(p) = K + 1
    BY <1>1, <1>2, <1>4 DEF PoolPages, First
  <2>2. Cardinality((K + 1)..N) = N - K
    <3>1. K + 1 \in Int /\ N \in Int /\ N - (K + 1) + 1 = N - K /\ (K + 1 > N => N - K = 0)
      BY <1>1
    <3> HIDE DEF K, N
    <3> QED BY <3>1, FS_Interval
  <2>3. Last(p) = N
    <3> HIDE DEF K, N
    <3>1. Last(p) = (K + 1) + (N - K) - 1
      BY <2>1, <2>2 DEF Last
    <3> QED BY <1>1, <3>1
  <2> QED BY <1>1, <1>2, <2>1, <2>3
<1> QED BY <1>3, <1>4 DEF Pool

\* A frame with some local variables changed.
Like(r, r2) == /\ r2.req = r.req /\ r2.old = r.old

LEMMA LikeSame ==
    ASSUME NEW r, NEW r2, Like(r, r2)
    PROVE  Promise(r2) = Promise(r) /\ From(r2) = From(r) /\ Kept(r2) = Kept(r)
BY DEF Like, Promise, From, Kept

LEMMA Looks ==
    ASSUME NEW t, NEW r \in AskFrame(t), NEW a \in Nat, NEW b \in Nat, NEW r2, r2 = [r EXCEPT !.first = a, !.bit = b]
    PROVE  /\ r2 \in AskFrame(t) /\ Like(r, r2) /\ r2.first = a /\ r2.bit = b
           /\ r2.ptr = r.ptr /\ r2.gone = r.gone /\ r2.desc = r.desc /\ r2.cnt = r.cnt
BY DEF AskFrame, Like

LEMMA StillAsks ==
    ASSUME NEW t, NEW c \in Asks, NEW r, FrameOK(t, c, r), NEW c2 \in Asks \cup {"return"},
           NEW r2 \in AskFrame(t), Like(r, r2)
    PROVE  FrameOK(t, c2, r2)
<1>1. Promise(r2) = Promise(r)
  BY LikeSame
<1>2. r \in AskFrame(t)
  BY DEF FrameOK
<1>3. c2 \notin Frees /\ c2 # "program"
  BY DEF Asks, Frees
<1> QED BY <1>1, <1>2, <1>3 DEF FrameOK, Like

LEMMA GetLockKeeps ==
    ASSUME NEW t \in Thread, NEW P, NEW B, Owned(P, B), GetLock(t)
    PROVE  MemoryInv'
<1> DEFINE r == frame[t]
           p == From(r)
           r2 == frame'[t]
<1>0. pc[t] = "get" /\ FrameOK(t, "get", r) /\ AskOK("get", r) /\ PoolOf(t) = p
  BY ThreadIs DEF GetLock, At, PoolOf, From, f
<1>1. r.cnt # 0 /\ r.ptr = NULL /\ r.cnt > 0
  <2>1. r.cnt > 0 /\ r.ptr = NULL
    BY <1>0 DEF AskOK, Asks
  <2>2. r.cnt \in Nat
    BY <1>0, AnyFrame
  <2> QED BY <2>1, <2>2
<1>2. /\ pool_lock[p] = Nobody /\ pool_lock' = [pool_lock EXCEPT ![p] = t] /\ pc' = [pc EXCEPT ![t] = "scan"]
      /\ frame' = [frame EXCEPT ![t].first = First(p), ![t].bit = 0]
      /\ UNCHANGED <<used_map, blocks, mem, held>>
  BY <1>0, <1>1 DEF GetLock, Goto, f
<1>3. r2 = [r EXCEPT !.first = First(p), !.bit = 0]
  BY <1>2, OwnedIs
<1>4. pc'[t] = "scan" /\ held'[t] = held[t] /\ Quiet(t)
  BY <1>2, OwnedIs DEF Quiet
<1>5. r \in AskFrame(t) /\ p \in Pool
  BY <1>0, AnyFrame, AskedFrame DEF Asks
<1>6. First(p) \in Nat
  BY <1>5, PoolIs
<1> HIDE DEF r2
<1>7. /\ r2 \in AskFrame(t) /\ Like(r, r2) /\ r2.first = First(p) /\ r2.bit = 0
      /\ r2.ptr = r.ptr /\ r2.gone = r.gone /\ r2.desc = r.desc /\ r2.cnt = r.cnt
  BY <1>3, <1>5, <1>6 DEF AskFrame, Like
<1>8. Promise(r2) = Promise(r) /\ From(r2) = p /\ r2.req = r.req /\ r2.old = r.old
  BY <1>7, LikeSame DEF Like
<1>9. FrameOK(t, "scan", r2)
  BY <1>0, <1>7, StillAsks DEF Asks
<1>10. AskOK("scan", r2)
  BY <1>0, <1>7, <1>8 DEF AskOK, Asks
<1>11. /\ LockOK(t, "get", r, used_map, pool_lock, desc_lock, free_list) /\ NewOK(t, "get", r, P, B, mem)
       /\ GoneOK(t, "get", r, P, B, mem) /\ HeldOK(t, "get", r, held[t], P, B, mem)
       /\ LocksOK(pool_lock, desc_lock)
  BY <1>0, ThreadIs, OwnedIs
<1>12. LocksOK(pool_lock', desc_lock') /\ pool_lock'[p] = t /\ Locks(t)
  BY <1>2, <1>5, <1>11 DEF LocksOK, Locks, blocks
<1>13. LockOK(t, "scan", r2, used_map', pool_lock', desc_lock', free_list')
  BY <1>1, <1>2, <1>6, <1>7, <1>8, <1>11, <1>12 DEF LockOK, Arranges, Releases, blocks
<1>14. NewOK(t, "scan", r2, P, B, mem)
  BY <1>8, <1>11 DEF NewOK, Frees
<1>15. GoneOK(t, "scan", r2, P, B, mem)
  BY <1>11 DEF GoneOK, Asks
<1>16. ContentOK(t, "scan", r2, mem)
  BY DEF ContentOK, Frees
<1>17. HeldOK(t, "scan", r2, held[t], P, B, mem)
  <2>1. r.req.op = "realloc" => r.old \in held[t] /\ ~r.old.paged
    BY <1>11 DEF HeldOK, Asks
  <2> QED BY <1>8, <1>11, <2>1, HeldKeeps
<1>18. ThreadNext(t, P, B)
  BY <1>2, <1>4, <1>9, <1>10, <1>13, <1>14, <1>15, <1>16, <1>17 DEF ThreadNext, ThreadOK, r2
<1>19. UNCHANGED <<used_map, free_list, mem, held>> /\ pc[t] \notin {"pop", "unlist"}
  BY <1>0, <1>2 DEF blocks
<1> QED BY <1>4, <1>12, <1>18, <1>19, QuietStep

\* The next place and frame of a thread that searches.
LEMMA ScanNext ==
    ASSUME NEW t \in Thread, NEW P, NEW B, Owned(P, B), Scan(t)
    PROVE  LET r == frame[t]
               p == From(r)
               r2 == frame'[t]
           IN  /\ pc[t] = "scan" /\ r \in AskFrame(t) /\ p \in Pool
               /\ r.first \in Nat /\ r.bit \in Nat /\ r.cnt \in Nat /\ r.bit < r.cnt /\ First(p) <= r.first
               /\ Quiet(t) /\ Locks(t) /\ UNCHANGED <<used_map, free_list, desc_lock, mem, held>>
               /\ \/ pc'[t] = "got none" /\ r2 = r
                  \/ /\ pc'[t] \in {"scan", "flip"} /\ r.first + r.cnt - 1 <= Last(p) /\ UNCHANGED pool_lock
                     /\ r2 \in AskFrame(t) /\ Like(r, r2)
                     /\ r2.ptr = r.ptr /\ r2.gone = r.gone /\ r2.desc = r.desc /\ r2.cnt = r.cnt
                     /\ \/ pc'[t] = "scan" /\ r2.first = r.first + 1 /\ r2.bit = 0
                        \/ /\ r2.first = r.first /\ r.first + r.bit \notin used_map
                           /\ \/ pc'[t] = "scan" /\ r2.bit = r.bit + 1 /\ r.bit + 1 < r.cnt
                              \/ pc'[t] = "flip" /\ r2.bit = 0 /\ r.bit + 1 = r.cnt
<1> DEFINE r == frame[t]
           p == From(r)
           r2 == frame'[t]
           a == IF r.first + r.bit \in used_map THEN r.first + 1 ELSE r.first
           b == IF r.first + r.bit \in used_map \/ r.bit + 1 = r.cnt THEN 0 ELSE r.bit + 1
           c == IF r.first + r.bit \notin used_map /\ r.bit + 1 = r.cnt THEN "flip" ELSE "scan"
<1>0. pc[t] = "scan" /\ FrameOK(t, "scan", r) /\ PoolOf(t) = p
  BY ThreadIs DEF Scan, At, PoolOf, From, f
<1>1. r \in AskFrame(t) /\ p \in Pool /\ r.first \in Nat /\ r.bit \in Nat /\ r.cnt \in Nat
  BY <1>0, AnyFrame, AskedFrame DEF Asks
<1>2. pool_lock[p] = t /\ First(p) <= r.first /\ r.bit < r.cnt
  BY <1>0, ThreadIs DEF LockOK
<1>3. LocksOK(pool_lock, desc_lock) /\ pc = [u \in Thread |-> pc[u]] /\ frame = [u \in Thread |-> frame[u]]
      /\ held = [u \in Thread |-> held[u]]
  BY OwnedIs
<1>4. UNCHANGED <<used_map, free_list, desc_lock, mem, held>>
  BY DEF Scan, blocks
<1>5. CASE r.first + r.cnt - 1 > Last(p)
  <2>1. /\ pc' = [pc EXCEPT ![t] = "got none"] /\ UNCHANGED frame
        /\ pool_lock' = [pool_lock EXCEPT ![p] = Nobody]
    BY <1>0, <1>5 DEF Scan, Goto, f
  <2>2. Quiet(t) /\ pc'[t] = "got none" /\ r2 = r
    BY <1>3, <1>4, <2>1 DEF Quiet
  <2>3. Locks(t)
    BY <1>1, <1>2, <1>3, <1>4, <2>1 DEF Locks, LocksOK
  <2> HIDE DEF p, r
  <2> QED BY <1>0, <1>1, <1>2, <1>4, <2>2, <2>3 DEF p, r
<1>6. CASE ~(r.first + r.cnt - 1 > Last(p))
  <2>1. /\ pc' = [pc EXCEPT ![t] = c] /\ UNCHANGED pool_lock
        /\ frame' = [frame EXCEPT ![t].first = a, ![t].bit = b]
    BY <1>0, <1>6 DEF Scan, Goto, f
  <2> HIDE DEF a, b, c
  <2>2. Quiet(t) /\ pc'[t] = c /\ r2 = [r EXCEPT !.first = a, !.bit = b]
    BY <1>3, <1>4, <2>1 DEF Quiet
  <2>3. a \in Nat /\ b \in Nat
    BY <1>1 DEF a, b
  <2>4. Locks(t)
    BY <1>3, <1>4, <2>1 DEF Locks
  <2> HIDE DEF r2
  <2>5. /\ r2 \in AskFrame(t) /\ Like(r, r2) /\ r2.first = a /\ r2.bit = b
        /\ r2.ptr = r.ptr /\ r2.gone = r.gone /\ r2.desc = r.desc /\ r2.cnt = r.cnt
    BY <1>1, <2>2, <2>3 DEF AskFrame, Like
  <2>6. r.first + r.cnt - 1 <= Last(p)
    BY <1>1, <1>6, PoolIs
  <2>7. \/ pc'[t] = "scan" /\ r2.first = r.first + 1 /\ r2.bit = 0
        \/ /\ r2.first = r.first /\ r.first + r.bit \notin used_map
           /\ \/ pc'[t] = "scan" /\ r2.bit = r.bit + 1 /\ r.bit + 1 < r.cnt
              \/ pc'[t] = "flip" /\ r2.bit = 0 /\ r.bit + 1 = r.cnt
    <3> HIDE DEF r, p
    <3> QED BY <1>1, <1>2, <2>2, <2>5 DEF a, b, c
  <2>8. pc'[t] \in {"scan", "flip"}
    BY <2>7
  <2> HIDE DEF r, p
  <2> QED BY <1>0, <1>1, <1>2, <1>4, <2>1, <2>2, <2>4, <2>5, <2>6, <2>7, <2>8 DEF r2, r, p
<1> QED BY <1>5, <1>6

LEMMA ScanKeeps ==
    ASSUME NEW t \in Thread, NEW P, NEW B, Owned(P, B), Scan(t)
    PROVE  MemoryInv'
<1> DEFINE r == frame[t]
           p == From(r)
           r2 == frame'[t]
           c2 == pc'[t]
<1>1. /\ pc[t] = "scan" /\ r \in AskFrame(t) /\ p \in Pool
      /\ r.first \in Nat /\ r.bit \in Nat /\ r.cnt \in Nat /\ r.bit < r.cnt /\ First(p) <= r.first
      /\ Quiet(t) /\ Locks(t) /\ UNCHANGED <<used_map, free_list, desc_lock, mem, held>>
  BY ScanNext
<1>2. \/ c2 = "got none" /\ r2 = r
      \/ /\ c2 \in {"scan", "flip"} /\ r.first + r.cnt - 1 <= Last(p) /\ UNCHANGED pool_lock
         /\ r2 \in AskFrame(t) /\ Like(r, r2)
         /\ r2.ptr = r.ptr /\ r2.gone = r.gone /\ r2.desc = r.desc /\ r2.cnt = r.cnt
         /\ \/ c2 = "scan" /\ r2.first = r.first + 1 /\ r2.bit = 0
            \/ /\ r2.first = r.first /\ r.first + r.bit \notin used_map
               /\ \/ c2 = "scan" /\ r2.bit = r.bit + 1 /\ r.bit + 1 < r.cnt
                  \/ c2 = "flip" /\ r2.bit = 0 /\ r.bit + 1 = r.cnt
  BY ScanNext
<1>3. /\ FrameOK(t, "scan", r) /\ AskOK("scan", r)
      /\ LockOK(t, "scan", r, used_map, pool_lock, desc_lock, free_list) /\ NewOK(t, "scan", r, P, B, mem)
      /\ GoneOK(t, "scan", r, P, B, mem) /\ HeldOK(t, "scan", r, held[t], P, B, mem)
  BY <1>1, ThreadIs
<1> HIDE DEF r, r2, c2
<1>4. r2 \in AskFrame(t) /\ Like(r, r2) /\ c2 \in {"scan", "flip", "got none"} /\ r2.ptr = r.ptr /\ r2.gone = r.gone
      /\ r2.desc = r.desc /\ r2.cnt = r.cnt
  BY <1>1, <1>2 DEF Like
<1>5. Promise(r2) = Promise(r) /\ From(r2) = p /\ r2.req = r.req /\ r2.old = r.old
  BY <1>4, LikeSame DEF Like
<1>6. FrameOK(t, c2, r2)
  BY <1>3, <1>4, StillAsks DEF Asks
<1>7. AskOK(c2, r2)
  BY <1>3, <1>4, <1>5 DEF AskOK, Asks
<1>8. r.desc # 0 => r.desc \in Desc /\ desc_lock[r.desc] = t /\ free_list[r.desc] = <<>>
  BY <1>3 DEF LockOK, Arranges
<1>9. \A i \in 0..(r.bit - 1) : r.first + i \in PoolPages(p) \ used_map
  BY <1>3 DEF LockOK
<1>10. First(p) \in Nat /\ Last(p) \in Int /\ \A n \in Nat : n \in PoolPages(p) <=> First(p) <= n /\ n <= Last(p)
  BY <1>1, PoolIs
<1>11. ASSUME r.first + r.cnt - 1 <= Last(p), r.first + r.bit \notin used_map
       PROVE  \A i \in 0..r.bit : r.first + i \in PoolPages(p) \ used_map
  <2>1. r.first + r.bit \in PoolPages(p)
    BY <1>1, <1>10, <1>11
  <2>2. \A i \in 0..r.bit : i = r.bit \/ i \in 0..(r.bit - 1)
    BY <1>1
  <2> QED BY <1>9, <1>11, <2>1, <2>2
<1>12. LockOK(t, c2, r2, used_map, pool_lock', desc_lock, free_list)
  <2>1. CASE c2 = "got none"
    BY <1>4, <1>8, <2>1 DEF LockOK, Arranges, Releases
  <2>2. CASE c2 # "got none"
    <3>1. pool_lock' = pool_lock /\ r.first + r.cnt - 1 <= Last(p) /\ pool_lock[p] = t
      BY <1>2, <1>3, <2>2 DEF LockOK
    <3>2. First(p) <= r2.first /\ r2.bit < r2.cnt /\ r2.bit \in Nat
      <4>1. r2.cnt = r.cnt /\ r.cnt \in Nat /\ r.bit \in Nat /\ r.first \in Nat /\ First(p) \in Nat
        BY <1>1, <1>4, <1>10
      <4>2. First(p) <= r.first /\ r.bit < r.cnt
        BY <1>1
      <4>3. \/ r2.first = r.first + 1 /\ r2.bit = 0
            \/ r2.first = r.first /\ r2.bit = r.bit + 1 /\ r.bit + 1 < r.cnt
            \/ r2.first = r.first /\ r2.bit = 0
        BY <1>2, <2>2
      <4> QED BY <4>1, <4>2, <4>3
    <3>3. ASSUME c2 = "scan" PROVE \A i \in 0..(r2.bit - 1) : r2.first + i \in PoolPages(p) \ used_map
      <4>1. CASE r2.bit = 0
        BY <4>1
      <4>2. CASE r2.bit # 0
        <5>1. r2.first = r.first /\ r.first + r.bit \notin used_map /\ r2.bit = r.bit + 1
          BY <1>2, <2>2, <3>3, <4>2
        <5>2. r2.bit - 1 = r.bit
          BY <1>1, <5>1
        <5> QED BY <1>11, <3>1, <5>1, <5>2
      <4> QED BY <4>1, <4>2
    <3>4. ASSUME c2 = "flip" PROVE \A i \in 0..(r2.cnt - 1) : r2.first + i \in PoolPages(p) /\ r2.first + i \notin used_map
      <4>1. r2.first = r.first /\ r.first + r.bit \notin used_map /\ r.bit + 1 = r.cnt
        BY <1>2, <2>2, <3>4
      <4>3. r2.cnt = r.cnt /\ r.cnt \in Nat /\ r.bit \in Nat
        BY <1>1, <1>4
      <4>2. r2.cnt - 1 = r.bit
        BY <4>1, <4>3
      <4> QED BY <1>11, <3>1, <4>1, <4>2
    <3>5. c2 = "flip" => r2.bit = 0
      BY <1>2, <2>2
    <3>6. c2 \in {"scan", "flip"}
      BY <1>4, <2>2
    <3> QED BY <1>4, <1>5, <1>8, <3>1, <3>2, <3>3, <3>4, <3>5, <3>6 DEF LockOK, Arranges, Releases
  <2> QED BY <2>1, <2>2
<1>13. NewOK(t, c2, r2, P, B, mem)
  <2>1. Nothing(P, B, New(t))
    BY <1>3 DEF NewOK
  <2>2. ASSUME c2 = "flip" PROVE PagesAre(P, B, New(t), r2.first, r2.bit) /\ Clean(P, mem, New(t), NULL)
    <3>1. r2.bit = 0 /\ r2.first = r.first /\ r.first + r.bit \notin used_map /\ r.first + r.cnt - 1 <= Last(p)
      BY <1>2, <2>2
    <3>2. r.first \in PoolPages(p)
      BY <1>1, <1>10, <3>1
    <3>3. r.first \in Pages /\ r.first > 0 /\ r.first <= KernelPages + UserPages
      BY <1>1, <3>2, PoolIs, PagesNat
    <3>4. KernelPages + UserPages \in Nat
      BY PagesNat
    <3>5. r.first + 0 - 1 <= KernelPages + UserPages
      BY <1>1, <3>3, <3>4
    <3>6. \A j \in Pages : P[j] = New(t) <=> r.first <= j /\ j < r.first + 0
      BY <1>1, <2>1, PagesNat DEF Nothing, NoPage
    <3>7. PagesAre(P, B, New(t), r.first, 0)
      BY <2>1, <3>3, <3>5, <3>6 DEF PagesAre, Nothing
    <3>8. Clean(P, mem, New(t), NULL)
      BY <2>1, AddrIs DEF Clean, Nothing, NoPage
    <3> QED BY <3>1, <3>7, <3>8
  <2>3. \A n \in Pages : P[n] = New(t) => n \in PoolPages(From(r2))
    BY <2>1 DEF Nothing, NoPage
  <2> QED BY <1>4, <2>1, <2>2, <2>3 DEF NewOK, Frees
<1>14. GoneOK(t, c2, r2, P, B, mem)
  BY <1>3, <1>4 DEF GoneOK, Asks
<1>15. ContentOK(t, c2, r2, mem)
  BY <1>4 DEF ContentOK, Frees
<1>16. HeldOK(t, c2, r2, held[t], P, B, mem)
  <2>1. r.req.op = "realloc" => r.old \in held[t] /\ ~r.old.paged
    BY <1>3 DEF HeldOK, Asks
  <2> QED BY <1>3, <1>5, <2>1, HeldKeeps
<1>17. ThreadNext(t, P, B)
  BY <1>1, <1>6, <1>7, <1>12, <1>13, <1>14, <1>15, <1>16 DEF ThreadNext, ThreadOK, r2, c2
<1> QED BY <1>1, <1>17, QuietStep

-----------------------------------------------------------------------------
(* A call begins.                                                          *)

Bytes(r) == IF r.op = "calloc" THEN r.a * r.b ELSE r.a

\* What programs ask malloc, calloc and realloc for is not so large that the sum of its
\* size, the header and a page wraps around.
SizesFit ==
    \A t \in Thread : \A r \in Requests[t] :
        r.op \in {"malloc", "calloc", "realloc"} /\ ~NothingToDo(r) => Bytes(r) + ArenaSize + PGSIZE <= SizeMod

Below == {xy \in Nat \X Nat : xy[1] < xy[2]}

LEMMA LeastIn ==
    ASSUME NEW S \in SUBSET Nat, S # {}
    PROVE  \E n \in S : \A m \in S : n <= m
<1>1. IsWellFoundedOn(Below, Nat)
  BY NatLessThanWellFounded DEF OpToRel, Below
<1>2. PICK x \in S : \A y \in S : ~(<<y, x>> \in Below)
  BY <1>1, WFMin
<1>3. ASSUME NEW y \in S PROVE x <= y
  <2>1. x \in Nat /\ y \in Nat
    OBVIOUS
  <2>2. ~(y < x)
    BY <1>2, <2>1 DEF Below
  <2> QED BY <2>1, <2>2
<1> QED BY <1>3

LEMMA Modulo ==
    ASSUME NEW x \in Nat, NEW m \in Nat, x < m
    PROVE  x % m = x
OBVIOUS

LEMMA RoundUp ==
    ASSUME NEW x \in Nat, x > 0, x + PGSIZE <= SizeMod
    PROVE  /\ DIV_ROUND_UP(x) \in Nat /\ DIV_ROUND_UP(x) > 0
           /\ x <= DIV_ROUND_UP(x) * PGSIZE /\ DIV_ROUND_UP(x) * PGSIZE < x + PGSIZE
<1> DEFINE y == x + PGSIZE - 1
           k == y \div PGSIZE
<1>1. PGSIZE \in Nat /\ PGSIZE > 0 /\ SizeMod \in Nat
  BY Sizes
<1>2. y \in Nat /\ y < SizeMod
  BY <1>1
<1>3. y % SizeMod = y
  <2> HIDE DEF y
  <2> QED BY <1>1, <1>2, Modulo
<1>4. DIV_ROUND_UP(x) = k
  BY <1>3 DEF DIV_ROUND_UP
<1>5. k \in Nat /\ PGSIZE * k <= y /\ y < PGSIZE * k + PGSIZE
  <2> HIDE DEF y
  <2> QED BY <1>1, <1>2
<1> HIDE DEF k
<1>6. PGSIZE * k = k * PGSIZE /\ k * PGSIZE \in Nat
  BY <1>1, <1>5
<1>7. k # 0
  <2> SUFFICES ASSUME k = 0 PROVE FALSE
    OBVIOUS
  <2>1. k * PGSIZE = 0
    BY <1>1
  <2> QED BY <1>1, <1>5, <1>6, <2>1
<1>8. x <= k * PGSIZE /\ k * PGSIZE < x + PGSIZE
  BY <1>1, <1>5, <1>6
<1> QED BY <1>4, <1>5, <1>7, <1>8

\* What the frame of a call asks for.
LEMMA AskFits ==
    ASSUME SizesFit, NEW t \in Thread, NEW r \in Requests[t], r.op # "free", ~NothingToDo(r), r.a # 0
    PROVE  LET small == Suitable(Size(r))
               k == DIV_ROUND_UP((Size(r) + ArenaSize) % SizeMod)
               d == CHOOSE e \in small : \A i \in small : e <= i
           IN  /\ r.a \in Nat /\ r.b \in Nat /\ r.a > 0
               /\ r.op # "page" =>
                     /\ Size(r) = Bytes(r) /\ Bytes(r) \in Nat /\ Bytes(r) > 0
                     /\ small = {} => /\ k \in Nat /\ k > 0 /\ ArenaSize + Bytes(r) <= k * PGSIZE
                                      /\ k * PGSIZE < ArenaSize + Bytes(r) + PGSIZE
                     /\ small # {} => d \in Desc /\ d \in Nat /\ d # 0 /\ Bytes(r) <= BlockSize(d)
<1> DEFINE s == Bytes(r)
           small == Suitable(Size(r))
           d == CHOOSE e \in small : \A i \in small : e <= i
           k == DIV_ROUND_UP((Size(r) + ArenaSize) % SizeMod)
<1>1. r.a \in Nat /\ r.b \in Nat /\ r.a > 0 /\ r.op \in {"page", "malloc", "calloc", "realloc"}
  BY MemoryAssumption
<1>2. PGSIZE \in Nat /\ PGSIZE > 0 /\ SizeMod \in Nat /\ ArenaSize \in Nat /\ ArenaSize > 0
  BY Sizes
<1> SUFFICES ASSUME r.op # "page"
             PROVE  /\ Size(r) = s /\ s \in Nat /\ s > 0
                    /\ small = {} => /\ k \in Nat /\ k > 0 /\ ArenaSize + s <= k * PGSIZE
                                     /\ k * PGSIZE < ArenaSize + s + PGSIZE
                    /\ small # {} => d \in Desc /\ d \in Nat /\ d # 0 /\ s <= BlockSize(d)
  BY <1>1
<1>3. s + ArenaSize + PGSIZE <= SizeMod
  BY <1>1 DEF SizesFit
<1>4. s \in Nat
  BY <1>1 DEF Bytes
<1>5. Size(r) = s
  <2>1. CASE r.op = "calloc"
    <3>1. s = r.a * r.b /\ Size(r) = s % SizeMod
      BY <2>1 DEF Bytes, Size
    <3> HIDE DEF s
    <3>2. s < SizeMod
      BY <1>2, <1>3, <1>4
    <3> QED BY <1>2, <1>4, <3>1, <3>2, Modulo
  <2>2. CASE r.op # "calloc"
    BY <2>2 DEF Bytes, Size
  <2> QED BY <2>1, <2>2
<1>6. s > 0
  <2>1. s # 0
    <3>1. r.op = "realloc" => s = r.a
      BY DEF Bytes
    <3> QED BY <1>1, <1>5, <3>1 DEF NothingToDo
  <2> QED BY <1>4, <2>1
<1>7. /\ k \in Nat /\ k > 0 /\ ArenaSize + s <= k * PGSIZE
      /\ k * PGSIZE < ArenaSize + s + PGSIZE
  <2> DEFINE x == s + ArenaSize
  <2>1. x \in Nat /\ x > 0 /\ x + PGSIZE <= SizeMod /\ x < SizeMod /\ x = ArenaSize + s
    <3> HIDE DEF s
    <3> QED BY <1>2, <1>3, <1>4
  <2>2. (Size(r) + ArenaSize) % SizeMod = x
    <3>1. Size(r) + ArenaSize = x
      BY <1>5
    <3> HIDE DEF x
    <3> QED BY <1>2, <2>1, <3>1, Modulo
  <2>3. k = DIV_ROUND_UP(x)
    BY <2>2
  <2> HIDE DEF x, k, s
  <2> QED BY <2>1, <2>3, RoundUp
<1>8. ASSUME small # {} PROVE d \in Desc /\ d \in Nat /\ d # 0 /\ s <= BlockSize(d)
  <2>1. small \in SUBSET Nat /\ \A e \in small : e \in Desc /\ BlockSize(e) >= s
    BY <1>5, BlockSizes DEF Suitable
  <2>2. \E e \in small : \A i \in small : e <= i
    BY <1>8, <2>1, LeastIn
  <2>3. d \in small
    BY <2>2
  <2> HIDE DEF small, d, s
  <2> QED BY <1>4, <2>1, <2>3, BlockSizes
<1> HIDE DEF s, small, d, k
<1> QED BY <1>4, <1>5, <1>6, <1>7, <1>8

LEMMA AskNext ==
    ASSUME SizesFit, NEW t \in Thread, NEW P, NEW B, Owned(P, B), NEW q \in Requests[t], NEW old, Ask(t, q, old)
    PROVE  LET r2 == frame'[t]
               c2 == pc'[t]
           IN  /\ pc[t] = "program" /\ Quiet(t) /\ UNCHANGED <<palloc, blocks, mem, held>>
               /\ r2 \in AskFrame(t) /\ r2.req = q /\ q.op \in {"page", "malloc", "calloc", "realloc"}
               /\ q.a \in Nat /\ q.a > 0 /\ r2.cnt \in Nat /\ r2.cnt > 0 /\ r2.ptr = NULL
               /\ q.op = "realloc" => r2.old \in held[t] /\ ~r2.old.paged /\ r2.old \in BlockRecord
               /\ q.op = "page" => c2 = "get" /\ r2.desc = 0 /\ r2.cnt = q.a
               /\ q.op # "page" =>
                     /\ Size(q) = Bytes(q) /\ Bytes(q) \in Nat /\ Bytes(q) > 0
                     /\ \/ /\ c2 = "get" /\ r2.desc = 0 /\ ArenaSize + Bytes(q) <= r2.cnt * PGSIZE
                           /\ r2.cnt * PGSIZE < ArenaSize + Bytes(q) + PGSIZE
                        \/ c2 = "malloc" /\ r2.desc \in Desc /\ r2.desc # 0 /\ Bytes(q) <= BlockSize(r2.desc) /\ r2.cnt = 1
<1> DEFINE small == Suitable(Size(q))
           big == q.op # "page" /\ small = {}
           d == CHOOSE e \in small : \A i \in small : e <= i
           k == DIV_ROUND_UP((Size(q) + ArenaSize) % SizeMod)
           r2 == frame'[t]
           c2 == pc'[t]
           de == IF q.op = "page" \/ big THEN 0 ELSE d
           cn == CASE q.op = "page" -> q.a [] big -> k [] OTHER -> 1
           pl == IF q.op = "page" \/ big THEN "get" ELSE "malloc"
<1>1. /\ pc[t] = "program" /\ q.op # "free" /\ ~NothingToDo(q) /\ q.a # 0
      /\ IF q.op = "realloc" THEN old \in held[t] /\ ~old.paged ELSE old = Nobody
      /\ UNCHANGED <<palloc, blocks, mem, held>>
  BY DEF Ask, At
<1>2. /\ frame' = [frame EXCEPT ![t] =
              [req |-> q, old |-> old, ptr |-> NULL, gone |-> NULL, first |-> 0, bit |-> 0, desc |-> de, cnt |-> cn]]
      /\ pc' = [pc EXCEPT ![t] = pl]
  BY DEF Ask, Goto
<1>3. /\ q.a \in Nat /\ q.b \in Nat /\ q.a > 0
      /\ q.op # "page" =>
            /\ Size(q) = Bytes(q) /\ Bytes(q) \in Nat /\ Bytes(q) > 0
            /\ small = {} => /\ k \in Nat /\ k > 0 /\ ArenaSize + Bytes(q) <= k * PGSIZE
                             /\ k * PGSIZE < ArenaSize + Bytes(q) + PGSIZE
            /\ small # {} => d \in Desc /\ d \in Nat /\ d # 0 /\ Bytes(q) <= BlockSize(d)
  BY <1>1, AskFits
<1> HIDE DEF k, d, small
<1>4. de \in Nat /\ cn \in Nat /\ cn > 0
  BY <1>3
<1>5. q.op = "page" => pl = "get" /\ de = 0 /\ cn = q.a
  OBVIOUS
<1>6. q.op # "page" =>
        \/ /\ pl = "get" /\ de = 0 /\ ArenaSize + Bytes(q) <= cn * PGSIZE
           /\ cn * PGSIZE < ArenaSize + Bytes(q) + PGSIZE
        \/ pl = "malloc" /\ de \in Desc /\ de # 0 /\ Bytes(q) <= BlockSize(de) /\ cn = 1
  BY <1>3
<1>7. \A b \in held[t] : b \in BlockRecord
  BY ThreadIs DEF HeldOK
<1>8. q.op \in {"page", "malloc", "calloc", "realloc"}
  BY <1>1, MemoryAssumption
<1> HIDE DEF de, cn, pl, big
<1>9. /\ r2 = [req |-> q, old |-> old, ptr |-> NULL, gone |-> NULL, first |-> 0, bit |-> 0, desc |-> de, cnt |-> cn]
      /\ c2 = pl
  BY <1>2, OwnedIs
<1>10. Quiet(t)
  BY <1>1, <1>2, OwnedIs DEF Quiet
<1> HIDE DEF r2, c2
<1>11. old \in BlockRecord \cup {Nobody}
  BY <1>1, <1>7
<1>12. /\ r2 \in AskFrame(t) /\ r2.req = q /\ r2.ptr = NULL /\ r2.old = old
       /\ r2.desc = de /\ r2.cnt = cn
  BY <1>4, <1>9, <1>11 DEF AskFrame, NULL
<1>13. q.op = "realloc" => r2.old \in held[t] /\ ~r2.old.paged /\ r2.old \in BlockRecord
  BY <1>1, <1>7, <1>12
<1> QED BY <1>1, <1>3, <1>4, <1>5, <1>6, <1>8, <1>9, <1>10, <1>12, <1>13 DEF r2, c2

LEMMA AskKeeps ==
    ASSUME SizesFit, NEW t \in Thread, NEW P, NEW B, Owned(P, B), NEW q \in Requests[t], NEW old, Ask(t, q, old)
    PROVE  MemoryInv'
<1> DEFINE r2 == frame'[t]
           c2 == pc'[t]
<1>1. /\ pc[t] = "program" /\ Quiet(t) /\ UNCHANGED <<palloc, blocks, mem, held>>
      /\ r2 \in AskFrame(t) /\ r2.req = q /\ q.op \in {"page", "malloc", "calloc", "realloc"}
      /\ q.a \in Nat /\ q.a > 0 /\ r2.cnt \in Nat /\ r2.cnt > 0 /\ r2.ptr = NULL
      /\ q.op = "realloc" => r2.old \in held[t] /\ ~r2.old.paged /\ r2.old \in BlockRecord
  BY AskNext
<1>2. q.op = "page" => c2 = "get" /\ r2.desc = 0 /\ r2.cnt = q.a
  BY AskNext
<1>3. q.op # "page" =>
         /\ Size(q) = Bytes(q) /\ Bytes(q) \in Nat /\ Bytes(q) > 0
         /\ \/ /\ c2 = "get" /\ r2.desc = 0 /\ ArenaSize + Bytes(q) <= r2.cnt * PGSIZE
               /\ r2.cnt * PGSIZE < ArenaSize + Bytes(q) + PGSIZE
            \/ c2 = "malloc" /\ r2.desc \in Desc /\ r2.desc # 0 /\ Bytes(q) <= BlockSize(r2.desc) /\ r2.cnt = 1
  BY AskNext
<1>4. /\ NewOK(t, "program", frame[t], P, B, mem) /\ GoneOK(t, "program", frame[t], P, B, mem)
      /\ HeldOK(t, "program", frame[t], held[t], P, B, mem)
  BY <1>1, ThreadIs
<1> HIDE DEF r2, c2
<1>5. c2 \in {"get", "malloc"}
  BY <1>2, <1>3
<1>6. q.op # "page" => Promise(r2) = Bytes(q)
  BY <1>1 DEF Promise, Bytes
<1>7. q.op = "page" => Promise(r2) \in Nat /\ Promise(r2) > 0
  <2>1. PGSIZE \in Nat /\ PGSIZE > 0
    BY Sizes
  <2>2. q.a * PGSIZE \in Nat /\ q.a * PGSIZE > 0
    BY <1>1, Ptr DEF page_ptr
  <2>3. q.op = "page" => Promise(r2) = q.a * PGSIZE
    BY <1>1 DEF Promise
  <2> QED BY <2>1, <2>2, <2>3
<1>8. FrameOK(t, c2, r2)
  <2>1. Promise(r2) \in Nat /\ Promise(r2) > 0
    BY <1>3, <1>6, <1>7
  <2>2. q.op = "calloc" => Size(q) = Promise(r2)
    BY <1>3, <1>6
  <2> QED BY <1>1, <1>5, <2>1, <2>2 DEF FrameOK, Asks, Frees
<1>9. AskOK(c2, r2)
  BY <1>1, <1>2, <1>3, <1>5, <1>6 DEF AskOK, Asks
<1>10. LockOK(t, c2, r2, used_map', pool_lock', desc_lock', free_list')
  BY <1>2, <1>3, <1>5 DEF LockOK, Arranges, Releases
<1>11. NewOK(t, c2, r2, P, B, mem)
  BY <1>4, <1>5 DEF NewOK, Frees, Nothing, NoPage
<1>12. GoneOK(t, c2, r2, P, B, mem)
  BY <1>4, <1>5 DEF GoneOK, Asks
<1>13. ContentOK(t, c2, r2, mem)
  BY <1>5 DEF ContentOK, Frees
<1>14. HeldOK(t, c2, r2, held[t], P, B, mem)
  BY <1>1, <1>4, HeldKeeps
<1>15. UNCHANGED <<used_map, pool_lock, desc_lock, free_list, mem, held>>
  BY <1>1 DEF palloc, blocks
<1>16. ThreadNext(t, P, B)
  BY <1>8, <1>9, <1>10, <1>11, <1>12, <1>13, <1>14, <1>15 DEF ThreadNext, ThreadOK, r2, c2
<1>17. Locks(t)
  BY <1>15, OwnedIs DEF Locks
<1> QED BY <1>1, <1>15, <1>16, <1>17, QuietStep

-----------------------------------------------------------------------------
(* What a program gives back, and what it receives.                        *)

LEMMA HeldMoves ==
    ASSUME NEW t, NEW c, NEW r, NEW h, NEW P, NEW B, NEW m, HeldOK(t, c, r, h, P, B, m),
           Headers(P, m), OneHeader(P, m), NEW c2, NEW r2, NEW h2, NEW P2, NEW B2, NEW m2,
           \A b \in h2 : /\ b \in h /\ Same(P, B, P2, B2, Has(t, b), Has(t, b))
                         /\ \A x \in Addr : Owns(P, B, Has(t, b), x) => m2[x] = m[x],
           c2 \in Asks /\ r2.req.op = "realloc" => r2.old \in h2 /\ ~r2.old.paged
    PROVE  HeldOK(t, c2, r2, h2, P2, B2, m2)
<1>1. ASSUME NEW b \in h2
      PROVE  /\ b \in BlockRecord /\ Given(P2, B2, m2, Has(t, b), b.ptr, b.size, b.paged)
             /\ \A x \in Extent(b.ptr, b.size) : m2[x] = Data(t)
  <2>1. /\ b \in BlockRecord /\ Given(P, B, m, Has(t, b), b.ptr, b.size, b.paged)
        /\ \A x \in Extent(b.ptr, b.size) : m[x] = Data(t)
    BY DEF HeldOK
  <2>2. Same(P, B, P2, B2, Has(t, b), Has(t, b)) /\ \A x \in Addr : Owns(P, B, Has(t, b), x) => m2[x] = m[x]
    OBVIOUS
  <2> QED BY <2>1, <2>2, HeldStays
<1> QED BY <1>1 DEF HeldOK

LEMMA TakenBack ==
    ASSUME NEW t \in Thread, NEW b, NEW hs, NEW hs2, b \in hs[t], hs2[t] = hs[t] \ {b},
           \A u \in Thread : u # t => hs2[u] = hs[u]
    PROVE  Retagged(hs, hs2, Has(t, b), Gone(t))
<1>1. ASSUME NEW k, Tag(hs, k), k # Has(t, b) PROVE Tag(hs2, k)
  <2>1. PICK u \in Thread : k = New(u) \/ k = Gone(u) \/ \E e \in hs[u] : k = Has(u, e)
    BY <1>1 DEF Tag
  <2>2. CASE \E e \in hs[u] : k = Has(u, e)
    <3>1. PICK e \in hs[u] : k = Has(u, e)
      BY <2>2
    <3>2. e \in hs2[u]
      BY <1>1, <3>1
    <3> QED BY <3>1, <3>2 DEF Tag
  <2>3. CASE k = New(u) \/ k = Gone(u)
    BY <2>3 DEF Tag
  <2> QED BY <2>1, <2>2, <2>3
<1>2. Tag(hs2, Gone(t))
  BY DEF Tag
<1> QED BY <1>1, <1>2 DEF Retagged

LEMMA Quotient ==
    ASSUME NEW k \in Nat
    PROVE  (k * PGSIZE) \div PGSIZE = k
<1>1. PGSIZE \in Nat /\ PGSIZE > 0 /\ k * PGSIZE \in Nat
  BY Sizes
<1>2. pg_no(page_ptr(k)) = k
  <2>1. page_ptr(k) \in Nat
    BY Ptr
  <2> QED BY <1>1, <2>1, PageIs
<1> QED BY <1>2 DEF pg_no, page_ptr

LEMMA GiveBackKeeps ==
    ASSUME NEW t \in Thread, NEW P, NEW B, Owned(P, B), NEW b \in held[t], GiveBack(t, b)
    PROVE  MemoryInv'
<1> DEFINE g == Has(t, b)
           h == Gone(t)
           P2 == Moved(P, g, h)
           B2 == Moved(B, g, h)
           r2 == frame'[t]
           c2 == pc'[t]
<1>1. /\ pc[t] = "program" /\ held' = [held EXCEPT ![t] = @ \ {b}]
      /\ frame' = [frame EXCEPT ![t] = [req |-> [op |-> "free"], ptr |-> NULL, gone |-> b.ptr,
                                        desc |-> 0, cnt |-> b.size \div PGSIZE, bit |-> 0]]
      /\ pc' = [pc EXCEPT ![t] = IF b.paged THEN "fill" ELSE "free"]
      /\ UNCHANGED <<palloc, blocks, mem>>
  BY DEF GiveBack, At, Goto
<1>2. Quiet(t) /\ c2 = (IF b.paged THEN "fill" ELSE "free") /\ held'[t] = held[t] \ {b}
  BY <1>1, OwnedIs DEF Quiet
<1>3. r2 = [req |-> [op |-> "free"], ptr |-> NULL, gone |-> b.ptr, desc |-> 0, cnt |-> b.size \div PGSIZE, bit |-> 0]
  BY <1>1, OwnedIs
<1>4. /\ NewOK(t, "program", frame[t], P, B, mem) /\ GoneOK(t, "program", frame[t], P, B, mem)
      /\ HeldOK(t, "program", frame[t], held[t], P, B, mem)
  BY <1>1, ThreadIs
<1>5. b \in BlockRecord /\ Given(P, B, mem, g, b.ptr, b.size, b.paged)
  BY <1>4 DEF HeldOK
<1>6. Nothing(P, B, h) /\ Nothing(P, B, New(t))
  BY <1>4 DEF GoneOK, NewOK
<1>7. Retagged(held, held', g, h)
  BY <1>2, TakenBack DEF Quiet
<1>8. Owner(g) /\ Owner(h) /\ Theirs(t, g) /\ Theirs(t, h)
  BY OwnersAre
<1>9. Mapped(P, B, used_map, held) /\ Headers(P, mem) /\ OneHeader(P, mem)
  BY OwnedIs
<1>10. Same(P, B, P2, B2, g, h) /\ \A k : Owner(k) /\ k # g /\ k # h => Same(P, B, P2, B2, k, k)
  BY <1>6, <1>8, <1>9, Moves
<1> HIDE DEF P2, B2, r2, c2, g, h
<1>11. /\ r2 \in FreeFrame /\ r2.req.op = "free" /\ r2.ptr = NULL /\ r2.gone = b.ptr /\ r2.desc = 0
       /\ r2.cnt = b.size \div PGSIZE /\ r2.bit = 0
  <2>1. b.ptr \in Nat /\ b.size \in Nat
    BY <1>5 DEF BlockRecord
  <2>2. b.size \div PGSIZE \in Nat
    BY <2>1, Sizes
  <2> QED BY <1>3, <2>1, <2>2 DEF FreeFrame
<1>12. FrameOK(t, c2, r2) /\ AskOK(c2, r2)
  BY <1>2, <1>11 DEF FrameOK, AskOK, Asks, Frees, AskFrame, FreeFrame
<1>13. LockOK(t, c2, r2, used_map', pool_lock', desc_lock', free_list')
  BY <1>2, <1>11 DEF LockOK, Arranges, Releases
<1>14. NewOK(t, c2, r2, P2, B2, mem')
  <2>1. New(t) # g /\ New(t) # h /\ Owner(New(t))
    BY TagsDiffer, OwnersAre DEF g, h
  <2>2. Nothing(P2, B2, New(t))
    BY <1>6, <1>10, <2>1, PagesMove
  <2> QED BY <1>2, <1>11, <2>2 DEF NewOK, Frees
<1>15. GoneOK(t, c2, r2, P2, B2, mem')
  <2>1. Soft(P, mem, mem', g)
    BY <1>1 DEF Soft
  <2>2. Given(P2, B2, mem', h, b.ptr, b.size, b.paged)
    BY <1>5, <1>10, <2>1, GivenMoves
  <2>3. CASE b.paged
    <3>1. c2 = "fill"
      BY <1>2, <2>3
    <3>2. PICK k \in Nat : b.size = k * PGSIZE /\ Paged(P2, B2, mem', h, b.ptr, k)
      BY <2>2, <2>3 DEF Given
    <3>3. r2.cnt = k
      BY <1>11, <3>2, Quotient
    <3>4. k > 0 /\ b.ptr = page_ptr(pg_no(b.ptr)) /\ PagesAre(P2, B2, h, pg_no(b.ptr), k) /\ Clean(P2, mem', h, NULL)
      BY <3>2 DEF Paged
    <3>5. \A x \in Addr : P2[pg_no(x)] = h => mem'[x].kind # "arena"
      BY <3>4, AddrIs DEF Clean, NULL
    <3> QED BY <1>11, <3>1, <3>3, <3>4, <3>5 DEF GoneOK, Asks, h
  <2>4. CASE ~b.paged
    <3>1. c2 = "free"
      BY <1>2, <2>4
    <3>2. b.size \in Nat /\ Block(P2, B2, mem', h, b.ptr, b.size)
      BY <2>2, <2>4 DEF Given
    <3> QED BY <1>11, <3>1, <3>2 DEF GoneOK, Asks, h
  <2> QED BY <2>3, <2>4
<1>16. ContentOK(t, c2, r2, mem')
  BY <1>11 DEF ContentOK
<1>17. HeldOK(t, c2, r2, held'[t], P2, B2, mem')
  <2>1. ASSUME NEW e \in held'[t]
        PROVE  /\ e \in held[t] /\ Same(P, B, P2, B2, Has(t, e), Has(t, e))
               /\ \A x \in Addr : Owns(P, B, Has(t, e), x) => mem'[x] = mem[x]
    <3>1. e \in held[t] /\ e # b
      BY <1>2, <2>1
    <3>2. Has(t, e) # g /\ Has(t, e) # h /\ Owner(Has(t, e))
      BY <3>1, TagsDiffer, OwnersAre DEF g, h
    <3> QED BY <1>1, <1>10, <3>1, <3>2
  <2>2. c2 \notin Asks
    BY <1>2 DEF Asks
  <2> QED BY <1>4, <1>9, <2>1, <2>2, HeldMoves
<1>18. ThreadNext(t, P2, B2)
  BY <1>12, <1>13, <1>14, <1>15, <1>16, <1>17 DEF ThreadNext, ThreadOK, r2, c2
<1>19. UNCHANGED <<used_map, pool_lock, desc_lock, free_list>> /\ mem' = mem
  BY <1>1 DEF palloc, blocks
<1>20. mem' = [x \in Addr |-> mem'[x]]
  BY <1>19, OwnedIs DEF MemOK
<1> QED BY <1>1, <1>2, <1>6, <1>7, <1>8, <1>18, <1>19, <1>20, MoveStep DEF P2, B2

LEMMA FilledIs ==
    ASSUME NEW P, NEW B, Owned(P, B), NEW p, NEW n, NEW v
    PROVE  /\ Filled(p, n, v) = [x \in Addr |-> IF x \in Extent(p, n) THEN v ELSE mem[x]]
           /\ \A x \in Addr : x \in Extent(p, n) => Filled(p, n, v)[x] = v
           /\ \A x \in Addr : x \notin Extent(p, n) => Filled(p, n, v)[x] = mem[x]
<1>1. DOMAIN mem = Addr
  BY OwnedIs
<1> QED BY <1>1 DEF Filled

\* What the call got, when it got something.
LEMMA GotIs ==
    ASSUME NEW t \in Thread, NEW P, NEW B, Owned(P, B), pc[t] \in {"malloced", "return"} \cup Frees, f(t).ptr # NULL
    PROVE  LET r == frame[t]
           IN  /\ Given(P, B, mem, New(t), r.ptr, Promise(r), r.req.op = "page")
               /\ r \in AskFrame(t) /\ r.req.op \in {"page", "malloc", "calloc", "realloc"} /\ Promised(t) = Promise(r)
               /\ FrameOK(t, pc[t], r) /\ r.req.op # "free" /\ pc[t] # "program"
               /\ r.ptr \in Addr /\ Promise(r) \in Nat
               /\ \A x \in Extent(r.ptr, Promise(r)) : x \in Addr /\ Owns(P, B, New(t), x) /\ mem[x].kind # "arena"
<1> DEFINE r == frame[t]
<1>1. FrameOK(t, pc[t], r) /\ pc[t] # "program" /\ r.ptr # NULL
  BY ThreadIs DEF f, Frees
<1>2. r \in AskFrame(t) /\ r.req.op # "free"
  BY <1>1, AnyFrame
<1>3. r.req.op \in {"page", "malloc", "calloc", "realloc"}
  BY <1>1, <1>2, AskedFrame
<1>4. Given(P, B, mem, New(t), r.ptr, Promise(r), r.req.op = "page")
  BY <1>1, ThreadIs DEF NewOK
<1>5. Headers(P, mem) /\ OneHeader(P, mem)
  BY OwnedIs
<1>6. /\ r.ptr \in Addr /\ Promise(r) \in Nat
      /\ \A x \in Extent(r.ptr, Promise(r)) : x \in Addr /\ Owns(P, B, New(t), x) /\ mem[x].kind # "arena"
  BY <1>4, <1>5, GivenOwns
<1>7. Promised(t) = Promise(r)
  BY DEF Promised, Promise, f
<1> QED BY <1>1, <1>2, <1>3, <1>4, <1>6, <1>7

LEMMA ReceiveNull ==
    ASSUME NEW t \in Thread, NEW P, NEW B, Owned(P, B), Receive(t), f(t).ptr = NULL
    PROVE  MemoryInv'
<1> DEFINE r == frame[t]
           r2 == frame'[t]
<1>1. /\ pc[t] = "return" /\ pc' = [pc EXCEPT ![t] = "program"] /\ frame' = [frame EXCEPT ![t] = <<>>]
      /\ r.ptr = NULL /\ UNCHANGED <<palloc, blocks, mem, held>>
  BY DEF Receive, At, Goto, f
<1>2. pc'[t] = "program" /\ r2 = <<>> /\ held'[t] = held[t] /\ Quiet(t)
  BY <1>1, OwnedIs DEF Quiet
<1>3. /\ FrameOK(t, "return", r) /\ NewOK(t, "return", r, P, B, mem)
      /\ GoneOK(t, "return", r, P, B, mem) /\ HeldOK(t, "return", r, held[t], P, B, mem)
  BY <1>1, ThreadIs
<1> HIDE DEF r2
<1>4. FrameOK(t, "program", r2) /\ AskOK("program", r2)
  <2>1. r2 \notin AskFrame(t)
    BY <1>2 DEF AskFrame
  <2> QED BY <1>2, <2>1 DEF FrameOK, AskOK, Asks, Frees
<1>5. LockOK(t, "program", r2, used_map', pool_lock', desc_lock', free_list')
  BY DEF LockOK, Arranges, Releases
<1>6. NewOK(t, "program", r2, P, B, mem)
  BY <1>1, <1>3 DEF NewOK, Frees
<1>7. GoneOK(t, "program", r2, P, B, mem)
  BY <1>3 DEF GoneOK, Asks
<1>8. ContentOK(t, "program", r2, mem)
  BY DEF ContentOK, Frees
<1>9. HeldOK(t, "program", r2, held[t], P, B, mem)
  BY <1>3, HeldKeeps DEF Asks
<1>10. UNCHANGED <<used_map, pool_lock, desc_lock, free_list, mem, held>>
  BY <1>1 DEF palloc, blocks
<1>11. ThreadNext(t, P, B)
  BY <1>2, <1>4, <1>5, <1>6, <1>7, <1>8, <1>9, <1>10 DEF ThreadNext, ThreadOK, r2
<1>12. Locks(t)
  BY <1>10, OwnedIs DEF Locks
<1> QED BY <1>1, <1>2, <1>10, <1>11, <1>12, QuietStep

LEMMA ReceiveSome ==
    ASSUME NEW t \in Thread, NEW P, NEW B, Owned(P, B), Receive(t), f(t).ptr # NULL
    PROVE  MemoryInv'
<1> DEFINE r == frame[t]
           r2 == frame'[t]
           b == [ptr |-> r.ptr, size |-> Promise(r), paged |-> (r.req.op = "page")]
           g == New(t)
           h == Has(t, b)
           P2 == Moved(P, g, h)
           B2 == Moved(B, g, h)
           mine == Extent(r.ptr, Promise(r))
<1>0. pc[t] = "return"
  BY DEF Receive, At
<1>1. /\ Given(P, B, mem, g, r.ptr, Promise(r), r.req.op = "page")
      /\ Promised(t) = Promise(r) /\ r.ptr \in Addr /\ Promise(r) \in Nat
      /\ \A x \in mine : x \in Addr /\ Owns(P, B, g, x) /\ mem[x].kind # "arena"
  BY <1>0, GotIs
<1>2. /\ pc' = [pc EXCEPT ![t] = "program"] /\ frame' = [frame EXCEPT ![t] = <<>>]
      /\ mem' = Filled(r.ptr, Promise(r), Data(t)) /\ held' = [held EXCEPT ![t] = @ \cup {b}]
      /\ UNCHANGED <<palloc, blocks>>
  BY <1>1 DEF Receive, Goto, f
<1>3. pc'[t] = "program" /\ r2 = <<>> /\ held'[t] = held[t] \cup {b} /\ Quiet(t)
  BY <1>2, OwnedIs DEF Quiet
<1>4. /\ mem' = [x \in Addr |-> mem'[x]]
      /\ \A x \in Addr : x \in mine => mem'[x] = Data(t)
      /\ \A x \in Addr : x \notin mine => mem'[x] = mem[x]
  BY <1>2, FilledIs
<1>5. GoneOK(t, "return", r, P, B, mem) /\ HeldOK(t, "return", r, held[t], P, B, mem)
  BY <1>0, ThreadIs
<1>6. Mapped(P, B, used_map, held) /\ Headers(P, mem) /\ OneHeader(P, mem)
  BY OwnedIs
<1>7. Owner(g) /\ Owner(h) /\ Theirs(t, g) /\ Theirs(t, h) /\ g # h
  BY OwnersAre, TagsDiffer
<1>8. r.ptr \in mine
  BY <1>1, <1>6, GivenOwns
<1>9. b \notin held[t]
  <2> SUFFICES ASSUME b \in held[t] PROVE FALSE
    OBVIOUS
  <2>1. Given(P, B, mem, h, b.ptr, b.size, b.paged)
    BY <1>5 DEF HeldOK
  <2>2. Owns(P, B, h, b.ptr)
    BY <1>6, <2>1, GivenOwns
  <2>3. b.ptr = r.ptr
    OBVIOUS
  <2> QED BY <1>1, <1>7, <1>8, <2>2, <2>3, OwnsOnce
<1> HIDE DEF b, mine, r2
<1>10. Nothing(P, B, h)
  <2>1. ~Tag(held, h)
    <3> SUFFICES ASSUME Tag(held, h) PROVE FALSE
      OBVIOUS
    <3>1. PICK u \in Thread : h = New(u) \/ h = Gone(u) \/ \E e \in held[u] : h = Has(u, e)
      BY DEF Tag
    <3>2. PICK e \in held[u] : h = Has(u, e)
      BY <3>1, TagsDiffer
    <3> QED BY <1>9, <3>2, TagsDiffer
  <2>2. h # None /\ h # Listed /\ \A d : Of(d) # h
    BY <1>7, Owners
  <2> QED BY <1>6, <2>1, <2>2 DEF Mapped, Nothing, NoPage, NoBlock
<1>11. Retagged(held, held', g, h)
  <2>1. Tag(held', h)
    BY <1>3 DEF Tag
  <2>2. ASSUME NEW k, Tag(held, k) PROVE Tag(held', k)
    <3>1. \A u \in Thread : held[u] \subseteq held'[u]
      BY <1>3 DEF Quiet
    <3> QED BY <2>2, <3>1 DEF Tag
  <2> QED BY <2>1, <2>2 DEF Retagged
<1>12. /\ Same(P, B, P2, B2, g, h) /\ \A k : Owner(k) /\ k # g /\ k # h => Same(P, B, P2, B2, k, k)
       /\ Nothing(P2, B2, g)
  BY <1>6, <1>7, <1>10, Moves
<1> HIDE DEF P2, B2, g, h, r
<1>13. FrameOK(t, "program", r2) /\ AskOK("program", r2)
  <2>1. r2 \notin AskFrame(t)
    BY <1>3 DEF AskFrame
  <2> QED BY <1>3, <2>1 DEF FrameOK, AskOK, Asks, Frees
<1>14. LockOK(t, "program", r2, used_map', pool_lock', desc_lock', free_list')
  BY DEF LockOK, Arranges, Releases
<1>15. NewOK(t, "program", r2, P2, B2, mem')
  BY <1>12 DEF NewOK, Frees, g
<1>16. GoneOK(t, "program", r2, P2, B2, mem')
  <2>1. Nothing(P, B, Gone(t))
    BY <1>5 DEF GoneOK
  <2>2. Gone(t) # g /\ Gone(t) # h /\ Owner(Gone(t))
    BY TagsDiffer, OwnersAre DEF g, h
  <2>3. Nothing(P2, B2, Gone(t))
    BY <1>12, <2>1, <2>2, PagesMove
  <2> QED BY <2>3 DEF GoneOK, Asks
<1>17. ContentOK(t, "program", r2, mem')
  BY DEF ContentOK, Frees
<1>18. HeldOK(t, "program", r2, held'[t], P2, B2, mem')
  <2>1. ASSUME NEW e \in held[t]
        PROVE  /\ e \in held[t] /\ Same(P, B, P2, B2, Has(t, e), Has(t, e))
               /\ \A x \in Addr : Owns(P, B, Has(t, e), x) => mem'[x] = mem[x]
    <3>1. Has(t, e) # g /\ Has(t, e) # h /\ Owner(Has(t, e))
      BY <1>9, TagsDiffer, OwnersAre DEF g, h
    <3>2. ASSUME NEW x \in Addr, Owns(P, B, Has(t, e), x) PROVE mem'[x] = mem[x]
      <4>1. x \notin mine
        BY <1>1, <1>7, <3>1, <3>2, OwnsOnce
      <4> QED BY <1>4, <4>1
    <3> QED BY <1>12, <3>1, <3>2
  <2>2. HeldOK(t, "program", r2, held[t], P2, B2, mem')
    <3>1. "program" \notin Asks
      BY DEF Asks
    <3> QED BY <1>5, <1>6, <2>1, <3>1, HeldMoves
  <2>3. Soft(P, mem, mem', g)
    <3>1. \A x \in mine : x \in Addr => mem[x].kind # "arena" /\ mem'[x].kind # "arena"
      BY <1>1, <1>4 DEF Data
    <3> QED BY <1>4, <3>1 DEF Soft
  <2>4. Given(P2, B2, mem', h, r.ptr, Promise(r), r.req.op = "page")
    BY <1>1, <1>12, <2>3, GivenMoves
  <2>5. b.ptr = r.ptr /\ b.size = Promise(r) /\ b.paged = (r.req.op = "page")
    BY DEF b
  <2>6. b \in BlockRecord
    <3>1. r.ptr \in Nat
      BY <1>1, AddrIs
    <3> QED BY <1>1, <3>1 DEF b, BlockRecord
  <2>7. \A x \in Extent(b.ptr, b.size) : mem'[x] = Data(t)
    BY <1>1, <1>4, <2>5 DEF mine
  <2>8. Given(P2, B2, mem', Has(t, b), b.ptr, b.size, b.paged)
    BY <2>4, <2>5 DEF h
  <2> QED BY <1>3, <2>2, <2>6, <2>7, <2>8 DEF HeldOK, Asks
<1>19. ThreadNext(t, P2, B2)
  BY <1>3, <1>13, <1>14, <1>15, <1>16, <1>17, <1>18 DEF ThreadNext, ThreadOK, r2
<1>20. UNCHANGED <<used_map, pool_lock, desc_lock, free_list>>
  BY <1>2 DEF palloc, blocks
<1>21. \A x \in Addr : \/ mem'[x] = mem[x]
                       \/ \E e : Theirs(t, e) /\ Owns(P, B, e, x) /\ (mem'[x].kind # "arena" \/ P[pg_no(x)] = e)
  <2>1. Data(t).kind # "arena"
    BY DEF Data
  <2> QED BY <1>1, <1>4, <1>7, <2>1
<1> QED BY <1>0, <1>3, <1>4, <1>7, <1>10, <1>11, <1>19, <1>20, <1>21, MoveStep DEF P2, B2

-----------------------------------------------------------------------------
(* malloc has a block.                                                     *)

LEMMA MallocedIs ==
    ASSUME NEW t \in Thread, NEW P, NEW B, Owned(P, B), Malloced(t)
    PROVE  LET r == frame[t]
           IN  /\ pc[t] = "malloced" /\ r.ptr # NULL /\ r \in AskFrame(t)
               /\ r.req.op \in {"malloc", "calloc", "realloc"}
               /\ Given(P, B, mem, New(t), r.ptr, Promise(r), FALSE) /\ FrameOK(t, "malloced", r)
               /\ r.ptr \in Addr /\ r.ptr \in Nat /\ Promise(r) \in Nat
               /\ \A x \in Extent(r.ptr, Promise(r)) : x \in Addr /\ Owns(P, B, New(t), x) /\ mem[x].kind # "arena"
<1> DEFINE r == frame[t]
<1>1. pc[t] = "malloced"
  BY DEF Malloced, At
<1>2. AskOK("malloced", r) /\ FrameOK(t, "malloced", r)
  BY <1>1, ThreadIs
<1>3. r.ptr # NULL /\ r.req.op # "page"
  BY <1>2 DEF AskOK, Asks
<1>4. /\ Given(P, B, mem, New(t), r.ptr, Promise(r), r.req.op = "page")
      /\ r \in AskFrame(t) /\ r.req.op \in {"page", "malloc", "calloc", "realloc"}
      /\ r.ptr \in Addr /\ Promise(r) \in Nat
      /\ \A x \in Extent(r.ptr, Promise(r)) : x \in Addr /\ Owns(P, B, New(t), x) /\ mem[x].kind # "arena"
  BY <1>1, <1>3, GotIs DEF f
<1>5. (r.req.op = "page") = FALSE
  BY <1>3
<1>6. Given(P, B, mem, New(t), r.ptr, Promise(r), FALSE)
  BY <1>4, <1>5
<1> QED BY <1>1, <1>2, <1>3, <1>4, <1>6, AddrIs

\* What is written where New(t) is does not change what a program has.
LEMMA HeldApart ==
    ASSUME NEW t, NEW P, NEW B, NEW m, NEW m2, NEW g, Owner(g), NEW S,
           \A x \in S : x \in Addr /\ Owns(P, B, g, x), \A x \in Addr : x \notin S => m2[x] = m[x],
           NEW h, Owner(h), h # g
    PROVE  \A x \in Addr : Owns(P, B, h, x) => x \notin S /\ m2[x] = m[x]
BY OwnsOnce

LEMMA MallocedPlain ==
    ASSUME NEW t \in Thread, NEW P, NEW B, Owned(P, B), Malloced(t), f(t).req.op # "realloc"
    PROVE  MemoryInv'
<1> DEFINE r == frame[t]
           g == New(t)
           mine == Extent(r.ptr, Promise(r))
<1>1. /\ pc[t] = "malloced" /\ r.ptr # NULL /\ r \in AskFrame(t)
      /\ r.req.op \in {"malloc", "calloc", "realloc"}
      /\ Given(P, B, mem, g, r.ptr, Promise(r), FALSE) /\ FrameOK(t, "malloced", r)
      /\ r.ptr \in Addr /\ r.ptr \in Nat /\ Promise(r) \in Nat
      /\ \A x \in mine : x \in Addr /\ Owns(P, B, g, x) /\ mem[x].kind # "arena"
  BY MallocedIs
<1>2. r.req.op \in {"malloc", "calloc"}
  BY <1>1 DEF f
<1>3. /\ pc' = [pc EXCEPT ![t] = "return"] /\ UNCHANGED <<palloc, blocks, held, frame>>
      /\ mem' = IF r.req.op = "calloc" THEN Filled(r.ptr, Size(r.req), Zero) ELSE mem
  BY <1>2 DEF Malloced, Goto, f
<1>4. r.req.op = "calloc" => Size(r.req) = Promise(r)
  BY <1>1 DEF FrameOK
<1>5. pc'[t] = "return" /\ frame'[t] = r /\ held'[t] = held[t] /\ Quiet(t)
  BY <1>3, OwnedIs DEF Quiet
<1>6. mem = [x \in Addr |-> mem[x]]
  BY OwnedIs DEF MemOK
<1>7. /\ mem' = [x \in Addr |-> mem'[x]]
      /\ \A x \in Addr : x \notin mine => mem'[x] = mem[x]
      /\ \A x \in Addr : x \in mine => mem'[x] = mem[x] \/ mem'[x] = Zero
      /\ r.req.op = "calloc" => \A x \in Addr : x \in mine => mem'[x] = Zero
  <2>1. CASE r.req.op = "calloc"
    <3>1. mem' = Filled(r.ptr, Promise(r), Zero)
      BY <1>3, <1>4, <2>1
    <3> QED BY <3>1, FilledIs
  <2>2. CASE r.req.op # "calloc"
    BY <1>3, <1>6, <2>2
  <2> QED BY <2>1, <2>2
<1>8. /\ NewOK(t, "malloced", r, P, B, mem) /\ GoneOK(t, "malloced", r, P, B, mem)
      /\ HeldOK(t, "malloced", r, held[t], P, B, mem)
      /\ Mapped(P, B, used_map, held) /\ Headers(P, mem) /\ OneHeader(P, mem)
  BY <1>1, ThreadIs, OwnedIs
<1>9. Zero.kind # "arena"
  BY DEF Zero
<1> HIDE DEF r, mine, g
<1>10. Owner(g)
  BY OwnersAre DEF g
<1>11. \A k : Same(P, B, P, B, k, k)
  BY DEF Same
<1>12. FrameOK(t, "return", r)
  BY <1>1, StillAsks DEF Asks, Like
<1>13. AskOK("return", r)
  BY DEF AskOK, Asks
<1>14. LockOK(t, "return", r, used_map', pool_lock', desc_lock', free_list')
  BY DEF LockOK, Arranges, Releases
<1>15. NewOK(t, "return", r, P, B, mem')
  <2>1. Soft(P, mem, mem', g)
    BY <1>1, <1>7, <1>9 DEF Soft
  <2>2. Given(P, B, mem', g, r.ptr, Promise(r), FALSE)
    BY <1>1, <1>11, <2>1, GivenMoves
  <2>3. (r.req.op = "page") = FALSE
    BY <1>2
  <2> QED BY <1>1, <1>8, <2>2, <2>3 DEF NewOK, Frees, g
<1>16. GoneOK(t, "return", r, P, B, mem')
  BY <1>8 DEF GoneOK, Asks
<1>17. ContentOK(t, "return", r, mem')
  BY <1>1, <1>2, <1>7 DEF ContentOK, Frees, mine
<1>18. HeldOK(t, "return", r, held[t], P, B, mem')
  <2>1. ASSUME NEW e \in held[t]
        PROVE  /\ e \in held[t] /\ Same(P, B, P, B, Has(t, e), Has(t, e))
               /\ \A x \in Addr : Owns(P, B, Has(t, e), x) => mem'[x] = mem[x]
    <3>1. Has(t, e) # g /\ Owner(Has(t, e))
      BY TagsDiffer, OwnersAre DEF g
    <3> QED BY <1>1, <1>7, <1>10, <1>11, <3>1, HeldApart
  <2>2. "return" \notin Asks
    BY DEF Asks
  <2> QED BY <1>8, <2>1, <2>2, HeldMoves
<1>19. ThreadNext(t, P, B)
  BY <1>5, <1>12, <1>13, <1>14, <1>15, <1>16, <1>17, <1>18 DEF ThreadNext, ThreadOK, r
<1>20. UNCHANGED <<used_map, pool_lock, desc_lock, free_list, held>>
  BY <1>3 DEF palloc, blocks
<1>21. \A x \in Addr : mem'[x] = mem[x] \/ (Owns(P, B, g, x) /\ (mem'[x].kind # "arena" \/ P[pg_no(x)] = g))
  BY <1>1, <1>7, <1>9
<1> QED BY <1>1, <1>5, <1>7, <1>19, <1>20, <1>21, MemStep DEF g

\* What realloc copies: as much as the old block has room for, and all of what the program
\* had there as far as it is promised.
LEMMA Copies ==
    ASSUME NEW t \in Thread, NEW P, NEW B, Owned(P, B), Malloced(t), f(t).req.op = "realloc"
    PROVE  LET r == frame[t]
               old == r.old
               n == IF r.req.a < Room(mem, old.ptr) THEN r.req.a ELSE Room(mem, old.ptr)
           IN  /\ old \in held[t] /\ old \in BlockRecord
               /\ Block(P, B, mem, Has(t, old), old.ptr, old.size)
               /\ n \in Nat /\ n <= Promise(r) /\ Kept(r) \in Nat /\ Kept(r) <= n
               /\ \A x \in Extent(r.ptr, n) : mem[old.ptr + (x - r.ptr)].kind # "arena"
               /\ \A x \in Extent(r.ptr, Kept(r)) : mem[old.ptr + (x - r.ptr)] = Data(t)
<1> DEFINE r == frame[t]
           old == r.old
           z == Room(mem, old.ptr)
           n == IF r.req.a < z THEN r.req.a ELSE z
<1>1. /\ pc[t] = "malloced" /\ FrameOK(t, "malloced", r) /\ r.ptr \in Nat
  BY MallocedIs
<1>2. r.req.op = "realloc"
  BY DEF f
<1>3. old \in held[t] /\ ~old.paged
  BY <1>1, <1>2, ThreadIs DEF HeldOK, Asks
<1>4. /\ old \in BlockRecord /\ Given(P, B, mem, Has(t, old), old.ptr, old.size, old.paged)
      /\ \A x \in Extent(old.ptr, old.size) : mem[x] = Data(t)
  BY <1>3, ThreadIs DEF HeldOK
<1>5. old.ptr \in Nat /\ old.size \in Nat /\ old.size > 0 /\ Block(P, B, mem, Has(t, old), old.ptr, old.size)
  BY <1>3, <1>4 DEF Given
<1>6. /\ z \in Nat /\ old.size <= z
      /\ \A x \in Extent(old.ptr, z) : mem[x].kind # "arena"
  <2>1. Headers(P, mem) /\ OneHeader(P, mem)
    BY OwnedIs
  <2> QED BY <1>5, <2>1, BlockOwns
<1>7. /\ Kept(r) \in Nat /\ Promise(r) = r.req.a /\ Kept(r) <= Promise(r) /\ Kept(r) <= old.size /\ r.req.a \in Nat
  BY <1>1, <1>2, KeptSize, AskedFrame
<1> HIDE DEF z, old, r
<1>8. n \in Nat /\ n <= Promise(r) /\ n <= z /\ Kept(r) <= n
  <2>1. Kept(r) <= z /\ Kept(r) <= r.req.a /\ Promise(r) = r.req.a
    BY <1>5, <1>6, <1>7
  <2>2. CASE r.req.a < z
    BY <1>6, <1>7, <2>1, <2>2
  <2>3. CASE ~(r.req.a < z)
    BY <1>6, <1>7, <2>1, <2>3
  <2> QED BY <2>2, <2>3
<1> HIDE DEF n
<1>9. \A x \in Extent(r.ptr, n) : mem[old.ptr + (x - r.ptr)].kind # "arena"
  <2> SUFFICES ASSUME NEW x \in Extent(r.ptr, n) PROVE mem[old.ptr + (x - r.ptr)].kind # "arena"
    OBVIOUS
  <2>1. old.ptr + (x - r.ptr) \in Extent(old.ptr, z)
    BY <1>1, <1>5, <1>6, <1>8 DEF Extent
  <2> QED BY <1>6, <2>1
<1>10. \A x \in Extent(r.ptr, Kept(r)) : mem[old.ptr + (x - r.ptr)] = Data(t)
  <2> SUFFICES ASSUME NEW x \in Extent(r.ptr, Kept(r)) PROVE mem[old.ptr + (x - r.ptr)] = Data(t)
    OBVIOUS
  <2>1. old.ptr + (x - r.ptr) \in Extent(old.ptr, old.size)
    BY <1>1, <1>5, <1>7 DEF Extent
  <2> QED BY <1>4, <2>1
<1> QED BY <1>3, <1>4, <1>5, <1>7, <1>8, <1>9, <1>10 DEF r, old, z, n

LEMMA MallocedCopies ==
    ASSUME NEW t \in Thread, NEW P, NEW B, Owned(P, B), Malloced(t), f(t).req.op = "realloc"
    PROVE  MemoryInv'
<1> DEFINE r == frame[t]
           r2 == frame'[t]
           old == r.old
           g == Has(t, old)
           h == Gone(t)
           P2 == Moved(P, g, h)
           B2 == Moved(B, g, h)
           n == IF r.req.a < Room(mem, old.ptr) THEN r.req.a ELSE Room(mem, old.ptr)
           some == Extent(r.ptr, n)
<1>1. /\ pc[t] = "malloced" /\ r.ptr # NULL /\ r \in AskFrame(t)
      /\ Given(P, B, mem, New(t), r.ptr, Promise(r), FALSE) /\ FrameOK(t, "malloced", r)
      /\ r.ptr \in Addr /\ r.ptr \in Nat /\ Promise(r) \in Nat
      /\ \A x \in Extent(r.ptr, Promise(r)) : x \in Addr /\ Owns(P, B, New(t), x) /\ mem[x].kind # "arena"
  BY MallocedIs
<1>2. /\ old \in held[t] /\ old \in BlockRecord
      /\ Block(P, B, mem, g, old.ptr, old.size)
      /\ n \in Nat /\ n <= Promise(r) /\ Kept(r) \in Nat /\ Kept(r) <= n
      /\ \A x \in some : mem[old.ptr + (x - r.ptr)].kind # "arena"
      /\ \A x \in Extent(r.ptr, Kept(r)) : mem[old.ptr + (x - r.ptr)] = Data(t)
  BY Copies
<1>3. r.req.op = "realloc"
  BY DEF f
<1>4. block_size(old.ptr) = Room(mem, old.ptr)
  BY DEF block_size, Room
<1>5. /\ mem' = [x \in DOMAIN mem |-> IF x \in some THEN mem[old.ptr + (x - r.ptr)] ELSE mem[x]]
      /\ held' = [held EXCEPT ![t] = @ \ {old}] /\ frame' = [frame EXCEPT ![t].gone = old.ptr, ![t].bit = 0]
      /\ pc' = [pc EXCEPT ![t] = "free"] /\ UNCHANGED <<palloc, blocks>>
  BY <1>3, <1>4 DEF Malloced, Goto, f
<1>6. pc'[t] = "free" /\ r2 = [r EXCEPT !.gone = old.ptr, !.bit = 0] /\ held'[t] = held[t] \ {old} /\ Quiet(t)
  BY <1>5, OwnedIs DEF Quiet
<1>7. DOMAIN mem = Addr /\ Mapped(P, B, used_map, held) /\ Headers(P, mem) /\ OneHeader(P, mem)
  BY OwnedIs
<1>8. /\ NewOK(t, "malloced", r, P, B, mem) /\ GoneOK(t, "malloced", r, P, B, mem)
      /\ HeldOK(t, "malloced", r, held[t], P, B, mem)
  BY <1>1, ThreadIs
<1>9. Retagged(held, held', g, h)
  BY <1>2, <1>6, TakenBack DEF Quiet
<1>10. Owner(g) /\ Owner(h) /\ Theirs(t, g) /\ Theirs(t, h) /\ Theirs(t, New(t)) /\ Owner(New(t)) /\ New(t) # g /\ New(t) # h
  BY OwnersAre, TagsDiffer
<1>11. Nothing(P, B, h)
  BY <1>8 DEF GoneOK, Asks
<1>12. /\ Same(P, B, P2, B2, g, h) /\ \A k : Owner(k) /\ k # g /\ k # h => Same(P, B, P2, B2, k, k)
  BY <1>7, <1>10, <1>11, Moves
<1> HIDE DEF r, r2, old, g, h, P2, B2, n
<1>13. some \subseteq Extent(r.ptr, Promise(r)) /\ Extent(r.ptr, Kept(r)) \subseteq some
  BY <1>1, <1>2 DEF Extent
<1> HIDE DEF some
<1>14. \A x \in some : x \in Addr /\ Owns(P, B, New(t), x) /\ mem[x].kind # "arena"
  BY <1>1, <1>13
<1>15. /\ mem' = [x \in Addr |-> mem'[x]]
       /\ \A x \in Addr : x \in some => mem'[x] = mem[old.ptr + (x - r.ptr)] /\ mem'[x].kind # "arena"
       /\ \A x \in Addr : x \notin some => mem'[x] = mem[x]
  BY <1>2, <1>5, <1>7
<1>16. /\ r2 \in AskFrame(t) /\ Like(r, r2) /\ r2.ptr = r.ptr /\ r2.gone = old.ptr /\ r2.bit = 0
       /\ r2.desc = r.desc /\ r2.cnt = r.cnt
  <2>1. old.ptr \in Nat
    BY <1>2 DEF BlockRecord
  <2> QED BY <1>1, <1>6, <2>1 DEF AskFrame, Like
<1>17. Promise(r2) = Promise(r) /\ From(r2) = From(r) /\ Kept(r2) = Kept(r) /\ r2.req = r.req /\ r2.old = old
  BY <1>16, LikeSame DEF Like, old
<1>18. FrameOK(t, "free", r2)
  BY <1>1, <1>3, <1>16, <1>17 DEF FrameOK, Asks, Frees, old
<1>19. AskOK("free", r2)
  BY DEF AskOK, Asks
<1>20. LockOK(t, "free", r2, used_map', pool_lock', desc_lock', free_list')
  BY DEF LockOK, Arranges, Releases
<1>21. NewOK(t, "free", r2, P2, B2, mem')
  <2>1. Soft(P, mem, mem', New(t))
    BY <1>14, <1>15 DEF Soft
  <2>2. Same(P, B, P2, B2, New(t), New(t))
    BY <1>10, <1>12
  <2>3. Given(P2, B2, mem', New(t), r.ptr, Promise(r), FALSE)
    BY <1>1, <2>1, <2>2, GivenMoves
  <2>4. (r.req.op = "page") = FALSE
    BY <1>3
  <2>5. \A i \in Pages : P[i] = New(t) => i \in PoolPages(From(r))
    BY <1>3, <1>8 DEF NewOK
  <2>6. \A i \in Pages : P2[i] = New(t) => i \in PoolPages(From(r2))
    BY <1>17, <2>2, <2>5 DEF Same
  <2> QED BY <1>1, <1>16, <1>17, <2>3, <2>4, <2>6 DEF NewOK, Frees
<1>22. GoneOK(t, "free", r2, P2, B2, mem')
  <2>1. \A x \in Addr : Owns(P, B, g, x) => mem'[x] = mem[x]
    BY <1>10, <1>14, <1>15, HeldApart
  <2>2. Soft(P, mem, mem', g)
    BY <2>1 DEF Soft, Owns
  <2>3. old.size \in Nat
    BY <1>2 DEF BlockRecord
  <2>4. Block(P2, B2, mem', h, old.ptr, old.size)
    BY <1>2, <1>12, <2>2, <2>3, BlockMoves
  <2> QED BY <1>16, <2>3, <2>4 DEF GoneOK, Asks, h
<1>23. ContentOK(t, "free", r2, mem')
  <2>1. \A x \in Extent(r.ptr, Kept(r)) : mem'[x] = Data(t)
    BY <1>2, <1>13, <1>14, <1>15
  <2> QED BY <1>16, <1>17, <2>1 DEF ContentOK
<1>24. HeldOK(t, "free", r2, held'[t], P2, B2, mem')
  <2>1. ASSUME NEW e \in held'[t]
        PROVE  /\ e \in held[t] /\ Same(P, B, P2, B2, Has(t, e), Has(t, e))
               /\ \A x \in Addr : Owns(P, B, Has(t, e), x) => mem'[x] = mem[x]
    <3>1. e \in held[t] /\ e # old
      BY <1>6, <2>1
    <3>2. Has(t, e) # g /\ Has(t, e) # h /\ Owner(Has(t, e)) /\ Has(t, e) # New(t)
      BY <3>1, TagsDiffer, OwnersAre DEF g, h
    <3>3. \A x \in Addr : Owns(P, B, Has(t, e), x) => mem'[x] = mem[x]
      BY <1>10, <1>14, <1>15, <3>2, HeldApart
    <3> QED BY <1>12, <3>1, <3>2, <3>3
  <2>2. "free" \notin Asks
    BY DEF Asks
  <2> QED BY <1>7, <1>8, <2>1, <2>2, HeldMoves
<1>25. ThreadNext(t, P2, B2)
  BY <1>6, <1>18, <1>19, <1>20, <1>21, <1>22, <1>23, <1>24 DEF ThreadNext, ThreadOK, r2
<1>26. UNCHANGED <<used_map, pool_lock, desc_lock, free_list>>
  BY <1>5 DEF palloc, blocks
<1>27. \A x \in Addr : \/ mem'[x] = mem[x]
                       \/ \E e : Theirs(t, e) /\ Owns(P, B, e, x) /\ (mem'[x].kind # "arena" \/ P[pg_no(x)] = e)
  BY <1>10, <1>14, <1>15
<1> QED BY <1>1, <1>6, <1>9, <1>10, <1>11, <1>15, <1>25, <1>26, <1>27, MoveStep DEF P2, B2

LEMMA MallocedKeeps ==
    ASSUME NEW t \in Thread, NEW P, NEW B, Owned(P, B), Malloced(t)
    PROVE  MemoryInv'
BY MallocedPlain, MallocedCopies

LEMMA ReceiveKeeps ==
    ASSUME NEW t \in Thread, NEW P, NEW B, Owned(P, B), Receive(t)
    PROVE  MemoryInv'
BY ReceiveNull, ReceiveSome

-----------------------------------------------------------------------------
(* One page more that is new, or one less that is going.                   *)

\* Page q is k after a step, New(t) or Gone(t) for some t before or after it, else free.
Turned(P, P2, q, g, k, used, used2) ==
    /\ P2 = [P EXCEPT ![q] = k]
    /\ \/ P[q] = None /\ k = g /\ used2 = used \cup {q}
       \/ P[q] = g /\ k = None /\ used2 = used \ {q}

LEMMA MapPage ==
    ASSUME NEW P, NEW B, NEW used, NEW used2, NEW hs, Mapped(P, B, used, hs), NEW q \in Pages, NEW g,
           Owner(g), Tag(hs, g), NEW k, NEW P2, Turned(P, P2, q, g, k, used, used2)
    PROVE  /\ Mapped(P2, B, used2, hs) /\ P2[q] = k /\ \A n \in Pages : n # q => P2[n] = P[n]
           /\ \A n \in Pages, d \in Desc : P2[n] = Of(d) <=> P[n] = Of(d)
<1>1. P = [n \in Pages |-> P[n]]
  BY DEF Mapped
<1>0. /\ P2 = [P EXCEPT ![q] = k]
      /\ \/ P[q] = None /\ k = g /\ used2 = used \cup {q}
         \/ P[q] = g /\ k = None /\ used2 = used \ {q}
  BY DEF Turned
<1>2. P2 = [n \in Pages |-> P2[n]] /\ P2[q] = k /\ \A n \in Pages : n # q => P2[n] = P[n]
  BY <1>0, <1>1
<1>3. g # None /\ (\A d : Of(d) # g) /\ (\A d : Of(d) # None)
  BY Owners, TagsDiffer
<1>4. \A d : P[q] # Of(d) /\ P2[q] # Of(d)
  BY <1>0, <1>2, <1>3
<1>5. \A n \in Pages, d \in Desc : P2[n] = Of(d) <=> P[n] = Of(d)
  BY <1>2, <1>4
<1>6. \A n \in Pages : P2[n] = None <=> n \notin used2
  BY <1>0, <1>2, <1>3 DEF Mapped
<1>7. \A n \in Pages : P2[n] = None \/ (\E d \in Desc : P2[n] = Of(d)) \/ Tag(hs, P2[n])
  BY <1>0, <1>2, <1>5 DEF Mapped
<1>8. \A a \in Addr : B[a] # None <=> \E d \in Desc : P2[pg_no(a)] = Of(d) /\ a \in Blocks(pg_no(a), d)
  BY <1>5, AddrIs DEF Mapped
<1>9. used2 \subseteq Pages
  BY <1>0 DEF Mapped
<1>11. B = [a \in Addr |-> B[a]] /\ \A a \in Addr : B[a] \in {None, Listed} \/ Tag(hs, B[a])
  BY DEF Mapped
<1>12. Mapped(P2, B, used2, hs)
  BY <1>2, <1>6, <1>7, <1>8, <1>9, <1>11 DEF Mapped
<1> QED BY <1>2, <1>5, <1>12

LEMMA PageStep ==
    ASSUME NEW t \in Thread, NEW P, NEW B, Owned(P, B), Quiet(t), NEW g, g = New(t) \/ g = Gone(t),
           NEW q \in Pages, NEW k, NEW P2, Turned(P, P2, q, g, k, used_map, used_map'), k = None => Clean(P, mem, g, NULL),
           UNCHANGED <<free_list, mem, held>>, pc[t] \notin {"pop", "unlist"}, Locks(t),
           \A u \in Thread : u # t => KeepsPool(u, used_map, pool_lock, used_map', pool_lock'),
           ThreadNext(t, P2, B)
    PROVE  MemoryInv'
<1>1. /\ Mapped(P, B, used_map, held) /\ LocksOK(pool_lock, desc_lock) /\ ListsOK(P, B, free_list) /\ MemOK(P, mem)
  BY OwnedIs
<1>2. Theirs(t, g) /\ Owner(g) /\ Tag(held, g)
  BY OwnersAre DEF Tag
<1>3. /\ Mapped(P2, B, used_map', held) /\ P2[q] = k /\ \A n \in Pages : n # q => P2[n] = P[n]
      /\ \A n \in Pages, d \in Desc : P2[n] = Of(d) <=> P[n] = Of(d)
      /\ \A a \in Addr : B[a] # None => pg_no(a) # q
  <2>0. Turned(P, P2, q, g, k, used_map, used_map') /\ Mapped(P, B, used_map, held) /\ Owner(g) /\ Tag(held, g)
    BY <1>1, <1>2
  <2>1. Mapped(P2, B, used_map', held)
    BY <2>0, MapPage
  <2>4. P2[q] = k /\ \A n \in Pages : n # q => P2[n] = P[n]
    <3>1. P2 = [P EXCEPT ![q] = k] /\ P = [n \in Pages |-> P[n]]
      BY <2>0 DEF Turned, Mapped
    <3> QED BY <3>1
  <2>2. \A d : P[q] # Of(d) /\ k # Of(d)
    BY <1>2, Owners, TagsDiffer DEF Turned
  <2>5. \A n \in Pages, d \in Desc : P2[n] = Of(d) <=> P[n] = Of(d)
    BY <2>2, <2>4
  <2>3. \A a \in Addr : B[a] # None => pg_no(a) # q
    BY <1>1, <2>2, BlockPage
  <2> QED BY <2>1, <2>3, <2>4, <2>5
<1>4. P[q] \in {None, g} /\ k \in {None, g}
  BY DEF Turned
<1>5. ASSUME NEW u \in Thread, u # t
      PROVE  /\ KeepsTags(u, P, B, P2, B) /\ KeepsMem(u, P, B, mem, mem')
             /\ KeepsList(u, P, B, desc_lock, free_list, P2, B, desc_lock', free_list')
             /\ KeepsPool(u, used_map, pool_lock, used_map', pool_lock')
  <2>1. KeepsTags(u, P, B, P2, B)
    <3> SUFFICES ASSUME NEW e, Theirs(u, e) PROVE Same(P, B, P2, B, e, e)
      BY DEF KeepsTags
    <3>1. e # g /\ e # None /\ Owner(e)
      BY <1>2, <1>5, TheirsOnce, Owners DEF Owner
    <3>2. \A n \in Pages : P2[n] = e <=> P[n] = e
      BY <1>3, <1>4, <3>1
    <3>3. \A a \in Addr : B[a] = e => P2[pg_no(a)] = P[pg_no(a)]
      BY <1>3, <3>1, AddrIs
    <3> QED BY <3>2, <3>3 DEF Same
  <2>2. KeepsMem(u, P, B, mem, mem')
    BY DEF KeepsMem
  <2>3. KeepsList(u, P, B, desc_lock, free_list, P2, B, desc_lock', free_list')
    BY <1>3, <1>5, NobodyIs DEF KeepsList, Locks
  <2>4. KeepsPool(u, used_map, pool_lock, used_map', pool_lock')
    BY <1>5
  <2> QED BY <2>1, <2>2, <2>3, <2>4
<1>6. ASSUME NEW n \in Pages, NEW d \in Desc, P2[n] = Of(d)
      PROVE  ArenaOK(P2, B, mem', pc', frame', desc_lock', free_list', n, d)
  <2>1. P[n] = Of(d) /\ Settled(t, d)
    BY <1>3, <1>6 DEF Settled
  <2>2. mem' = mem
    OBVIOUS
  <2> QED BY <1>5, <2>1, <2>2, ArenaStep
<1>7. MemOK(P2, mem')
  <2> SUFFICES ASSUME NEW x \in Addr, P2[pg_no(x)] = None, x # NULL PROVE mem[x].kind # "arena"
    BY <1>1 DEF MemOK, Clean
  <2>1. pg_no(x) \in Pages
    BY AddrIs
  <2>2. CASE pg_no(x) # q
    BY <1>1, <1>3, <2>1, <2>2 DEF MemOK, Clean
  <2>3. CASE pg_no(x) = q
    <3>1. k = None
      BY <1>3, <2>3
    <3>2. P[q] = g /\ Clean(P, mem, g, NULL)
      BY <1>2, <3>1, Owners DEF Turned
    <3> QED BY <2>3, <3>2 DEF Clean
  <2> QED BY <2>2, <2>3
<1>8. ListsOK(P2, B, free_list') /\ LocksOK(pool_lock', desc_lock') /\ Mapped(P2, B, used_map', held')
  <2>1. ListsOK(P2, B, free_list)
    BY <1>1, <1>3, AddrIs DEF ListsOK
  <2> QED BY <1>3, <2>1 DEF Locks
<1> QED BY <1>5, <1>6, <1>7, <1>8, Step

LEMMA PageSame ==
    ASSUME NEW P, NEW B, NEW P2, NEW used, NEW used2, NEW hs, Mapped(P, B, used, hs), NEW q \in Pages, NEW g,
           Owner(g), NEW k, Turned(P, P2, q, g, k, used, used2), NEW e, Owner(e), e # g
    PROVE  Same(P, B, P2, B, e, e)
<1>1. P2 = [P EXCEPT ![q] = k] /\ P = [n \in Pages |-> P[n]] /\ P[q] \in {None, g} /\ k \in {None, g}
  BY DEF Turned, Mapped
<1>2. P2[q] = k /\ \A n \in Pages : n # q => P2[n] = P[n]
  BY <1>1
<1>3. e # None /\ \A d : P[q] # Of(d)
  BY <1>1, Owners, TagsDiffer
<1>4. \A a \in Addr : B[a] = e => pg_no(a) # q
  BY <1>3, BlockPage
<1>5. \A n \in Pages : P2[n] = e <=> P[n] = e
  BY <1>1, <1>2, <1>3
<1>6. \A a \in Addr : B[a] = e => P2[pg_no(a)] = P[pg_no(a)]
  BY <1>2, <1>4, AddrIs
<1> QED BY <1>5, <1>6 DEF Same

LEMMA PoolApart ==
    ASSUME NEW p \in Pool, NEW q \in Pool, NEW n, n \in PoolPages(p), n \in PoolPages(q)
    PROVE  p = q
BY DEF PoolPages, Pool

LEMMA FlipNext ==
    ASSUME NEW t \in Thread, NEW P, NEW B, Owned(P, B), Flip(t)
    PROVE  LET r == frame[t]
               p == From(r)
               q == r.first + r.bit
               r2 == frame'[t]
               last == r.bit + 1 = r.cnt
           IN  /\ pc[t] = "flip" /\ FrameOK(t, "flip", r) /\ r \in AskFrame(t) /\ p \in Pool /\ Quiet(t) /\ Locks(t)
               /\ r.first \in Nat /\ r.bit \in Nat /\ r.cnt \in Nat /\ r.bit < r.cnt
               /\ q \in PoolPages(p) /\ q \in Pages /\ q \notin used_map /\ pool_lock[p] = t
               /\ used_map' = used_map \cup {q} /\ UNCHANGED <<blocks, mem, held>>
               /\ r2 \in AskFrame(t) /\ Like(r, r2) /\ r2.bit = r.bit + 1 /\ r2.first = r.first
               /\ r2.desc = r.desc /\ r2.cnt = r.cnt
               /\ r2.ptr = (IF last THEN page_ptr(r.first) ELSE NULL)
               /\ pc'[t] = (IF last THEN "got" ELSE "flip")
               /\ last \/ pool_lock' = pool_lock
               /\ \A p2 \in Pool : p2 # p => pool_lock'[p2] = pool_lock[p2]
<1> DEFINE r == frame[t]
           p == From(r)
           q == r.first + r.bit
           r2 == frame'[t]
           last == r.bit + 1 = r.cnt
           a == IF last THEN page_ptr(r.first) ELSE NULL
<1>1. pc[t] = "flip" /\ FrameOK(t, "flip", r) /\ PoolOf(t) = p /\ LockOK(t, "flip", r, used_map, pool_lock, desc_lock, free_list)
  BY ThreadIs DEF Flip, At, PoolOf, From, f
<1>2. r \in AskFrame(t) /\ p \in Pool /\ r.first \in Nat /\ r.bit \in Nat /\ r.cnt \in Nat
  BY <1>1, AnyFrame, AskedFrame DEF Asks
<1>3. /\ pool_lock[p] = t /\ r.bit < r.cnt
      /\ \A i \in 0..(r.cnt - 1) : r.first + i \in PoolPages(p)
      /\ \A i \in r.bit..(r.cnt - 1) : r.first + i \notin used_map
  BY <1>1 DEF LockOK
<1>4. r.bit \in 0..(r.cnt - 1) /\ r.bit \in r.bit..(r.cnt - 1)
  BY <1>2, <1>3
<1>5. q \in PoolPages(p) /\ q \in Pages /\ q \notin used_map
  BY <1>2, <1>3, <1>4, PoolIs
<1>6. /\ used_map' = used_map \cup {q} /\ frame' = [frame EXCEPT ![t].bit = @ + 1, ![t].ptr = a]
      /\ UNCHANGED <<blocks, mem, held>>
      /\ pc' = IF last THEN [pc EXCEPT ![t] = "got"] ELSE pc
      /\ pool_lock' = IF last THEN [pool_lock EXCEPT ![p] = Nobody] ELSE pool_lock
  BY <1>1 DEF Flip, Goto, f
<1>7. /\ pc'[t] = (IF last THEN "got" ELSE "flip") /\ r2 = [r EXCEPT !.bit = r.bit + 1, !.ptr = a] /\ Quiet(t)
  BY <1>1, <1>6, OwnedIs DEF Quiet
<1>8. LocksOK(pool_lock, desc_lock)
  BY OwnedIs
<1>9. Locks(t) /\ \A p2 \in Pool : p2 # p => pool_lock'[p2] = pool_lock[p2]
  BY <1>2, <1>3, <1>6, <1>8 DEF Locks, LocksOK, blocks
<1>10. a \in Nat
  BY <1>2, Ptr DEF NULL
<1> HIDE DEF r2, a
<1>11. /\ r2 \in AskFrame(t) /\ Like(r, r2) /\ r2.bit = r.bit + 1 /\ r2.first = r.first /\ r2.ptr = a
       /\ r2.desc = r.desc /\ r2.cnt = r.cnt
  <2>1. r.bit + 1 \in Nat
    BY <1>2
  <2> QED BY <1>2, <1>7, <1>10, <2>1 DEF AskFrame, Like
<1>12. last \/ pool_lock' = pool_lock
  BY <1>6
<1> HIDE DEF q, p, r
<1> QED BY <1>1, <1>2, <1>3, <1>5, <1>6, <1>7, <1>9, <1>11, <1>12 DEF r2, a, q, p, r

LEMMA FlipKeeps ==
    ASSUME NEW t \in Thread, NEW P, NEW B, Owned(P, B), Flip(t)
    PROVE  MemoryInv'
<1> DEFINE r == frame[t]
           p == From(r)
           q == r.first + r.bit
           r2 == frame'[t]
           c2 == pc'[t]
           last == r.bit + 1 = r.cnt
           g == New(t)
           P2 == [P EXCEPT ![q] = g]
<1>1. /\ pc[t] = "flip" /\ FrameOK(t, "flip", r) /\ r \in AskFrame(t) /\ p \in Pool /\ Quiet(t) /\ Locks(t)
      /\ r.first \in Nat /\ r.bit \in Nat /\ r.cnt \in Nat /\ r.bit < r.cnt
      /\ q \in PoolPages(p) /\ q \in Pages /\ q \notin used_map /\ pool_lock[p] = t
      /\ used_map' = used_map \cup {q} /\ UNCHANGED <<blocks, mem, held>>
  BY FlipNext
<1>2. /\ r2 \in AskFrame(t) /\ Like(r, r2) /\ r2.bit = r.bit + 1 /\ r2.first = r.first
      /\ r2.desc = r.desc /\ r2.cnt = r.cnt
      /\ r2.ptr = (IF last THEN page_ptr(r.first) ELSE NULL)
      /\ c2 = (IF last THEN "got" ELSE "flip")
  BY FlipNext
<1>3. (last \/ pool_lock' = pool_lock) /\ \A p2 \in Pool : p2 # p => pool_lock'[p2] = pool_lock[p2]
  BY FlipNext
<1>4. /\ Mapped(P, B, used_map, held) /\ MemOK(P, mem) /\ Headers(P, mem) /\ OneHeader(P, mem)
  BY OwnedIs
<1>5. P[q] = None /\ Turned(P, P2, q, g, g, used_map, used_map')
  BY <1>1, <1>4 DEF Mapped, Turned
<1>6. P2[q] = g /\ \A n \in Pages : n # q => P2[n] = P[n]
  BY <1>1, <1>4 DEF Mapped
<1>7. Owner(g) /\ g # None /\ g # Listed
  BY OwnersAre, TagsDiffer
<1> HIDE DEF P2, r2, c2, g
<1>8. \A e : Owner(e) /\ e # g => Same(P, B, P2, B, e, e)
  <2> SUFFICES ASSUME NEW e, Owner(e), e # g PROVE Same(P, B, P2, B, e, e)
    OBVIOUS
  <2>1. q \in Pages
    BY <1>1
  <2> HIDE DEF q
  <2> QED BY <1>4, <1>5, <1>7, <2>1, PageSame
<1>9. /\ FrameOK(t, "flip", r) /\ AskOK("flip", r)
      /\ LockOK(t, "flip", r, used_map, pool_lock, desc_lock, free_list) /\ NewOK(t, "flip", r, P, B, mem)
      /\ GoneOK(t, "flip", r, P, B, mem) /\ HeldOK(t, "flip", r, held[t], P, B, mem)
  BY <1>1, ThreadIs
<1>10. Promise(r2) = Promise(r) /\ From(r2) = p /\ r2.req = r.req /\ r2.old = r.old
  BY <1>2, LikeSame DEF Like
<1>11. c2 \in {"got", "flip"} /\ (c2 = "got" <=> last)
  BY <1>2
<1>12. FrameOK(t, c2, r2)
  BY <1>1, <1>2, <1>11, StillAsks DEF Asks
<1>13. AskOK(c2, r2)
  BY <1>2, <1>9, <1>10, <1>11 DEF AskOK, Asks
<1>14. LockOK(t, c2, r2, used_map', pool_lock', desc_lock', free_list')
  <2>1. r2.desc # 0 => r2.desc \in Desc /\ desc_lock'[r2.desc] = t /\ free_list'[r2.desc] = <<>>
    BY <1>1, <1>2, <1>9 DEF LockOK, Arranges, blocks
  <2>2. ASSUME c2 = "flip"
        PROVE  /\ pool_lock'[From(r2)] = t /\ First(From(r2)) <= r2.first /\ r2.bit < r2.cnt
               /\ \A i \in 0..(r2.cnt - 1) : r2.first + i \in PoolPages(From(r2))
               /\ \A i \in r2.bit..(r2.cnt - 1) : r2.first + i \notin used_map'
    <3>1. ~last /\ pool_lock' = pool_lock
      BY <1>3, <1>11, <2>2
    <3>2. r.bit + 1 < r.cnt
      BY <1>1, <3>1
    <3>3. /\ First(p) <= r.first
          /\ \A i \in 0..(r.cnt - 1) : r.first + i \in PoolPages(p)
          /\ \A i \in r.bit..(r.cnt - 1) : r.first + i \notin used_map
      BY <1>9 DEF LockOK
    <3>4. \A i \in (r.bit + 1)..(r.cnt - 1) : i \in r.bit..(r.cnt - 1) /\ r.first + i # q
      BY <1>1
    <3>5. \A i \in (r.bit + 1)..(r.cnt - 1) : r.first + i \notin used_map'
      BY <1>1, <3>3, <3>4
    <3> QED BY <1>1, <1>2, <1>10, <3>1, <3>2, <3>3, <3>5
  <2> QED BY <1>11, <2>1, <2>2 DEF LockOK, Arranges, Releases
<1>15. NewOK(t, c2, r2, P2, B, mem)
  <2>1. PagesAre(P, B, g, r.first, r.bit) /\ Clean(P, mem, g, NULL)
    BY <1>9 DEF NewOK, g
  <2>2. Clean(P2, mem, g, NULL)
    <3> SUFFICES ASSUME NEW x \in Addr, P2[pg_no(x)] = g, x # NULL PROVE mem[x].kind # "arena"
      BY DEF Clean
    <3>1. P[pg_no(x)] = g \/ P[pg_no(x)] = None
      BY <1>5, <1>6, AddrIs
    <3> QED BY <1>4, <2>1, <3>1 DEF Clean, MemOK
  <2>3. PagesAre(P2, B, g, r.first, r.bit + 1)
    <3>1. \A j \in Pages : P[j] = g <=> r.first <= j /\ j < r.first + r.bit
      BY <2>1 DEF PagesAre
    <3>2. \A j \in Pages : P2[j] = g <=> P[j] = g \/ j = q
      BY <1>6
    <3>3. \A j \in Pages : P2[j] = g <=> r.first <= j /\ j < r.first + (r.bit + 1)
      BY <1>1, <3>1, <3>2, PagesNat
    <3>4. r.first + (r.bit + 1) - 1 <= KernelPages + UserPages /\ r.bit + 1 \in Nat
      <4>1. q <= KernelPages + UserPages /\ KernelPages + UserPages \in Nat
        BY <1>1, PagesNat
      <4> QED BY <1>1, <4>1
    <3>5. r.first \in Pages /\ NoBlock(B, g)
      BY <2>1 DEF PagesAre
    <3> QED BY <3>3, <3>4, <3>5 DEF PagesAre
  <2>4. ASSUME c2 = "got" PROVE Paged(P2, B, mem, g, r2.ptr, r2.cnt)
    <3>1. r2.ptr = page_ptr(r.first) /\ r2.cnt = r.bit + 1
      BY <1>2, <1>11, <2>4
    <3>2. pg_no(page_ptr(r.first)) = r.first
      BY <2>1, PtrAddr DEF PagesAre
    <3>3. r.bit + 1 > 0
      BY <1>1
    <3> QED BY <2>2, <2>3, <3>1, <3>2, <3>3 DEF Paged
  <2>5. \A n \in Pages : P2[n] = g => n \in PoolPages(From(r2))
    <3>1. r.req.op # "free"
      BY <1>9, AnyFrame DEF Asks
    <3>2. \A n \in Pages : P[n] = g => n \in PoolPages(p)
      BY <1>9, <3>1 DEF NewOK, g
    <3> QED BY <1>1, <1>6, <1>10, <3>2
  <2> QED BY <1>2, <1>11, <2>2, <2>3, <2>4, <2>5 DEF NewOK, Frees, g
<1>16. GoneOK(t, c2, r2, P2, B, mem)
  <2>1. Gone(t) # g /\ Owner(Gone(t))
    BY TagsDiffer, OwnersAre DEF g
  <2>2. Nothing(P, B, Gone(t))
    BY <1>9 DEF GoneOK, Asks
  <2>3. Nothing(P2, B, Gone(t))
    BY <1>8, <2>1, <2>2, PagesMove
  <2> QED BY <1>11, <2>3 DEF GoneOK, Asks
<1>17. ContentOK(t, c2, r2, mem)
  BY <1>11 DEF ContentOK, Frees
<1>18. HeldOK(t, c2, r2, held[t], P2, B, mem)
  <2>1. ASSUME NEW e \in held[t]
        PROVE  /\ e \in held[t] /\ Same(P, B, P2, B, Has(t, e), Has(t, e))
               /\ \A x \in Addr : Owns(P, B, Has(t, e), x) => mem[x] = mem[x]
    <3>1. Has(t, e) # g /\ Owner(Has(t, e))
      BY TagsDiffer, OwnersAre DEF g
    <3> QED BY <1>8, <3>1
  <2>2. r.req.op = "realloc" => r.old \in held[t] /\ ~r.old.paged
    BY <1>9 DEF HeldOK, Asks
  <2>3. c2 \in Asks /\ r2.req.op = "realloc" => r2.old \in held[t] /\ ~r2.old.paged
    BY <1>10, <2>2
  <2> QED BY <1>4, <1>9, <2>1, <2>3, HeldMoves
<1>19. ThreadNext(t, P2, B)
  <2>1. mem' = mem /\ held'[t] = held[t]
    BY <1>1
  <2> QED BY <1>12, <1>13, <1>14, <1>15, <1>16, <1>17, <1>18, <2>1 DEF ThreadNext, ThreadOK, r2, c2
<1>20. ASSUME NEW u \in Thread, u # t PROVE KeepsPool(u, used_map, pool_lock, used_map', pool_lock')
  <2> SUFFICES ASSUME NEW p2 \in Pool, pool_lock[p2] = u
               PROVE  pool_lock'[p2] = u /\ \A n \in PoolPages(p2) : n \notin used_map => n \notin used_map'
    BY DEF KeepsPool
  <2>1. p2 # p
    BY <1>1, <1>20
  <2>2. \A n \in PoolPages(p2) : n # q
    BY <1>1, <2>1, PoolApart
  <2> QED BY <1>1, <1>3, <2>1, <2>2
<1>21. UNCHANGED <<free_list, mem, held>> /\ pc[t] \notin {"pop", "unlist"} /\ Quiet(t) /\ Locks(t) /\ q \in Pages
  BY <1>1 DEF blocks
<1>22. g = New(t) /\ ~(g = None)
  BY <1>7 DEF g
<1> HIDE DEF q
<1> QED BY <1>5, <1>19, <1>20, <1>21, <1>22, PageStep

-----------------------------------------------------------------------------
(* A call that gives something back.                                       *)

Going(t, r, r2) ==
    /\ r2.req = r.req /\ r2.ptr = r.ptr
    /\ \/ r \in AskFrame(t) /\ r2 \in AskFrame(t) /\ r2.old = r.old
       \/ r \in FreeFrame /\ r2 \in FreeFrame

\* What it has got for its caller is as it was.
LEMMA GoOn ==
    ASSUME NEW t \in Thread, NEW c \in Frees, NEW c2 \in Frees \cup {"return"}, NEW r, NEW r2, Going(t, r, r2),
           NEW P, NEW B, NEW m, NEW P2, NEW B2, NEW m2, FrameOK(t, c, r), NewOK(t, c, r, P, B, m),
           ContentOK(t, c, r, m), Headers(P, m), OneHeader(P, m), Same(P, B, P2, B2, New(t), New(t)),
           \A x \in Addr : Owns(P, B, New(t), x) => m2[x] = m[x]
    PROVE  FrameOK(t, c2, r2) /\ AskOK(c2, r2) /\ NewOK(t, c2, r2, P2, B2, m2) /\ ContentOK(t, c2, r2, m2)
<1>1. c # "program" /\ c2 # "program" /\ c \notin Asks /\ c2 \notin Asks
  BY DEF Frees, Asks
<1>2. r2.req = r.req /\ r2.ptr = r.ptr /\ Promise(r2) = Promise(r) /\ From(r2) = From(r)
  BY DEF Going, Promise, From
<1>3. r \in AskFrame(t) => r.req.op = "realloc" /\ r.ptr # NULL /\ r2 \in AskFrame(t) /\ r2.old = r.old
  <2>1. r \notin FreeFrame \/ r \notin AskFrame(t)
    BY <1>1, AnyFrame, AskedFrame DEF FreeFrame
  <2> QED BY <2>1 DEF FrameOK, Going
<1>4. r \notin AskFrame(t) => r2 \in FreeFrame /\ r2.ptr = NULL /\ r2.req.op = "free"
  BY DEF Going, FreeFrame
<1>5. r2 \in AskFrame(t) => r \in AskFrame(t)
  <2>1. r2 \notin AskFrame(t) \/ r2 \notin FreeFrame
    BY DEF AskFrame, FreeFrame
  <2> QED BY <1>4, <2>1
<1>6. FrameOK(t, c2, r2)
  <2>1. c2 \in {"program", "return"} \cup Asks \cup Frees /\ r2 \in AskFrame(t) \cup FreeFrame
    BY <1>3, <1>4
  <2> QED BY <1>1, <1>2, <1>3, <1>5, <2>1 DEF FrameOK
<1>7. AskOK(c2, r2)
  BY <1>1 DEF AskOK
<1>8. Soft(P, m, m2, New(t))
  BY DEF Soft, Owns
<1>9. NewOK(t, c2, r2, P2, B2, m2)
  <2>1. r.ptr = NULL => Nothing(P2, B2, New(t))
    BY PagesMove DEF NewOK
  <2>2. r.ptr # NULL => Given(P2, B2, m2, New(t), r.ptr, Promise(r), r.req.op = "page")
    BY <1>8, GivenMoves DEF NewOK
  <2>3. r.req.op # "free" => \A n \in Pages : P2[n] = New(t) => n \in PoolPages(From(r))
    BY <1>1 DEF NewOK, Same
  <2> QED BY <1>2, <2>1, <2>2, <2>3 DEF NewOK, Frees
<1>10. ContentOK(t, c2, r2, m2)
  <2>1. r2.ptr # NULL => r \in AskFrame(t) /\ r.req.op = "realloc" /\ Kept(r2) = Kept(r)
    BY <1>2, <1>3, <1>4 DEF Kept
  <2>2. ASSUME r.ptr # NULL, r.req.op = "realloc", NEW x \in Extent(r.ptr, Kept(r)) PROVE m2[x] = Data(t)
    <3>1. m[x] = Data(t)
      BY <2>2 DEF ContentOK
    <3>2. Given(P, B, m, New(t), r.ptr, Promise(r), r.req.op = "page")
      BY <2>2 DEF NewOK
    <3>3. \A y \in Extent(r.ptr, Promise(r)) : y \in Addr /\ Owns(P, B, New(t), y)
      BY <3>2, GivenOwns
    <3>4. r.ptr \in Nat
      BY <1>1, AnyFrame
    <3>5. x \in Extent(r.ptr, Promise(r))
      <4>1. Kept(r) \in Nat /\ Kept(r) <= Promise(r)
        BY <1>1, <2>2, KeptSize
      <4>2. Promise(r) \in Nat
        BY <1>2, <1>3, <1>4, <2>2 DEF FrameOK
      <4> QED BY <2>2, <3>4, <4>1, <4>2 DEF Extent
    <3> QED BY <3>1, <3>3, <3>5
  <2> QED BY <1>2, <2>1, <2>2 DEF ContentOK
<1> QED BY <1>6, <1>7, <1>9, <1>10

LEMMA FreeFillKeeps ==
    ASSUME NEW t \in Thread, NEW P, NEW B, Owned(P, B), FreeFill(t)
    PROVE  MemoryInv'
<1> DEFINE r == frame[t]
           n == pg_no(r.gone)
           g == Gone(t)
           mine == Extent(r.gone, PGSIZE * r.cnt)
<1>1. /\ pc[t] = "fill" /\ pc' = [pc EXCEPT ![t] = "clear"] /\ mem' = Filled(r.gone, PGSIZE * r.cnt, CC)
      /\ UNCHANGED <<palloc, blocks, held, frame>>
  BY DEF FreeFill, At, Goto, f
<1>2. pc'[t] = "clear" /\ frame'[t] = r /\ held'[t] = held[t] /\ Quiet(t)
  BY <1>1, OwnedIs DEF Quiet
<1>3. /\ mem' = [x \in Addr |-> mem'[x]]
      /\ \A x \in Addr : x \in mine => mem'[x] = CC
      /\ \A x \in Addr : x \notin mine => mem'[x] = mem[x]
  BY <1>1, FilledIs
<1>4. /\ FrameOK(t, "fill", r) /\ LockOK(t, "fill", r, used_map, pool_lock, desc_lock, free_list)
      /\ NewOK(t, "fill", r, P, B, mem) /\ GoneOK(t, "fill", r, P, B, mem) /\ ContentOK(t, "fill", r, mem)
      /\ HeldOK(t, "fill", r, held[t], P, B, mem) /\ Headers(P, mem) /\ OneHeader(P, mem)
  BY <1>1, ThreadIs, OwnedIs
<1>5. r.cnt > 0 /\ r.gone = page_ptr(n) /\ PagesAre(P, B, g, n, r.cnt) /\ r.bit = 0
  BY <1>4 DEF GoneOK
<1>6. r.cnt \in Nat /\ n \in Pages /\ n \in Nat /\ n + r.cnt - 1 <= KernelPages + UserPages
  BY <1>5, PagesNat DEF PagesAre
<1>7. mine = Extent(page_ptr(n), r.cnt * PGSIZE)
  <2>1. PGSIZE * r.cnt = r.cnt * PGSIZE
    BY <1>6, Sizes
  <2> QED BY <1>5, <2>1
<1> HIDE DEF r, n, g, mine
<1>8. \A x \in mine : x \in Addr /\ P[pg_no(x)] = g /\ Owns(P, B, g, x)
  BY <1>5, <1>7, PagesOwned
<1>9. \A x \in Addr : P[pg_no(x)] = g => x \in mine
  <2> SUFFICES ASSUME NEW x \in Addr, P[pg_no(x)] = g PROVE x \in mine
    OBVIOUS
  <2>1. n <= pg_no(x) /\ pg_no(x) < n + r.cnt
    BY <1>5, AddrIs DEF PagesAre
  <2> QED BY <1>6, <1>7, <2>1, PagesExtent
<1>10. Owner(g) /\ Owner(New(t)) /\ New(t) # g
  BY OwnersAre, TagsDiffer DEF g
<1>11. \A e : Owner(e) /\ e # g => \A x \in Addr : Owns(P, B, e, x) => mem'[x] = mem[x]
  BY <1>3, <1>8, <1>10, HeldApart
<1>12. \A e : Same(P, B, P, B, e, e)
  BY DEF Same
<1>13. Going(t, r, r)
  <2>1. r \in AskFrame(t) \cup FreeFrame
    BY <1>4 DEF FrameOK
  <2> QED BY <2>1 DEF Going
<1>14. FrameOK(t, "clear", r) /\ AskOK("clear", r) /\ NewOK(t, "clear", r, P, B, mem') /\ ContentOK(t, "clear", r, mem')
  <2>1. \A x \in Addr : Owns(P, B, New(t), x) => mem'[x] = mem[x]
    BY <1>10, <1>11
  <2>2. Same(P, B, P, B, New(t), New(t))
    BY <1>12
  <2>3. "fill" \in Frees /\ "clear" \in Frees \cup {"return"}
    BY DEF Frees
  <2> QED BY <1>4, <1>13, <2>1, <2>2, <2>3, GoOn
<1>15. LockOK(t, "clear", r, used_map', pool_lock', desc_lock', free_list')
  BY <1>1, <1>4 DEF LockOK, Arranges, Releases, palloc, blocks
<1>16. GoneOK(t, "clear", r, P, B, mem')
  <2>1. Clean(P, mem', g, NULL)
    BY <1>3, <1>9 DEF Clean, CC
  <2>2. n + r.bit = n /\ r.cnt - r.bit = r.cnt /\ r.bit < r.cnt
    BY <1>5, <1>6
  <2> QED BY <1>5, <2>1, <2>2 DEF GoneOK, Asks, g, n
<1>17. HeldOK(t, "clear", r, held[t], P, B, mem')
  <2>1. ASSUME NEW e \in held[t]
        PROVE  /\ e \in held[t] /\ Same(P, B, P, B, Has(t, e), Has(t, e))
               /\ \A x \in Addr : Owns(P, B, Has(t, e), x) => mem'[x] = mem[x]
    <3>1. Has(t, e) # g /\ Owner(Has(t, e))
      BY TagsDiffer, OwnersAre DEF g
    <3> QED BY <1>11, <1>12, <3>1
  <2>2. "clear" \notin Asks
    BY DEF Asks
  <2> QED BY <1>4, <2>1, <2>2, HeldMoves
<1>18. ThreadNext(t, P, B)
  BY <1>2, <1>14, <1>15, <1>16, <1>17 DEF ThreadNext, ThreadOK, r
<1>19. UNCHANGED <<used_map, pool_lock, desc_lock, free_list, held>>
  BY <1>1 DEF palloc, blocks
<1>20. \A x \in Addr : mem'[x] = mem[x] \/ (Owns(P, B, g, x) /\ (mem'[x].kind # "arena" \/ P[pg_no(x)] = g))
  BY <1>3, <1>8
<1> QED BY <1>1, <1>2, <1>3, <1>18, <1>19, <1>20, MemStep DEF g

LEMMA FreeClearNext ==
    ASSUME NEW t \in Thread, NEW P, NEW B, Owned(P, B), FreeClear(t)
    PROVE  LET r == frame[t]
               q == pg_no(r.gone) + r.bit
               r2 == frame'[t]
           IN  /\ pc[t] = "clear" /\ FrameOK(t, "clear", r) /\ r.bit \in Nat /\ r.cnt \in Nat /\ r.bit < r.cnt
               /\ r.gone = page_ptr(pg_no(r.gone)) /\ PagesAre(P, B, Gone(t), q, r.cnt - r.bit)
               /\ Clean(P, mem, Gone(t), NULL)
               /\ Quiet(t) /\ Locks(t) /\ UNCHANGED <<pool_lock, blocks, mem, held>>
               /\ q \in Pages /\ P[q] = Gone(t) /\ used_map' = used_map \ {q}
               /\ Going(t, r, r2) /\ r2.bit = r.bit + 1 /\ r2.gone = r.gone /\ r2.cnt = r.cnt /\ r2.desc = r.desc
               /\ pc'[t] = (IF r.bit + 1 < r.cnt THEN "clear" ELSE "freed")
<1> DEFINE r == frame[t]
           q == pg_no(r.gone) + r.bit
           r2 == frame'[t]
<1>1. /\ pc[t] = "clear" /\ used_map' = used_map \ {q} /\ frame' = [frame EXCEPT ![t].bit = @ + 1]
      /\ pc' = [pc EXCEPT ![t] = IF r.bit + 1 < r.cnt THEN "clear" ELSE "freed"]
      /\ UNCHANGED <<pool_lock, blocks, mem, held>>
  BY DEF FreeClear, At, Goto, f
<1>2. Quiet(t) /\ pc'[t] = (IF r.bit + 1 < r.cnt THEN "clear" ELSE "freed") /\ r2 = [r EXCEPT !.bit = r.bit + 1]
  BY <1>1, OwnedIs DEF Quiet
<1>3. FrameOK(t, "clear", r) /\ GoneOK(t, "clear", r, P, B, mem)
  BY <1>1, ThreadIs
<1>4. r.bit \in Nat /\ r.cnt \in Nat
  BY <1>3, AnyFrame
<1>5. /\ r.bit < r.cnt /\ r.gone = page_ptr(pg_no(r.gone)) /\ PagesAre(P, B, Gone(t), q, r.cnt - r.bit)
      /\ Clean(P, mem, Gone(t), NULL)
  BY <1>3 DEF GoneOK
<1>6. Locks(t)
  BY <1>1, OwnedIs DEF Locks, blocks
<1> HIDE DEF r2
<1>7. Going(t, r, r2) /\ r2.bit = r.bit + 1 /\ r2.gone = r.gone /\ r2.cnt = r.cnt /\ r2.desc = r.desc
  <2>1. r \in AskFrame(t) \cup FreeFrame /\ r.bit + 1 \in Nat
    BY <1>3, <1>4 DEF FrameOK
  <2>2. CASE r \in AskFrame(t)
    BY <1>2, <2>1, <2>2 DEF AskFrame, Going
  <2>3. CASE r \in FreeFrame
    BY <1>2, <2>1, <2>3 DEF FreeFrame, Going
  <2> QED BY <2>1, <2>2, <2>3
<1>8. q \in Pages /\ q \in Nat
  BY <1>5, PagesNat DEF PagesAre
<1>9. P[q] = Gone(t)
  <2>1. q <= q /\ q < q + (r.cnt - r.bit)
    BY <1>4, <1>5, <1>8
  <2> QED BY <1>5, <1>8, <2>1 DEF PagesAre
<1> HIDE DEF q, r
<1> QED BY <1>1, <1>2, <1>3, <1>4, <1>5, <1>6, <1>7, <1>8, <1>9 DEF q, r, r2

LEMMA FreeClearKeeps ==
    ASSUME NEW t \in Thread, NEW P, NEW B, Owned(P, B), FreeClear(t)
    PROVE  MemoryInv'
<1> DEFINE r == frame[t]
           q == pg_no(r.gone) + r.bit
           r2 == frame'[t]
           c2 == pc'[t]
           g == Gone(t)
           P2 == [P EXCEPT ![q] = None]
<1>1. /\ pc[t] = "clear" /\ FrameOK(t, "clear", r) /\ r.bit \in Nat /\ r.cnt \in Nat /\ r.bit < r.cnt
      /\ r.gone = page_ptr(pg_no(r.gone)) /\ PagesAre(P, B, g, q, r.cnt - r.bit) /\ Clean(P, mem, g, NULL)
      /\ Quiet(t) /\ Locks(t) /\ UNCHANGED <<pool_lock, blocks, mem, held>>
      /\ q \in Pages /\ P[q] = g /\ used_map' = used_map \ {q}
  BY FreeClearNext
<1>2. /\ Going(t, r, r2) /\ r2.bit = r.bit + 1 /\ r2.gone = r.gone /\ r2.cnt = r.cnt /\ r2.desc = r.desc
      /\ c2 = (IF r.bit + 1 < r.cnt THEN "clear" ELSE "freed")
  BY FreeClearNext
<1>3. /\ LockOK(t, "clear", r, used_map, pool_lock, desc_lock, free_list)
      /\ NewOK(t, "clear", r, P, B, mem) /\ ContentOK(t, "clear", r, mem)
      /\ HeldOK(t, "clear", r, held[t], P, B, mem) /\ Headers(P, mem) /\ OneHeader(P, mem)
      /\ Mapped(P, B, used_map, held)
  BY <1>1, ThreadIs, OwnedIs
<1>4. Turned(P, P2, q, g, None, used_map, used_map') /\ P2[q] = None /\ \A n \in Pages : n # q => P2[n] = P[n]
  BY <1>1, <1>3 DEF Mapped, Turned
<1>5. Owner(g) /\ Owner(New(t)) /\ New(t) # g /\ g # None
  BY OwnersAre, TagsDiffer DEF g
<1> HIDE DEF P2, r2, c2, g, q, r
<1>6. \A e : Owner(e) /\ e # g => Same(P, B, P2, B, e, e)
  BY <1>1, <1>3, <1>4, <1>5, PageSame
<1>7. c2 \in {"clear", "freed"}
  BY <1>2
<1>8. FrameOK(t, c2, r2) /\ AskOK(c2, r2) /\ NewOK(t, c2, r2, P2, B, mem) /\ ContentOK(t, c2, r2, mem)
  <2>1. Same(P, B, P2, B, New(t), New(t))
    BY <1>5, <1>6
  <2>2. "clear" \in Frees /\ c2 \in Frees \cup {"return"}
    BY <1>7 DEF Frees
  <2>3. \A x \in Addr : Owns(P, B, New(t), x) => mem[x] = mem[x]
    OBVIOUS
  <2> QED BY <1>1, <1>2, <1>3, <2>1, <2>2, <2>3, GoOn
<1>9. LockOK(t, c2, r2, used_map', pool_lock', desc_lock', free_list')
  BY <1>1, <1>2, <1>3, <1>7 DEF LockOK, Arranges, Releases, blocks
<1>10. GoneOK(t, c2, r2, P2, B, mem)
  <2>0. pg_no(r.gone) \in Nat /\ q \in Nat /\ q = pg_no(r.gone) + r.bit
    <3>1. r.gone \in Nat
      BY <1>1, AnyFrame
    <3> QED BY <1>1, <3>1, PageOf, PagesNat DEF q
  <2>1. q + (r.cnt - r.bit) - 1 <= KernelPages + UserPages /\ NoBlock(B, g)
        /\ \A j \in Pages : P[j] = g <=> q <= j /\ j < q + (r.cnt - r.bit)
    BY <1>1 DEF PagesAre
  <2>2. \A j \in Pages : P2[j] = g <=> q + 1 <= j /\ j < q + (r.cnt - r.bit)
    BY <1>1, <1>4, <1>5, <2>0, <2>1, PagesNat
  <2>3. CASE r.bit + 1 < r.cnt
    <3>1. c2 = "clear" /\ pg_no(r2.gone) + r2.bit = q + 1 /\ r2.cnt - r2.bit = r.cnt - r.bit - 1 /\ r2.bit < r2.cnt
      BY <1>1, <1>2, <2>0, <2>3
    <3>2. q + 1 \in Pages /\ KernelPages + UserPages \in Nat
      BY <1>1, <2>0, <2>1, <2>3, PagesNat DEF Pages
    <3>3. PagesAre(P2, B, g, q + 1, r.cnt - r.bit - 1)
      <4>1. r.cnt - r.bit - 1 \in Nat /\ (q + 1) + (r.cnt - r.bit - 1) = q + (r.cnt - r.bit)
        BY <1>1, <2>0
      <4>2. (q + 1) + (r.cnt - r.bit - 1) - 1 <= KernelPages + UserPages
        <5>1. q + (r.cnt - r.bit) - 1 <= KernelPages + UserPages
          BY <2>1
        <5> QED BY <1>1, <2>0, <3>2, <5>1
      <4> QED BY <2>1, <2>2, <3>2, <4>1, <4>2 DEF PagesAre
    <3>4. Clean(P2, mem, g, NULL)
      BY <1>1, <1>4, <1>5, AddrIs DEF Clean
    <3>5. r2.gone = page_ptr(pg_no(r2.gone))
      BY <1>1, <1>2
    <3> QED BY <3>1, <3>3, <3>4, <3>5 DEF GoneOK, Asks, g
  <2>4. CASE ~(r.bit + 1 < r.cnt)
    <3>1. c2 = "freed"
      BY <1>2, <2>4
    <3>2. q + (r.cnt - r.bit) = q + 1
      BY <1>1, <2>0, <2>4
    <3>3. NoPage(P2, g)
      BY <2>0, <2>2, <3>2, PagesNat DEF NoPage
    <3> QED BY <2>1, <3>1, <3>3 DEF GoneOK, Asks, Nothing, g
  <2> QED BY <2>3, <2>4
<1>11. HeldOK(t, c2, r2, held[t], P2, B, mem)
  <2>1. ASSUME NEW e \in held[t]
        PROVE  /\ e \in held[t] /\ Same(P, B, P2, B, Has(t, e), Has(t, e))
               /\ \A x \in Addr : Owns(P, B, Has(t, e), x) => mem[x] = mem[x]
    <3>1. Has(t, e) # g /\ Owner(Has(t, e))
      BY TagsDiffer, OwnersAre DEF g
    <3> QED BY <1>6, <3>1
  <2>2. c2 \notin Asks
    BY <1>7 DEF Asks
  <2> QED BY <1>3, <2>1, <2>2, HeldMoves
<1>12. ThreadNext(t, P2, B)
  <2>1. mem' = mem /\ held'[t] = held[t]
    BY <1>1
  <2> QED BY <1>8, <1>9, <1>10, <1>11, <2>1 DEF ThreadNext, ThreadOK, r2, c2
<1>13. ASSUME NEW u \in Thread, u # t PROVE KeepsPool(u, used_map, pool_lock, used_map', pool_lock')
  BY <1>1 DEF KeepsPool
<1>14. UNCHANGED <<free_list, mem, held>> /\ pc[t] \notin {"pop", "unlist"}
  BY <1>1 DEF blocks
<1> QED BY <1>1, <1>4, <1>12, <1>13, <1>14, PageStep DEF g

-----------------------------------------------------------------------------
(* Lists of blocks, each in them once.                                     *)

Once(s) == \A i, j \in DOMAIN s : s[i] = s[j] => i = j
Among(s, a) == \E i \in DOMAIN s : s[i] = a

LEMMA ListsAre ==
    ASSUME NEW P, NEW B, NEW fl
    PROVE  ListsOK(P, B, fl) <=>
              /\ fl \in [Desc -> Seq(Addr)]
              /\ \A d \in Desc : Once(fl[d]) /\ \A a \in Addr : Among(fl[d], a) <=> B[a] = Listed /\ P[pg_no(a)] = Of(d)
BY DEF ListsOK, Once, Among

LEMMA Tailed ==
    ASSUME NEW S, NEW s \in Seq(S), s # <<>>, Once(s)
    PROVE  /\ Head(s) \in S /\ Among(s, Head(s)) /\ Tail(s) \in Seq(S) /\ Once(Tail(s))
           /\ \A a : Among(Tail(s), a) <=> Among(s, a) /\ a # Head(s)
<1> DEFINE u == Tail(s)
           k == Len(s)
<1>1. /\ Head(s) \in S /\ u \in Seq(S) /\ Len(u) = k - 1 /\ \A i \in 1..Len(u) : u[i] = s[i + 1]
  BY HeadTailProperties
<1>2. DOMAIN s = 1..k /\ DOMAIN u = 1..Len(u) /\ k \in Nat /\ k # 0
  BY <1>1, EmptySeq
<1>3. Head(s) = s[1]
  OBVIOUS
<1> HIDE DEF u, k
<1>4. k > 0 /\ 1 \in 1..k /\ \A i \in 1..(k - 1) : i + 1 \in 1..k
  BY <1>2
<1>5. DOMAIN u = 1..(k - 1) /\ \A i \in 1..(k - 1) : u[i] = s[i + 1]
  BY <1>1, <1>2
<1>6. Once(u)
  <2> SUFFICES ASSUME NEW i \in 1..(k - 1), NEW j \in 1..(k - 1), u[i] = u[j] PROVE i = j
    BY <1>5 DEF Once
  <2>1. s[i + 1] = s[j + 1] /\ i + 1 \in DOMAIN s /\ j + 1 \in DOMAIN s
    BY <1>2, <1>4, <1>5
  <2>2. i + 1 = j + 1
    BY <2>1 DEF Once
  <2> QED BY <2>2
<1>7. ASSUME NEW a, Among(u, a) PROVE Among(s, a) /\ a # Head(s)
  <2>1. PICK i \in 1..(k - 1) : s[i + 1] = a
    BY <1>5, <1>7 DEF Among
  <2>2. i + 1 \in DOMAIN s /\ 1 \in DOMAIN s /\ i + 1 # 1
    BY <1>2, <1>4
  <2>3. s[1] # a
    BY <2>1, <2>2 DEF Once
  <2> QED BY <1>3, <2>1, <2>2, <2>3 DEF Among
<1>8. ASSUME NEW a, Among(s, a), a # Head(s) PROVE Among(u, a)
  <2>1. PICK i \in 1..k : s[i] = a
    BY <1>2, <1>8 DEF Among
  <2>2. i # 1
    BY <1>3, <1>8, <2>1
  <2>3. i - 1 \in 1..(k - 1) /\ (i - 1) + 1 = i
    BY <1>2, <2>2
  <2>4. u[i - 1] = a
    BY <1>5, <2>1, <2>3
  <2> QED BY <1>5, <2>3, <2>4 DEF Among
<1>9. Among(s, Head(s))
  BY <1>2, <1>3, <1>4 DEF Among
<1> QED BY <1>1, <1>6, <1>7, <1>8, <1>9 DEF u

LEMMA Joined ==
    ASSUME NEW S, NEW s \in Seq(S), NEW u \in Seq(S), Once(s), Once(u), \A a : ~(Among(s, a) /\ Among(u, a))
    PROVE  /\ s \o u \in Seq(S) /\ Once(s \o u)
           /\ \A a : Among(s \o u, a) <=> Among(s, a) \/ Among(u, a)
<1> DEFINE v == s \o u
           k == Len(s)
           l == Len(u)
<1>1. v \in Seq(S) /\ Len(v) = k + l /\ \A i \in 1..(k + l) : v[i] = IF i <= k THEN s[i] ELSE u[i - k]
  BY ConcatProperties
<1>2. DOMAIN s = 1..k /\ DOMAIN u = 1..l /\ k \in Nat /\ l \in Nat /\ DOMAIN v = 1..Len(v)
  BY <1>1
<1> HIDE DEF v, k, l
<1>3. DOMAIN v = 1..(k + l)
  BY <1>1, <1>2
<1>4. \A i \in 1..k : i \in 1..(k + l) /\ v[i] = s[i]
  BY <1>1, <1>2
<1>5. \A i \in 1..l : i + k \in 1..(k + l) /\ v[i + k] = u[i]
  <2> SUFFICES ASSUME NEW i \in 1..l PROVE i + k \in 1..(k + l) /\ v[i + k] = u[i]
    OBVIOUS
  <2>1. i + k \in 1..(k + l) /\ ~(i + k <= k) /\ (i + k) - k = i
    BY <1>2
  <2> QED BY <1>1, <2>1
<1>6. ASSUME NEW i \in 1..(k + l)
      PROVE  \/ i \in 1..k /\ v[i] = s[i]
             \/ i \notin 1..k /\ i - k \in 1..l /\ v[i] = u[i - k]
  <2>1. CASE i <= k
    BY <1>2, <1>4, <2>1
  <2>2. CASE ~(i <= k)
    BY <1>1, <1>2, <2>2
  <2> QED BY <2>1, <2>2
<1>7. \A a : Among(v, a) <=> Among(s, a) \/ Among(u, a)
  BY <1>2, <1>3, <1>4, <1>5, <1>6 DEF Among
<1>8. Once(v)
  <2> SUFFICES ASSUME NEW i \in 1..(k + l), NEW j \in 1..(k + l), v[i] = v[j] PROVE i = j
    BY <1>3 DEF Once
  <2>1. CASE i \in 1..k /\ j \in 1..k
    BY <1>2, <1>4, <2>1 DEF Once
  <2>2. CASE i \notin 1..k /\ j \notin 1..k
    <3>1. i - k \in DOMAIN u /\ j - k \in DOMAIN u /\ u[i - k] = u[j - k]
      BY <1>2, <1>6, <2>2
    <3>2. i - k = j - k
      BY <3>1 DEF Once
    <3> QED BY <1>2, <3>2
  <2>3. CASE i \in 1..k /\ j \notin 1..k
    <3>1. s[i] = u[j - k] /\ i \in DOMAIN s /\ j - k \in DOMAIN u
      BY <1>2, <1>4, <1>6, <2>3
    <3> QED BY <3>1 DEF Among
  <2>4. CASE i \notin 1..k /\ j \in 1..k
    <3>1. s[j] = u[i - k] /\ j \in DOMAIN s /\ i - k \in DOMAIN u
      BY <1>2, <1>4, <1>6, <2>4
    <3> QED BY <3>1 DEF Among
  <2> QED BY <2>1, <2>2, <2>3, <2>4
<1> QED BY <1>1, <1>7, <1>8 DEF v

LEMMA Pushed ==
    ASSUME NEW S, NEW s \in Seq(S), Once(s), NEW p \in S, ~Among(s, p)
    PROVE  /\ <<p>> \o s \in Seq(S) /\ Once(<<p>> \o s)
           /\ \A a : Among(<<p>> \o s, a) <=> a = p \/ Among(s, a)
<1>1. <<p>> \in Seq(S) /\ DOMAIN <<p>> = {1} /\ <<p>>[1] = p
  OBVIOUS
<1>2. Once(<<p>>) /\ \A a : Among(<<p>>, a) <=> a = p
  BY <1>1 DEF Once, Among
<1>3. \A a : ~(Among(<<p>>, a) /\ Among(s, a))
  BY <1>2
<1>4. /\ <<p>> \o s \in Seq(S) /\ Once(<<p>> \o s)
      /\ \A a : Among(<<p>> \o s, a) <=> Among(<<p>>, a) \/ Among(s, a)
  BY <1>1, <1>2, <1>3, Joined
<1> QED BY <1>2, <1>4

LEMMA Removed ==
    ASSUME NEW S, NEW s \in Seq(S), Once(s), NEW b, Among(s, b)
    PROVE  /\ list_remove(s, b) \in Seq(S) /\ Once(list_remove(s, b))
           /\ \A a : Among(list_remove(s, b), a) <=> Among(s, a) /\ a # b
<1> DEFINE k == Len(s)
           i == CHOOSE i \in DOMAIN s : s[i] = b
           x == SubSeq(s, 1, i - 1)
           y == SubSeq(s, i + 1, k)
<1>1. DOMAIN s = 1..k /\ k \in Nat /\ i \in DOMAIN s /\ s[i] = b
  BY DEF Among
<1>2. list_remove(s, b) = x \o y
  BY DEF list_remove, Seqs!RemoveAt
<1> HIDE DEF i, k
<1>3. i \in 1..k /\ i \in Nat /\ k \in Nat /\ 1 <= i /\ i <= k
  BY <1>1
<1>4. \A j \in 1..k : s[j] \in S
  BY <1>1
<1>5. \A j \in 1..(i - 1) : s[j] \in S
  BY <1>3, <1>4
<1>6. \A j \in (i + 1)..k : s[j] \in S
  BY <1>3, <1>4
<1>7. x \in Seq(S) /\ Len(x) = i - 1 /\ \A j \in 1..(i - 1) : x[j] = s[j]
  <2>1. 1 \in Int /\ i - 1 \in Int
    BY <1>3
  <2>2. x \in Seq(S) /\ Len(x) = (IF 1 <= i - 1 THEN i - 1 - 1 + 1 ELSE 0) /\ \A j \in 1..(i - 1 - 1 + 1) : x[j] = s[1 + j - 1]
    BY <1>5, <2>1, SubSeqProperties
  <2>3. Len(x) = i - 1 /\ i - 1 - 1 + 1 = i - 1
    BY <1>3, <2>2
  <2>4. \A j \in 1..(i - 1) : 1 + j - 1 = j
    OBVIOUS
  <2> QED BY <2>2, <2>3, <2>4
<1>8. y \in Seq(S) /\ Len(y) = k - i /\ \A j \in 1..(k - i) : y[j] = s[i + j]
  <2>1. i + 1 \in Int /\ k \in Int
    BY <1>3
  <2>2. y \in Seq(S) /\ Len(y) = (IF i + 1 <= k THEN k - (i + 1) + 1 ELSE 0) /\ \A j \in 1..(k - (i + 1) + 1) : y[j] = s[(i + 1) + j - 1]
    BY <1>6, <2>1, SubSeqProperties
  <2>3. Len(y) = k - i /\ k - (i + 1) + 1 = k - i
    BY <1>3, <2>2
  <2>4. \A j \in 1..(k - i) : (i + 1) + j - 1 = i + j
    BY <1>3
  <2> QED BY <2>2, <2>3, <2>4
<1> HIDE DEF x, y
<1>9. DOMAIN x = 1..(i - 1) /\ DOMAIN y = 1..(k - i)
  BY <1>7, <1>8
<1>10. \A j \in 1..(i - 1) : j \in 1..k /\ j # i
  BY <1>3
<1>11. \A j \in 1..(k - i) : i + j \in 1..k /\ i + j # i
  BY <1>3
<1>12. Once(x)
  BY <1>1, <1>7, <1>9, <1>10 DEF Once
<1>13. Once(y)
  <2> SUFFICES ASSUME NEW j \in 1..(k - i), NEW l \in 1..(k - i), y[j] = y[l] PROVE j = l
    BY <1>9 DEF Once
  <2>1. i + j = i + l
    BY <1>1, <1>8, <1>11 DEF Once
  <2> QED BY <1>3, <2>1
<1>14. \A a : Among(x, a) <=> \E j \in 1..k : j < i /\ s[j] = a
  <2>1. \A j \in 1..k : j < i <=> j \in 1..(i - 1)
    BY <1>3
  <2> QED BY <1>7, <1>9, <1>10, <2>1 DEF Among
<1>15. \A a : Among(y, a) <=> \E j \in 1..k : i < j /\ s[j] = a
  <2>1. ASSUME NEW a, Among(y, a) PROVE \E j \in 1..k : i < j /\ s[j] = a
    <3>1. PICK l \in 1..(k - i) : y[l] = a
      BY <1>9, <2>1 DEF Among
    <3>2. i + l \in 1..k /\ i < i + l /\ s[i + l] = a
      BY <1>3, <1>8, <1>11, <3>1
    <3> QED BY <3>2
  <2>2. ASSUME NEW a, NEW j \in 1..k, i < j, s[j] = a PROVE Among(y, a)
    <3>1. j - i \in 1..(k - i) /\ i + (j - i) = j
      BY <1>3, <2>2
    <3>2. y[j - i] = a
      BY <1>8, <2>2, <3>1
    <3> QED BY <1>9, <3>1, <3>2 DEF Among
  <2> QED BY <2>1, <2>2
<1>16. \A a : ~(Among(x, a) /\ Among(y, a))
  <2> SUFFICES ASSUME NEW j \in 1..k, NEW l \in 1..k, j < i, i < l, s[j] = s[l] PROVE FALSE
    BY <1>14, <1>15
  <2>1. j = l
    BY <1>1 DEF Once
  <2> QED BY <1>3, <2>1
<1>17. /\ x \o y \in Seq(S) /\ Once(x \o y) /\ \A a : Among(x \o y, a) <=> Among(x, a) \/ Among(y, a)
  BY <1>7, <1>8, <1>12, <1>13, <1>16, Joined
<1>18. \A j \in 1..k : (j < i \/ i < j) <=> s[j] # b
  <2>1. \A j \in 1..k : (j < i \/ i < j) <=> j # i
    BY <1>3
  <2>2. \A j \in 1..k : s[j] = b <=> j = i
    BY <1>1 DEF Once
  <2> QED BY <2>1, <2>2
<1>19. \A a : Among(s, a) <=> \E j \in 1..k : s[j] = a
  BY <1>1 DEF Among
<1>20. \A a : Among(x \o y, a) <=> Among(s, a) /\ a # b
  BY <1>14, <1>15, <1>17, <1>18, <1>19
<1> QED BY <1>2, <1>17, <1>20

-----------------------------------------------------------------------------
(* Steps that are about one arena.                                         *)

\* Thread t is in the middle of something with the arena in page n.
About(t, n, d) ==
    /\ desc_lock[d] = t /\ pc[t] \in {"pop", "unlist"} /\ frame[t].desc = d
    /\ pc[t] = "pop" => pg_no(Head(free_list[d])) = n
    /\ pc[t] = "unlist" => frame[t].gone = page_ptr(n)

\* An arena the step is not about.
LEMMA ArenaBeside ==
    ASSUME NEW t \in Thread, NEW P, NEW B, NEW P2, NEW B2, Owned(P, B), Quiet(t),
           NEW n \in Pages, NEW d \in Desc, P[n] = Of(d), ~About(t, n, d),
           mem'[page_ptr(n)] = mem[page_ptr(n)],
           \A x \in Addr : pg_no(x) = n /\ x # page_ptr(n) => mem'[x] = mem[x] \/ mem'[x].kind # "arena",
           \A a \in Blocks(n, d) : B2[a] = Listed <=> B[a] = Listed,
           \A u \in Thread : u # t => KeepsList(u, P, B, desc_lock, free_list, P2, B2, desc_lock', free_list')
    PROVE  ArenaOK(P2, B2, mem', pc', frame', desc_lock', free_list', n, d)
<1>1. ArenaOK(P, B, mem, pc, frame, desc_lock, free_list, n, d)
  BY OwnedIs
<1>2. ListedOn(B2, n, d) = ListedOn(B, n, d)
  BY DEF ListedOn
<1>3. Counted(B, mem, n, d) => Counted(B2, mem', n, d)
  BY <1>2 DEF Counted
<1>4. /\ n \in PoolPages("kernel") /\ mem'[page_ptr(n)] = Arena(d, mem'[page_ptr(n)].free_cnt)
      /\ \A x \in Addr : pg_no(x) = n /\ x # page_ptr(n) => mem'[x].kind # "arena"
  BY <1>1 DEF ArenaOK
<1>5. ASSUME NEW u \in Thread, u # t, desc_lock[d] = u
      PROVE  desc_lock'[d] = u /\ pc'[u] = pc[u] /\ frame'[u] = frame[u] /\ free_list'[d] = free_list[d]
  BY <1>5 DEF KeepsList, Quiet
<1>6. CASE Counted(B, mem, n, d) /\ mem[page_ptr(n)].free_cnt < blocks_per_arena(d)
  BY <1>3, <1>4, <1>6 DEF ArenaOK
<1>7. CASE \E u \in Thread : desc_lock[d] = u /\ pc[u] = "pop" /\ frame[u].desc = d
                             /\ pg_no(Head(free_list[d])) = n /\ Counted(B, mem, n, d)
  <2>1. PICK u \in Thread : desc_lock[d] = u /\ pc[u] = "pop" /\ frame[u].desc = d
                            /\ pg_no(Head(free_list[d])) = n /\ Counted(B, mem, n, d)
    BY <1>7
  <2>2. u # t
    BY <2>1 DEF About
  <2>3. desc_lock'[d] = u /\ pc'[u] = "pop" /\ frame'[u].desc = d /\ pg_no(Head(free_list'[d])) = n /\ Counted(B2, mem', n, d)
    BY <1>3, <1>5, <2>1, <2>2
  <2> QED BY <1>4, <2>3 DEF ArenaOK
<1>8. CASE \E u \in Thread : desc_lock[d] = u /\ pc[u] = "unlist" /\ frame[u].desc = d /\ frame[u].gone = page_ptr(n)
  <2>1. PICK u \in Thread : desc_lock[d] = u /\ pc[u] = "unlist" /\ frame[u].desc = d /\ frame[u].gone = page_ptr(n)
    BY <1>8
  <2>2. u # t
    BY <2>1 DEF About
  <2>3. desc_lock'[d] = u /\ pc'[u] = "unlist" /\ frame'[u].desc = d /\ frame'[u].gone = page_ptr(n)
    BY <1>5, <2>1, <2>2
  <2> QED BY <1>4, <2>3 DEF ArenaOK
<1> QED BY <1>1, <1>6, <1>7, <1>8 DEF ArenaOK

\* A block of thread t is its own for something else, or in the free list.
Relabel(t, B, B2, b, k) ==
    /\ B2 = [B EXCEPT ![b] = k]
    /\ B[b] = Listed \/ Theirs(t, B[b])
    /\ k = Listed \/ Theirs(t, k)

LEMMA Relabels ==
    ASSUME NEW t, NEW P, NEW B, NEW B2, NEW used, NEW hs, Mapped(P, B, used, hs), NEW n \in Pages, NEW d \in Desc,
           P[n] = Of(d), NEW b \in Blocks(n, d), NEW k, Relabel(t, B, B2, b, k), k = Listed \/ Tag(hs, k)
    PROVE  /\ Mapped(P, B2, used, hs) /\ B2[b] = k /\ \A a \in Addr : a # b => B2[a] = B[a]
           /\ \A e : Owner(e) /\ ~Theirs(t, e) => Same(P, B, P, B2, e, e)
<1>1. b \in Addr /\ pg_no(b) = n
  BY BlockIn
<1>2. B2 = [a \in Addr |-> B2[a]] /\ B2[b] = k /\ \A a \in Addr : a # b => B2[a] = B[a]
  BY <1>1 DEF Mapped, Relabel
<1>3. (\A g : Theirs(t, g) => g # None) /\ Listed # None
  BY Owners, TagsDiffer DEF Owner
<1>4. B[b] # None /\ k # None
  BY <1>3 DEF Relabel
<1>5. \A a \in Addr : B2[a] # None <=> \E e \in Desc : P[pg_no(a)] = Of(e) /\ a \in Blocks(pg_no(a), e)
  BY <1>1, <1>2, <1>4 DEF Mapped
<1>6. \A a \in Addr : B2[a] \in {None, Listed} \/ Tag(hs, B2[a])
  BY <1>2 DEF Mapped
<1>7. Mapped(P, B2, used, hs)
  BY <1>2, <1>5, <1>6 DEF Mapped
<1>8. ASSUME NEW e, Owner(e), ~Theirs(t, e) PROVE Same(P, B, P, B2, e, e)
  <2>1. B[b] # e /\ k # e
    BY <1>8, Owners DEF Relabel
  <2> QED BY <1>2, <2>1 DEF Same
<1> QED BY <1>2, <1>7, <1>8

LEMMA BlockStep ==
    ASSUME NEW t \in Thread, NEW P, NEW B, NEW B2, Owned(P, B), Quiet(t), NEW n \in Pages, NEW d \in Desc,
           P[n] = Of(d), NEW b \in Blocks(n, d), NEW k, Relabel(t, B, B2, b, k), k = Listed \/ Tag(held, k),
           UNCHANGED <<used_map, pool_lock, held>>, LocksOK(pool_lock', desc_lock'),
           desc_lock[d] \in {t, Nobody},
           \A e \in Desc : e # d => desc_lock'[e] = desc_lock[e] /\ free_list'[e] = free_list[e],
           free_list' \in [Desc -> Seq(Addr)], Once(free_list'[d]),
           \A a \in Addr : Among(free_list'[d], a) <=> B2[a] = Listed /\ P[pg_no(a)] = Of(d),
           mem' = [x \in Addr |-> mem'[x]], \A x \in Addr : x # page_ptr(n) => mem'[x] = mem[x],
           ArenaOK(P, B2, mem', pc', frame', desc_lock', free_list', n, d),
           \A e \in Desc, i \in Pages : i # n => ~About(t, i, e),
           ThreadNext(t, P, B2)
    PROVE  MemoryInv'
<1>1. /\ Mapped(P, B, used_map, held) /\ ListsOK(P, B, free_list) /\ MemOK(P, mem)
  BY OwnedIs
<1>2. /\ Mapped(P, B2, used_map, held) /\ B2[b] = k /\ \A a \in Addr : a # b => B2[a] = B[a]
      /\ \A e : Owner(e) /\ ~Theirs(t, e) => Same(P, B, P, B2, e, e)
  BY <1>1, Relabels
<1>3. b \in Addr /\ pg_no(b) = n
  BY BlockIn
<1>4. ASSUME NEW u \in Thread, u # t
      PROVE  /\ KeepsTags(u, P, B, P, B2) /\ KeepsMem(u, P, B, mem, mem')
             /\ KeepsList(u, P, B, desc_lock, free_list, P, B2, desc_lock', free_list')
             /\ KeepsPool(u, used_map, pool_lock, used_map', pool_lock')
  <2>1. KeepsTags(u, P, B, P, B2)
    <3> SUFFICES ASSUME NEW e, Theirs(u, e) PROVE Same(P, B, P, B2, e, e)
      BY DEF KeepsTags
    <3>1. ~Theirs(t, e) /\ Owner(e)
      BY <1>4, TheirsOnce DEF Owner
    <3> QED BY <1>2, <3>1
  <2>2. KeepsMem(u, P, B, mem, mem')
    <3>1. \A x \in Addr : \/ mem'[x] = mem[x]
                          \/ \E g : Theirs(t, g) /\ Owns(P, B, g, x)
                          \/ \E i \in Pages, e \in Desc : P[i] = Of(e) /\ x = page_ptr(i)
      OBVIOUS
    <3> QED BY ONLY <1>4, <3>1, MemMine
  <2>3. KeepsList(u, P, B, desc_lock, free_list, P, B2, desc_lock', free_list')
    <3> SUFFICES ASSUME NEW e \in Desc, desc_lock[e] = u
                 PROVE  /\ desc_lock'[e] = u /\ free_list'[e] = free_list[e]
                        /\ \A i \in Pages : P[i] = Of(e) =>
                              \A a \in Addr : pg_no(a) = i /\ B[a] = Listed => B2[a] = Listed
      BY DEF KeepsList
    <3>1. e # d
      BY <1>4, NobodyIs
    <3>2. \A i \in Pages : P[i] = Of(e) => i # n
      BY <3>1, TagsDiffer
    <3> QED BY <1>2, <1>3, <3>1, <3>2
  <2>4. KeepsPool(u, used_map, pool_lock, used_map', pool_lock')
    BY DEF KeepsPool
  <2> QED BY <2>1, <2>2, <2>3, <2>4
<1>5. ASSUME NEW i \in Pages, NEW e \in Desc, P[i] = Of(e)
      PROVE  ArenaOK(P, B2, mem', pc', frame', desc_lock', free_list', i, e)
  <2>1. CASE i = n
    <3>1. e = d
      BY <1>5, <2>1, TagsDiffer
    <3> QED BY <2>1, <3>1
  <2>2. CASE i # n
    <3>1. page_ptr(i) \in Addr /\ pg_no(page_ptr(i)) = i /\ pg_no(page_ptr(n)) = n
      BY PtrAddr
    <3>2. \A x \in Addr : pg_no(x) = i => mem'[x] = mem[x]
      BY <2>2, <3>1
    <3>3. \A a \in Blocks(i, e) : B2[a] = Listed <=> B[a] = Listed
      BY <1>2, <1>3, <2>2, BlockIn
    <3>4. mem'[page_ptr(i)] = mem[page_ptr(i)]
      BY <3>1, <3>2
    <3>5. ~About(t, i, e)
      BY <2>2
    <3> QED BY <1>4, <1>5, <3>2, <3>3, <3>4, <3>5, ArenaBeside
  <2> QED BY <2>1, <2>2
<1>6. MemOK(P, mem')
  <2> SUFFICES ASSUME NEW x \in Addr, P[pg_no(x)] = None, x # NULL PROVE mem'[x].kind # "arena"
    BY DEF MemOK, Clean
  <2>1. x # page_ptr(n)
    BY PtrAddr, TagsDiffer
  <2> QED BY <1>1, <2>1 DEF MemOK, Clean
<1>7. ListsOK(P, B2, free_list')
  <2>1. ASSUME NEW e \in Desc, e # d, NEW a \in Addr
        PROVE  Once(free_list'[e]) /\ (Among(free_list'[e], a) <=> B2[a] = Listed /\ P[pg_no(a)] = Of(e))
    <3>1. Once(free_list[e]) /\ (Among(free_list[e], a) <=> B[a] = Listed /\ P[pg_no(a)] = Of(e))
      BY <1>1, ListsAre
    <3>2. P[pg_no(b)] # Of(e)
      BY <1>3, <2>1, TagsDiffer
    <3>3. B2[a] = Listed /\ P[pg_no(a)] = Of(e) <=> B[a] = Listed /\ P[pg_no(a)] = Of(e)
      BY <1>2, <3>2
    <3> QED BY <2>1, <3>1, <3>3
  <2>2. ASSUME NEW e \in Desc
        PROVE  Once(free_list'[e]) /\ \A a \in Addr : Among(free_list'[e], a) <=> B2[a] = Listed /\ P[pg_no(a)] = Of(e)
    <3>1. CASE e = d
      BY <3>1
    <3>2. CASE e # d
      BY <1>3, <2>1, <3>2
    <3> QED BY <3>1, <3>2
  <2> QED BY <2>2, ListsAre
<1>8. Mapped(P, B2, used_map', held')
  BY <1>2
<1> QED BY <1>4, <1>5, <1>6, <1>7, <1>8, Step

LEMMA ListedCount ==
    ASSUME NEW n \in Pages, NEW d \in Desc, NEW B
    PROVE  /\ IsFiniteSet(ListedOn(B, n, d)) /\ Cardinality(ListedOn(B, n, d)) \in Nat
           /\ Cardinality(ListedOn(B, n, d)) <= blocks_per_arena(d)
           /\ Cardinality(ListedOn(B, n, d)) = blocks_per_arena(d) => ListedOn(B, n, d) = Blocks(n, d)
           /\ Cardinality(ListedOn(B, n, d)) = 0 <=> ListedOn(B, n, d) = {}
<1>1. ListedOn(B, n, d) \in SUBSET Blocks(n, d)
  BY DEF ListedOn
<1>2. IsFiniteSet(Blocks(n, d)) /\ Cardinality(Blocks(n, d)) = blocks_per_arena(d)
  BY BlocksCount
<1>3. /\ IsFiniteSet(ListedOn(B, n, d)) /\ Cardinality(ListedOn(B, n, d)) <= Cardinality(Blocks(n, d))
      /\ Cardinality(Blocks(n, d)) = Cardinality(ListedOn(B, n, d)) => Blocks(n, d) = ListedOn(B, n, d)
  BY <1>1, <1>2, FS_Subset
<1>4. Cardinality(ListedOn(B, n, d)) \in Nat
  BY <1>3, FS_CardinalityType
<1>5. Cardinality(ListedOn(B, n, d)) = 0 <=> ListedOn(B, n, d) = {}
  BY <1>3, FS_EmptySet
<1> QED BY <1>2, <1>3, <1>4, <1>5

LEMMA ListedOther ==
    ASSUME NEW n \in Pages, NEW d \in Desc, NEW B, NEW B2, NEW b \in Blocks(n, d),
           \A a \in Addr : a # b => B2[a] = B[a]
    PROVE  /\ B[b] = Listed /\ B2[b] # Listed =>
                Cardinality(ListedOn(B2, n, d)) = Cardinality(ListedOn(B, n, d)) - 1
           /\ B[b] # Listed /\ B2[b] = Listed =>
                Cardinality(ListedOn(B2, n, d)) = Cardinality(ListedOn(B, n, d)) + 1
<1>1. \A a \in Blocks(n, d) : a # b => B2[a] = B[a]
  BY BlockIn
<1>2. IsFiniteSet(ListedOn(B, n, d))
  BY ListedCount
<1>3. ASSUME B[b] = Listed, B2[b] # Listed
      PROVE  Cardinality(ListedOn(B2, n, d)) = Cardinality(ListedOn(B, n, d)) - 1
  <2>1. ListedOn(B2, n, d) = ListedOn(B, n, d) \ {b} /\ b \in ListedOn(B, n, d)
    BY <1>1, <1>3 DEF ListedOn
  <2> QED BY <1>2, <2>1, FS_RemoveElement
<1>4. ASSUME B[b] # Listed, B2[b] = Listed
      PROVE  Cardinality(ListedOn(B2, n, d)) = Cardinality(ListedOn(B, n, d)) + 1
  <2>1. ListedOn(B2, n, d) = ListedOn(B, n, d) \cup {b} /\ b \notin ListedOn(B, n, d)
    BY <1>1, <1>4 DEF ListedOn
  <2> QED BY <1>2, <2>1, FS_AddElement
<1> QED BY <1>3, <1>4

\* The list of a descriptor has blocks of its arenas.
LEMMA ListHas ==
    ASSUME NEW P, NEW B, Owned(P, B), NEW d \in Desc, NEW a, Among(free_list[d], a)
    PROVE  a \in Addr /\ B[a] = Listed /\ pg_no(a) \in Pages /\ P[pg_no(a)] = Of(d) /\ a \in Blocks(pg_no(a), d)
<1>1. Mapped(P, B, used_map, held) /\ ListsOK(P, B, free_list)
  BY OwnedIs
<1>2. a \in Addr
  <2>1. free_list[d] \in Seq(Addr)
    BY <1>1 DEF ListsOK
  <2> QED BY <2>1 DEF Among
<1>3. B[a] = Listed /\ P[pg_no(a)] = Of(d)
  BY <1>1, <1>2, ListsAre
<1>4. pg_no(a) \in Pages /\ \E e \in Desc : P[pg_no(a)] = Of(e) /\ a \in Blocks(pg_no(a), e)
  BY <1>1, <1>2, <1>3, BlockPage, TagsDiffer
<1> QED BY <1>2, <1>3, <1>4, TagsDiffer

LEMMA PopNext ==
    ASSUME NEW t \in Thread, NEW P, NEW B, Owned(P, B), Pop(t)
    PROVE  LET r == frame[t]
               r2 == frame'[t]
               d == r.desc
               b == Head(free_list[d])
               n == pg_no(b)
               c == mem[page_ptr(n)].free_cnt
           IN  /\ pc[t] = "pop" /\ FrameOK(t, "pop", r) /\ r \in AskFrame(t) /\ d \in Desc /\ d # 0
               /\ desc_lock[d] = t /\ Quiet(t) /\ UNCHANGED <<used_map, pool_lock, held>>
               /\ n \in Pages /\ P[n] = Of(d) /\ b \in Blocks(n, d) /\ b \in Nat /\ b # NULL /\ B[b] = Listed
               /\ Counted(B, mem, n, d) /\ mem[page_ptr(n)] = Arena(d, c)
               /\ free_list' = [free_list EXCEPT ![d] = Tail(@)] /\ desc_lock' = [desc_lock EXCEPT ![d] = Nobody]
               /\ mem' = [mem EXCEPT ![page_ptr(n)] = Arena(d, c - 1)]
               /\ pc'[t] = "malloced" /\ r2 \in AskFrame(t) /\ Like(r, r2) /\ r2.ptr = b /\ r2.desc = d /\ r2.cnt = r.cnt
<1> DEFINE r == frame[t]
           r2 == frame'[t]
           d == r.desc
           b == Head(free_list[d])
           n == pg_no(b)
           c == mem[page_ptr(n)].free_cnt
<1>1. /\ pc[t] = "pop" /\ free_list' = [free_list EXCEPT ![d] = Tail(@)]
      /\ mem' = [mem EXCEPT ![Header(b)].free_cnt = @ - 1] /\ desc_lock' = [desc_lock EXCEPT ![d] = Nobody]
      /\ frame' = [frame EXCEPT ![t].ptr = b] /\ pc' = [pc EXCEPT ![t] = "malloced"]
      /\ UNCHANGED <<palloc, held>>
  BY DEF Pop, At, Goto, f
<1>2. /\ FrameOK(t, "pop", r) /\ AskOK("pop", r) /\ LockOK(t, "pop", r, used_map, pool_lock, desc_lock, free_list)
      /\ ListsOK(P, B, free_list) /\ DOMAIN mem = Addr
  BY <1>1, ThreadIs, OwnedIs
<1>3. r \in AskFrame(t) /\ d # 0 /\ d \in Desc /\ desc_lock[d] = t /\ free_list[d] # <<>>
  BY <1>2, AnyFrame DEF AskOK, Asks, LockOK, Arranges
<1>4. Among(free_list[d], b)
  BY <1>2, <1>3, ListsAre, Tailed
<1>5. b \in Addr /\ B[b] = Listed /\ n \in Pages /\ P[n] = Of(d) /\ b \in Blocks(n, d)
  BY <1>3, <1>4, ListHas
<1>6. Header(b) = page_ptr(n) /\ page_ptr(n) \in Addr /\ b \in Nat /\ b # NULL
  <2>1. Header(b) = page_ptr(n) /\ b # NULL
    BY <1>3, <1>5, BlockIn
  <2>2. page_ptr(n) \in Addr /\ b \in Nat
    BY <1>5, PtrAddr, AddrIs
  <2> QED BY <2>1, <2>2
<1>7. ArenaOK(P, B, mem, pc, frame, desc_lock, free_list, n, d)
  BY <1>3, <1>5, OwnedIs
<1>8. Counted(B, mem, n, d) /\ mem[page_ptr(n)] = Arena(d, c)
  BY <1>1, <1>3, <1>7 DEF ArenaOK
<1>9. mem' = [mem EXCEPT ![page_ptr(n)] = Arena(d, c - 1)]
  <2>1. [mem[page_ptr(n)] EXCEPT !.free_cnt = @ - 1] = Arena(d, c - 1)
    BY <1>8 DEF Arena
  <2> QED BY <1>1, <1>2, <1>6, <2>1
<1>10. pc'[t] = "malloced" /\ r2 = [r EXCEPT !.ptr = b] /\ Quiet(t) /\ UNCHANGED <<used_map, pool_lock, held>>
  BY <1>1, OwnedIs DEF Quiet, palloc
<1> HIDE DEF b, r2
<1>11. r2 \in AskFrame(t) /\ Like(r, r2) /\ r2.ptr = b /\ r2.desc = d /\ r2.cnt = r.cnt
  BY <1>3, <1>6, <1>10 DEF AskFrame, Like
<1> HIDE DEF r, d, n, c
<1> QED BY <1>1, <1>2, <1>3, <1>5, <1>6, <1>8, <1>9, <1>10, <1>11 DEF r, d, b, n, c, r2

LEMMA PopKeeps ==
    ASSUME NEW t \in Thread, NEW P, NEW B, Owned(P, B), Pop(t)
    PROVE  MemoryInv'
<1> DEFINE r == frame[t]
           r2 == frame'[t]
           d == r.desc
           b == Head(free_list[d])
           n == pg_no(b)
           c == mem[page_ptr(n)].free_cnt
           g == New(t)
           B2 == [B EXCEPT ![b] = g]
<1>1. /\ pc[t] = "pop" /\ FrameOK(t, "pop", r) /\ r \in AskFrame(t) /\ d \in Desc /\ d # 0
      /\ desc_lock[d] = t /\ Quiet(t) /\ UNCHANGED <<used_map, pool_lock, held>>
      /\ n \in Pages /\ P[n] = Of(d) /\ b \in Blocks(n, d) /\ b \in Nat /\ b # NULL /\ B[b] = Listed
      /\ Counted(B, mem, n, d) /\ mem[page_ptr(n)] = Arena(d, c)
  BY PopNext
<1>2. /\ free_list' = [free_list EXCEPT ![d] = Tail(@)] /\ desc_lock' = [desc_lock EXCEPT ![d] = Nobody]
      /\ mem' = [mem EXCEPT ![page_ptr(n)] = Arena(d, c - 1)]
      /\ pc'[t] = "malloced" /\ r2 \in AskFrame(t) /\ Like(r, r2) /\ r2.ptr = b /\ r2.desc = d /\ r2.cnt = r.cnt
  BY PopNext
<1>3. /\ AskOK("pop", r) /\ LockOK(t, "pop", r, used_map, pool_lock, desc_lock, free_list)
      /\ NewOK(t, "pop", r, P, B, mem) /\ GoneOK(t, "pop", r, P, B, mem) /\ HeldOK(t, "pop", r, held[t], P, B, mem)
      /\ Headers(P, mem) /\ OneHeader(P, mem) /\ Mapped(P, B, used_map, held) /\ ListsOK(P, B, free_list)
      /\ LocksOK(pool_lock, desc_lock) /\ MemOK(P, mem)
  BY <1>1, ThreadIs, OwnedIs
<1>4. free_list[d] # <<>> /\ Nothing(P, B, g)
  BY <1>3 DEF LockOK, NewOK
<1>5. g # Listed /\ g # None /\ Theirs(t, g) /\ Owner(g) /\ Tag(held, g)
  BY TagsDiffer, OwnersAre DEF Tag
<1>6. Relabel(t, B, B2, b, g)
  BY <1>1, <1>5 DEF Relabel
<1>7. \A i \in Pages, e \in Desc : i # n => ~About(t, i, e)
  BY <1>1 DEF About
<1> HIDE DEF B2, g, b, n, c, d, r, r2
<1>8. /\ Mapped(P, B2, used_map, held) /\ B2[b] = g /\ \A a \in Addr : a # b => B2[a] = B[a]
      /\ \A e : Owner(e) /\ ~Theirs(t, e) => Same(P, B, P, B2, e, e)
  <2>1. /\ n \in Pages /\ d \in Desc /\ P[n] = Of(d) /\ b \in Blocks(n, d) /\ (g = Listed \/ Tag(held, g))
        /\ Relabel(t, B, B2, b, g) /\ Mapped(P, B, used_map, held)
    BY <1>1, <1>3, <1>5, <1>6
  <2> QED BY ONLY <2>1, Relabels
<1>9. b \in Addr /\ pg_no(b) = n /\ page_ptr(n) \in Addr
  BY <1>1, BlockIn, PtrAddr
<1>10. free_list' \in [Desc -> Seq(Addr)] /\ Once(free_list'[d])
       /\ \A a \in Addr : Among(free_list'[d], a) <=> B2[a] = Listed /\ P[pg_no(a)] = Of(d)
  <2>1. /\ free_list \in [Desc -> Seq(Addr)] /\ Once(free_list[d])
        /\ \A a \in Addr : Among(free_list[d], a) <=> B[a] = Listed /\ P[pg_no(a)] = Of(d)
    BY <1>1, <1>3, ListsAre
  <2>2. /\ Tail(free_list[d]) \in Seq(Addr) /\ Once(Tail(free_list[d]))
        /\ \A a : Among(Tail(free_list[d]), a) <=> Among(free_list[d], a) /\ a # b
    BY <1>1, <1>4, <2>1, Tailed DEF b
  <2>3. free_list'[d] = Tail(free_list[d]) /\ free_list' \in [Desc -> Seq(Addr)]
    BY <1>1, <1>2, <2>1, <2>2
  <2>4. ASSUME NEW a \in Addr PROVE Among(free_list'[d], a) <=> B2[a] = Listed /\ P[pg_no(a)] = Of(d)
    BY <1>5, <1>8, <2>1, <2>2, <2>3
  <2> QED BY <2>2, <2>3, <2>4
<1>11. mem' = [x \in Addr |-> mem'[x]] /\ mem'[page_ptr(n)] = Arena(d, c - 1) /\ \A x \in Addr : x # page_ptr(n) => mem'[x] = mem[x]
  BY <1>2, <1>3, <1>9 DEF MemOK
<1>12. ArenaOK(P, B2, mem', pc', frame', desc_lock', free_list', n, d)
  <2>1. ArenaOK(P, B, mem, pc, frame, desc_lock, free_list, n, d)
    BY <1>1, OwnedIs
  <2>2. c = Cardinality(ListedOn(B, n, d)) /\ c \in Nat /\ c <= blocks_per_arena(d)
    BY <1>1, ListedCount DEF Counted, c
  <2>3. Cardinality(ListedOn(B2, n, d)) = c - 1
    BY <1>1, <1>5, <1>8, <2>2, ListedOther
  <2>4. mem'[page_ptr(n)].free_cnt = c - 1 /\ mem'[page_ptr(n)] = Arena(d, mem'[page_ptr(n)].free_cnt)
    BY <1>11 DEF Arena
  <2>5. c - 1 < blocks_per_arena(d)
    BY <1>1, <2>2, BlockSizes
  <2>6. \A x \in Addr : pg_no(x) = n /\ x # page_ptr(n) => mem'[x].kind # "arena"
    BY <1>11, <2>1 DEF ArenaOK
  <2> QED BY <2>1, <2>3, <2>4, <2>5, <2>6 DEF ArenaOK, Counted
<1>13. Promise(r2) = Promise(r) /\ From(r2) = From(r) /\ r2.req = r.req /\ r2.old = r.old
  BY <1>2, LikeSame DEF Like
<1>14. FrameOK(t, "malloced", r2)
  BY <1>1, <1>2, StillAsks DEF Asks
<1>15. r.req.op # "page" /\ AskOK("malloced", r2)
  <2>1. r.req.op # "page"
    BY <1>1, <1>3 DEF AskOK, Asks, d
  <2> QED BY <1>1, <1>2, <1>3, <1>13, <2>1 DEF AskOK, Asks, d
<1>16. LockOK(t, "malloced", r2, used_map', pool_lock', desc_lock', free_list')
  BY DEF LockOK, Arranges, Releases
<1>17. NewOK(t, "malloced", r2, P, B2, mem')
  <2>1. \A a \in Addr : B2[a] = g <=> a = b
    BY <1>4, <1>8, <1>9 DEF Nothing, NoBlock
  <2>2. Promise(r) <= BlockSize(d)
    BY <1>1, <1>3 DEF AskOK, Asks, d
  <2>3. Small(P, B2, d, g, b, Promise(r))
    BY <1>1, <1>4, <1>9, <2>1, <2>2 DEF Small, Nothing
  <2>4. Promise(r) \in Nat /\ Promise(r) > 0
    <3>1. r.req.op # "free"
      BY <1>1, AnyFrame DEF Asks
    <3> QED BY <1>1, <3>1, AskedFrame
  <2>5. Given(P, B2, mem', g, b, Promise(r), FALSE)
    BY <1>1, <2>3, <2>4 DEF Given, Block
  <2>6. (r.req.op = "page") = FALSE
    BY <1>15
  <2>7. \A i \in Pages : P[i] # g
    BY <1>4 DEF Nothing, NoPage
  <2> QED BY <1>1, <1>2, <1>13, <2>5, <2>6, <2>7 DEF NewOK, Frees, g
<1>18. GoneOK(t, "malloced", r2, P, B2, mem')
  <2>1. Nothing(P, B, Gone(t)) /\ Gone(t) # g
    BY <1>3, TagsDiffer DEF GoneOK, Asks, g
  <2>2. Nothing(P, B2, Gone(t))
    BY <1>8, <2>1 DEF Nothing, NoBlock
  <2> QED BY <2>2 DEF GoneOK, Asks
<1>19. ContentOK(t, "malloced", r2, mem')
  BY DEF ContentOK, Frees
<1>20. HeldOK(t, "malloced", r2, held'[t], P, B2, mem')
  <2>1. ASSUME NEW e \in held[t]
        PROVE  /\ e \in held[t] /\ Same(P, B, P, B2, Has(t, e), Has(t, e))
               /\ \A x \in Addr : Owns(P, B, Has(t, e), x) => mem'[x] = mem[x]
    <3>1. Has(t, e) # g /\ Has(t, e) # Listed /\ Owner(Has(t, e))
      BY TagsDiffer, OwnersAre DEF g
    <3>2. Same(P, B, P, B2, Has(t, e), Has(t, e))
      BY <1>1, <1>8, <3>1 DEF Same
    <3>3. ~Owns(P, B, Has(t, e), page_ptr(n))
      BY <1>1, <3>1, HeaderNotOwned
    <3> QED BY <1>11, <3>2, <3>3
  <2>2. r.req.op = "realloc" => r.old \in held[t] /\ ~r.old.paged
    BY <1>3 DEF HeldOK, Asks
  <2>3. "malloced" \in Asks /\ r2.req.op = "realloc" => r2.old \in held[t] /\ ~r2.old.paged
    BY <1>13, <2>2
  <2>4. HeldOK(t, "malloced", r2, held[t], P, B2, mem')
    BY <1>3, <2>1, <2>3, HeldMoves
  <2> QED BY <1>1, <2>4
<1>21. ThreadNext(t, P, B2)
  BY <1>2, <1>14, <1>15, <1>16, <1>17, <1>18, <1>19, <1>20 DEF ThreadNext, ThreadOK, r2
<1>22. LocksOK(pool_lock', desc_lock') /\ \A e \in Desc : e # d => desc_lock'[e] = desc_lock[e] /\ free_list'[e] = free_list[e]
  <2>1. free_list \in [Desc -> Seq(Addr)]
    BY <1>3 DEF ListsOK
  <2> QED BY <1>1, <1>2, <1>3, <2>1 DEF LocksOK
<1>23. \A e \in Desc, i \in Pages : i # n => ~About(t, i, e)
  BY <1>7
<1>24. desc_lock[d] \in {t, Nobody}
  BY <1>1
<1> QED BY <1>1, <1>5, <1>6, <1>10, <1>11, <1>12, <1>21, <1>22, <1>23, <1>24, BlockStep

-----------------------------------------------------------------------------
(* free.                                                                   *)

\* A block is its pages, or one of those of an arena.
LEMMA FreeNext ==
    ASSUME NEW t \in Thread, NEW P, NEW B, Owned(P, B), Free(t)
    PROVE  LET r == frame[t]
               r2 == frame'[t]
               p == r.gone
               n == pg_no(p)
               k == mem[page_ptr(n)].free_cnt
           IN  /\ pc[t] = "free" /\ FrameOK(t, "free", r) /\ Quiet(t) /\ UNCHANGED <<used_map, pool_lock, desc_lock, free_list, held>>
               /\ Going(t, r, r2) /\ r2.bit = 0 /\ p \in Nat
               /\ \/ /\ pc'[t] = "fill" /\ UNCHANGED mem /\ r2.desc = 0 /\ r2.cnt = k /\ r2.gone = page_ptr(n)
                     /\ n \in Pages /\ k > 0 /\ PagesAre(P, B, Gone(t), n, k) /\ Clean(P, mem, Gone(t), page_ptr(n))
                     /\ mem[page_ptr(n)] = Arena(0, k)
                  \/ /\ pc'[t] = "free lock" /\ r2.desc \in Desc /\ r2.cnt = 1 /\ r2.gone = p
                     /\ mem' = Filled(p, BlockSize(r2.desc), CC) /\ Small(P, B, r2.desc, Gone(t), p, 0)
<1> DEFINE r == frame[t]
           r2 == frame'[t]
           p == r.gone
           n == pg_no(p)
           a == mem[Header(p)]
           k == mem[page_ptr(n)].free_cnt
<1>1. /\ pc[t] = "free" /\ UNCHANGED <<palloc, blocks, held>>
      /\ frame' = [frame EXCEPT ![t].desc = a.desc, ![t].cnt = IF a.desc = 0 THEN a.free_cnt ELSE 1,
                                ![t].gone = IF a.desc = 0 THEN Header(p) ELSE p]
      /\ mem' = IF a.desc = 0 THEN mem ELSE Filled(p, BlockSize(a.desc), CC)
      /\ pc' = [pc EXCEPT ![t] = IF a.desc = 0 THEN "fill" ELSE "free lock"]
  BY DEF Free, At, Goto, f
<1>2. FrameOK(t, "free", r) /\ GoneOK(t, "free", r, P, B, mem) /\ Headers(P, mem) /\ OneHeader(P, mem)
  BY <1>1, ThreadIs, OwnedIs
<1>3. r.bit = 0 /\ p \in Nat
  BY <1>2, AnyFrame DEF GoneOK
<1>4. PICK s \in Nat : Block(P, B, mem, Gone(t), p, s)
  BY <1>2 DEF GoneOK
<1>5. /\ pc'[t] = (IF a.desc = 0 THEN "fill" ELSE "free lock") /\ Quiet(t)
      /\ r2 = [r EXCEPT !.desc = a.desc, !.cnt = IF a.desc = 0 THEN a.free_cnt ELSE 1,
                        !.gone = IF a.desc = 0 THEN Header(p) ELSE p]
  BY <1>1, OwnedIs DEF Quiet
<1>6. UNCHANGED <<used_map, pool_lock, desc_lock, free_list, held>>
  BY <1>1 DEF palloc, blocks
<1>7. r \in AskFrame(t) \cup FreeFrame
  BY <1>2 DEF FrameOK
<1> HIDE DEF r2, r
<1>8. CASE Big(P, B, mem, Gone(t), p, s)
  <2>1. /\ p = page_ptr(n) + ArenaSize /\ PagesAre(P, B, Gone(t), n, k) /\ mem[page_ptr(n)] = Arena(0, k)
        /\ Clean(P, mem, Gone(t), page_ptr(n)) /\ ArenaSize + s <= k * PGSIZE
    BY <1>8 DEF Big
  <2>2. n \in Pages /\ k \in Nat
    BY <2>1 DEF PagesAre
  <2>3. Header(p) = page_ptr(n) /\ page_ptr(n) \in Nat
    <3>1. Header(page_ptr(n) + ArenaSize) = page_ptr(n) /\ page_ptr(n) \in Addr
      BY <2>2, PtrAddr
    <3> QED BY <2>1, <3>1, AddrIs
  <2>4. a.desc = 0 /\ a.free_cnt = k
    BY <2>1, <2>3 DEF Arena
  <2>5. k # 0
    <3>1. 0 * PGSIZE = 0 /\ ArenaSize \in Nat /\ ArenaSize > 0
      BY Sizes
    <3> HIDE DEF k
    <3> QED BY <2>1, <3>1
  <2>6. r2 = [r EXCEPT !.desc = 0, !.cnt = k, !.gone = page_ptr(n)] /\ pc'[t] = "fill" /\ mem' = mem
    BY <1>1, <1>5, <2>3, <2>4
  <2> HIDE DEF k, a, n, p
  <2>7. Going(t, r, r2) /\ r2.bit = r.bit /\ r2.desc = 0 /\ r2.cnt = k /\ r2.gone = page_ptr(n)
    <3>1. CASE r \in AskFrame(t)
      BY <2>2, <2>3, <2>6, <3>1 DEF AskFrame, Going
    <3>2. CASE r \in FreeFrame
      BY <2>2, <2>3, <2>6, <3>2 DEF FreeFrame, Going
    <3> QED BY <1>7, <3>1, <3>2
  <2>8. k > 0
    BY <2>2, <2>5
  <2> QED BY <1>1, <1>2, <1>3, <1>5, <1>6, <2>1, <2>2, <2>6, <2>7, <2>8 DEF r, r2, p, n, k
<1>9. CASE ~Big(P, B, mem, Gone(t), p, s)
  <2>1. PICK d \in Desc : Small(P, B, d, Gone(t), p, s)
    BY <1>4, <1>9 DEF Block
  <2>2. a = Arena(d, a.free_cnt) /\ d # 0 /\ d \in Nat
    <3>1. Headers(P, mem) /\ OneHeader(P, mem)
      BY <1>2
    <3>2. mem[Header(p)] = Arena(d, mem[Header(p)].free_cnt)
      <4>1. n \in Pages /\ P[n] = Of(d) /\ p \in Blocks(n, d)
        BY <2>1 DEF Small
      <4>2. Header(p) = page_ptr(n)
        BY <4>1, BlockIn
      <4> QED BY <3>1, <4>1, <4>2 DEF Headers
    <3> QED BY <3>2, BlockSizes
  <2>3. a.desc = d
    BY <2>2 DEF Arena
  <2>4. r2 = [r EXCEPT !.desc = d, !.cnt = 1, !.gone = p] /\ pc'[t] = "free lock" /\ mem' = Filled(p, BlockSize(d), CC)
    BY <1>1, <1>5, <2>2, <2>3
  <2>5. Small(P, B, d, Gone(t), p, 0)
    BY <2>1, BlockSizes DEF Small
  <2> HIDE DEF k, a, n
  <2>6. Going(t, r, r2) /\ r2.bit = r.bit /\ r2.desc = d /\ r2.cnt = 1 /\ r2.gone = p
    <3> HIDE DEF p
    <3>1. CASE r \in AskFrame(t)
      BY <1>3, <2>2, <2>4, <3>1 DEF AskFrame, Going
    <3>2. CASE r \in FreeFrame
      BY <1>3, <2>2, <2>4, <3>2 DEF FreeFrame, Going
    <3> QED BY <1>7, <3>1, <3>2
  <2> HIDE DEF p
  <2> QED BY <1>1, <1>2, <1>3, <1>5, <1>6, <2>1, <2>4, <2>5, <2>6 DEF r, r2, p, n, k
<1> QED BY <1>8, <1>9

LEMMA FreeKeeps ==
    ASSUME NEW t \in Thread, NEW P, NEW B, Owned(P, B), Free(t)
    PROVE  MemoryInv'
<1> DEFINE r == frame[t]
           r2 == frame'[t]
           c2 == pc'[t]
           p == r.gone
           n == pg_no(p)
           k == mem[page_ptr(n)].free_cnt
           g == Gone(t)
           big == /\ c2 = "fill" /\ UNCHANGED mem /\ r2.desc = 0 /\ r2.cnt = k /\ r2.gone = page_ptr(n)
                  /\ n \in Pages /\ k > 0 /\ PagesAre(P, B, g, n, k) /\ Clean(P, mem, g, page_ptr(n))
                  /\ mem[page_ptr(n)] = Arena(0, k)
           small == /\ c2 = "free lock" /\ r2.desc \in Desc /\ r2.cnt = 1 /\ r2.gone = p
                    /\ mem' = Filled(p, BlockSize(r2.desc), CC) /\ Small(P, B, r2.desc, g, p, 0)
<1>1. /\ pc[t] = "free" /\ FrameOK(t, "free", r) /\ Quiet(t) /\ UNCHANGED <<used_map, pool_lock, desc_lock, free_list, held>>
      /\ Going(t, r, r2) /\ r2.bit = 0 /\ p \in Nat /\ (big \/ small)
  BY FreeNext
<1>2. /\ NewOK(t, "free", r, P, B, mem) /\ ContentOK(t, "free", r, mem)
      /\ HeldOK(t, "free", r, held[t], P, B, mem) /\ Headers(P, mem) /\ OneHeader(P, mem) /\ MemOK(P, mem)
  BY <1>1, ThreadIs, OwnedIs
<1>3. Owner(g) /\ Owner(New(t)) /\ New(t) # g
  BY OwnersAre, TagsDiffer DEF g
<1>4. \A e : Same(P, B, P, B, e, e)
  BY DEF Same
<1>5. /\ mem' = [x \in Addr |-> mem'[x]]
      /\ \A x \in Addr : mem'[x] = mem[x] \/ (Owns(P, B, g, x) /\ mem'[x] = CC)
  <2>1. CASE big
    BY <1>2, <2>1 DEF MemOK
  <2>2. CASE small
    <3>1. /\ mem' = [x \in Addr |-> mem'[x]]
          /\ \A x \in Addr : x \in Extent(p, BlockSize(r2.desc)) => mem'[x] = CC
          /\ \A x \in Addr : x \notin Extent(p, BlockSize(r2.desc)) => mem'[x] = mem[x]
      <4>1. mem' = Filled(p, BlockSize(r2.desc), CC)
        BY <2>2
      <4> HIDE DEF p, r2
      <4> QED BY <4>1, FilledIs
    <3>2. \A x \in Extent(p, BlockSize(r2.desc)) : Owns(P, B, g, x)
      BY <1>2, <2>2, SmallOwned
    <3> QED BY <3>1, <3>2
  <2> QED BY <1>1, <2>1, <2>2
<1>6. \A e : Owner(e) /\ e # g => \A x \in Addr : Owns(P, B, e, x) => mem'[x] = mem[x]
  BY <1>3, <1>5, OwnsOnce
<1>7. c2 \in {"fill", "free lock"}
  BY <1>1
<1>8. GoneOK(t, c2, r2, P, B, mem')
  <2>1. CASE big
    <3>1. pg_no(r2.gone) = n /\ page_ptr(n) \in Addr
      BY <2>1, PtrAddr
    <3>2. ASSUME NEW x \in Addr, P[pg_no(x)] = g, mem[x].kind = "arena" PROVE mem[x].desc = 0
      <4>1. x = page_ptr(n)
        BY <2>1, <3>2 DEF Clean
      <4> QED BY <2>1, <4>1 DEF Arena
    <3>3. \A x \in Addr : P[pg_no(x)] = Gone(t) /\ mem'[x].kind = "arena" => mem'[x].desc = r2.desc
      BY <2>1, <3>2 DEF g
    <3> HIDE DEF k, n, p, r2
    <3> QED BY <1>1, <2>1, <3>1, <3>3 DEF GoneOK, Asks, g
  <2>2. CASE small
    <3> HIDE DEF k, n, p, r2
    <3>1. r2.desc # 0
      BY <2>2, BlockSizes
    <3> QED BY <1>1, <2>2, <3>1 DEF GoneOK, Asks, g
  <2> QED BY <1>1, <2>1, <2>2
<1>9. LockOK(t, c2, r2, used_map', pool_lock', desc_lock', free_list')
  <2>1. c2 = "fill" => r2.desc = 0
    BY <1>1
  <2> QED BY <1>7, <2>1 DEF LockOK, Arranges, Releases
<1> HIDE DEF r, r2, c2, p, n, k, g, big, small
<1>10. FrameOK(t, c2, r2) /\ AskOK(c2, r2) /\ NewOK(t, c2, r2, P, B, mem') /\ ContentOK(t, c2, r2, mem')
  <2>1. \A x \in Addr : Owns(P, B, New(t), x) => mem'[x] = mem[x]
    BY <1>3, <1>6
  <2>2. Same(P, B, P, B, New(t), New(t))
    BY <1>4
  <2>3. "free" \in Frees /\ c2 \in Frees \cup {"return"}
    BY <1>7 DEF Frees
  <2> QED BY <1>1, <1>2, <2>1, <2>2, <2>3, GoOn
<1>11. HeldOK(t, c2, r2, held[t], P, B, mem')
  <2>1. ASSUME NEW e \in held[t]
        PROVE  /\ e \in held[t] /\ Same(P, B, P, B, Has(t, e), Has(t, e))
               /\ \A x \in Addr : Owns(P, B, Has(t, e), x) => mem'[x] = mem[x]
    <3>1. Has(t, e) # g /\ Owner(Has(t, e))
      BY TagsDiffer, OwnersAre DEF g
    <3> QED BY <1>4, <1>6, <3>1
  <2>2. c2 \notin Asks
    BY <1>7 DEF Asks
  <2> QED BY <1>2, <2>1, <2>2, HeldMoves
<1>12. ThreadNext(t, P, B)
  <2>1. held'[t] = held[t]
    BY <1>1
  <2> QED BY <1>8, <1>9, <1>10, <1>11, <2>1 DEF ThreadNext, ThreadOK, r2, c2
<1>13. \A x \in Addr : mem'[x] = mem[x] \/ (Owns(P, B, g, x) /\ (mem'[x].kind # "arena" \/ P[pg_no(x)] = g))
  BY <1>5 DEF CC
<1>14. pc[t] \notin {"pop", "unlist"} /\ (g = New(t) \/ g = Gone(t))
  BY <1>1 DEF g
<1> QED BY <1>1, <1>5, <1>12, <1>13, <1>14, MemStep

LEMMA FreeLockNext ==
    ASSUME NEW t \in Thread, NEW P, NEW B, Owned(P, B), FreeLock(t)
    PROVE  LET r == frame[t]
               r2 == frame'[t]
               d == r.desc
               p == r.gone
               n == pg_no(p)
               c == mem[page_ptr(n)].free_cnt
               full == c + 1 >= blocks_per_arena(d)
           IN  /\ pc[t] = "free lock" /\ FrameOK(t, "free lock", r) /\ d \in Desc /\ d # 0 /\ desc_lock[d] = Nobody
               /\ Quiet(t) /\ UNCHANGED <<used_map, pool_lock, held>>
               /\ n \in Pages /\ P[n] = Of(d) /\ p \in Blocks(n, d) /\ NoPage(P, Gone(t))
               /\ \A a \in Addr : B[a] = Gone(t) <=> a = p
               /\ c \in Nat /\ c = Cardinality(ListedOn(B, n, d)) /\ c < blocks_per_arena(d)
               /\ free_list' = [free_list EXCEPT ![d] = <<p>> \o @]
               /\ desc_lock' = [desc_lock EXCEPT ![d] = IF full THEN t ELSE Nobody]
               /\ mem' = [mem EXCEPT ![page_ptr(n)] = Arena(d, c + 1)]
               /\ pc'[t] = (IF full THEN "unlist" ELSE "return")
               /\ Going(t, r, r2) /\ r2.gone = page_ptr(n) /\ r2.bit = 0 /\ r2.desc = d /\ r2.cnt = 1
<1> DEFINE r == frame[t]
           r2 == frame'[t]
           d == r.desc
           p == r.gone
           n == pg_no(p)
           c == mem[page_ptr(n)].free_cnt
           full == c + 1 >= blocks_per_arena(d)
<1>1. pc[t] = "free lock" /\ desc_lock[d] = Nobody
  BY DEF FreeLock, At, f
<1>2. FrameOK(t, "free lock", r) /\ GoneOK(t, "free lock", r, P, B, mem)
  BY <1>1, ThreadIs
<1>3. /\ d \in Desc /\ d # 0 /\ n \in Pages /\ P[n] = Of(d) /\ p \in Blocks(n, d) /\ NoPage(P, Gone(t))
      /\ (\A a \in Addr : B[a] = Gone(t) <=> a = p) /\ r.bit = 0 /\ r.cnt = 1
  <2>1. Small(P, B, d, Gone(t), p, 0) /\ r.bit = 0 /\ (d # 0 => r.cnt = 1)
    BY <1>2 DEF GoneOK
  <2>2. d \in Desc
    BY <2>1 DEF Small
  <2>3. d # 0
    BY <2>2, BlockSizes
  <2> QED BY <2>1, <2>3 DEF Small
<1>4. Header(p) = page_ptr(n) /\ page_ptr(n) \in Nat
  <2>1. Header(p) = page_ptr(n) /\ page_ptr(n) \in Addr
    BY <1>3, BlockIn, PtrAddr
  <2> QED BY <2>1, AddrIs
<1>5. /\ desc_lock' = [desc_lock EXCEPT ![d] = IF full THEN t ELSE Nobody]
      /\ mem' = [mem EXCEPT ![page_ptr(n)] = Arena(d, c + 1)]
      /\ free_list' = [free_list EXCEPT ![d] = <<p>> \o @]
      /\ frame' = [frame EXCEPT ![t].gone = page_ptr(n)]
      /\ pc' = [pc EXCEPT ![t] = IF full THEN "unlist" ELSE "return"]
      /\ UNCHANGED <<palloc, held>>
  BY <1>4 DEF FreeLock, Goto, f
<1>6. /\ pc'[t] = (IF full THEN "unlist" ELSE "return") /\ r2 = [r EXCEPT !.gone = page_ptr(n)] /\ Quiet(t)
      /\ UNCHANGED <<used_map, pool_lock, held>>
  BY <1>5, OwnedIs DEF Quiet, palloc
<1>7. c \in Nat /\ c = Cardinality(ListedOn(B, n, d)) /\ c < blocks_per_arena(d)
  <2>1. ArenaOK(P, B, mem, pc, frame, desc_lock, free_list, n, d)
    BY <1>3, OwnedIs
  <2>2. Counted(B, mem, n, d) /\ c < blocks_per_arena(d)
    BY <1>1, <2>1, NobodyIs DEF ArenaOK
  <2> QED BY <1>3, <2>2, ListedCount DEF Counted
<1> HIDE DEF r2, n, c
<1>8. Going(t, r, r2) /\ r2.gone = page_ptr(n) /\ r2.bit = r.bit /\ r2.desc = r.desc /\ r2.cnt = r.cnt
  <2>1. r \in AskFrame(t) \cup FreeFrame
    BY <1>2 DEF FrameOK
  <2> HIDE DEF r
  <2>2. CASE r \in AskFrame(t)
    BY <1>4, <1>6, <2>1, <2>2 DEF AskFrame, Going
  <2>3. CASE r \in FreeFrame
    BY <1>4, <1>6, <2>1, <2>3 DEF FreeFrame, Going
  <2> QED BY <2>1, <2>2, <2>3
<1> HIDE DEF r, d, p, full
<1> QED BY <1>1, <1>2, <1>3, <1>5, <1>6, <1>7, <1>8 DEF r, r2, d, p, n, c, full

LEMMA FreeLockKeeps ==
    ASSUME NEW t \in Thread, NEW P, NEW B, Owned(P, B), FreeLock(t)
    PROVE  MemoryInv'
<1> DEFINE r == frame[t]
           r2 == frame'[t]
           c2 == pc'[t]
           d == r.desc
           p == r.gone
           n == pg_no(p)
           c == mem[page_ptr(n)].free_cnt
           full == c + 1 >= blocks_per_arena(d)
           g == Gone(t)
           B2 == [B EXCEPT ![p] = Listed]
<1>0. /\ pc[t] = "free lock" /\ FrameOK(t, "free lock", r) /\ d \in Desc /\ d # 0 /\ desc_lock[d] = Nobody
      /\ Quiet(t) /\ UNCHANGED <<used_map, pool_lock, held>>
      /\ n \in Pages /\ P[n] = Of(d) /\ p \in Blocks(n, d) /\ NoPage(P, g)
      /\ \A a \in Addr : B[a] = g <=> a = p
      /\ c \in Nat /\ c = Cardinality(ListedOn(B, n, d)) /\ c < blocks_per_arena(d)
      /\ free_list' = [free_list EXCEPT ![d] = <<p>> \o @]
      /\ desc_lock' = [desc_lock EXCEPT ![d] = IF full THEN t ELSE Nobody]
      /\ mem' = [mem EXCEPT ![page_ptr(n)] = Arena(d, c + 1)]
      /\ c2 = (IF full THEN "unlist" ELSE "return")
      /\ Going(t, r, r2) /\ r2.gone = page_ptr(n) /\ r2.bit = 0 /\ r2.desc = d /\ r2.cnt = 1
  BY FreeLockNext
<1>1. /\ pc[t] = "free lock" /\ FrameOK(t, "free lock", r) /\ d \in Desc /\ d # 0 /\ desc_lock[d] = Nobody
      /\ Quiet(t) /\ UNCHANGED <<used_map, pool_lock, held>>
      /\ n \in Pages /\ P[n] = Of(d) /\ p \in Blocks(n, d) /\ NoPage(P, g)
      /\ \A a \in Addr : B[a] = g <=> a = p
  BY <1>0
<1>2. c \in Nat /\ c = Cardinality(ListedOn(B, n, d)) /\ c < blocks_per_arena(d)
  BY <1>0
<1>3. /\ free_list' = [free_list EXCEPT ![d] = <<p>> \o @]
      /\ desc_lock' = [desc_lock EXCEPT ![d] = IF full THEN t ELSE Nobody]
      /\ mem' = [mem EXCEPT ![page_ptr(n)] = Arena(d, c + 1)]
      /\ c2 = (IF full THEN "unlist" ELSE "return")
      /\ Going(t, r, r2) /\ r2.gone = page_ptr(n) /\ r2.bit = 0 /\ r2.desc = d /\ r2.cnt = 1
  BY <1>0
<1>4. /\ NewOK(t, "free lock", r, P, B, mem) /\ ContentOK(t, "free lock", r, mem)
      /\ HeldOK(t, "free lock", r, held[t], P, B, mem)
      /\ Headers(P, mem) /\ OneHeader(P, mem) /\ Mapped(P, B, used_map, held) /\ ListsOK(P, B, free_list)
      /\ LocksOK(pool_lock, desc_lock) /\ MemOK(P, mem)
      /\ ArenaOK(P, B, mem, pc, frame, desc_lock, free_list, n, d)
  BY <1>1, ThreadIs, OwnedIs
<1>5. /\ g # Listed /\ g # None /\ Theirs(t, g) /\ Owner(g) /\ Tag(held, g)
      /\ Owner(New(t)) /\ New(t) # g /\ New(t) # Listed
  BY TagsDiffer, OwnersAre DEF Tag
<1>6. p \in Addr /\ pg_no(p) = n /\ page_ptr(n) \in Addr /\ pg_no(page_ptr(n)) = n /\ B[p] = g
  <2>1. p \in Addr /\ pg_no(p) = n /\ page_ptr(n) \in Addr /\ pg_no(page_ptr(n)) = n
    BY <1>1, BlockIn, PtrAddr
  <2> QED BY <1>1, <2>1
<1>7. Relabel(t, B, B2, p, Listed)
  BY <1>5, <1>6 DEF Relabel
<1>8. \A e \in Desc, i \in Pages : i # n => ~About(t, i, e)
  BY <1>1 DEF About
<1>9. (c2 = "unlist" /\ full) \/ (c2 = "return" /\ ~full)
  BY <1>3
<1> HIDE DEF B2, g, p, n, c, d, r, r2, c2
<1>10. /\ Mapped(P, B2, used_map, held) /\ B2[p] = Listed /\ \A a \in Addr : a # p => B2[a] = B[a]
  <2>1. /\ n \in Pages /\ d \in Desc /\ P[n] = Of(d) /\ p \in Blocks(n, d) /\ Relabel(t, B, B2, p, Listed)
        /\ Mapped(P, B, used_map, held)
    BY <1>1, <1>4, <1>7
  <2> QED BY ONLY <2>1, Relabels
<1>11. \A e : Owner(e) /\ e # g => Same(P, B, P, B2, e, e)
  <2> SUFFICES ASSUME NEW e, Owner(e), e # g PROVE Same(P, B, P, B2, e, e)
    OBVIOUS
  <2>1. e # Listed
    BY Owners
  <2> QED BY <1>6, <1>10, <2>1 DEF Same
<1>12. /\ free_list' \in [Desc -> Seq(Addr)] /\ Once(free_list'[d])
       /\ \A a \in Addr : Among(free_list'[d], a) <=> B2[a] = Listed /\ P[pg_no(a)] = Of(d)
       /\ \A e \in Desc : e # d => desc_lock'[e] = desc_lock[e] /\ free_list'[e] = free_list[e]
       /\ LocksOK(pool_lock', desc_lock')
  <2>1. /\ free_list \in [Desc -> Seq(Addr)] /\ Once(free_list[d])
        /\ \A a \in Addr : Among(free_list[d], a) <=> B[a] = Listed /\ P[pg_no(a)] = Of(d)
    BY <1>1, <1>4, ListsAre
  <2>2. ~Among(free_list[d], p) /\ free_list[d] \in Seq(Addr)
    BY <1>1, <1>5, <1>6, <2>1
  <2>3. /\ <<p>> \o free_list[d] \in Seq(Addr) /\ Once(<<p>> \o free_list[d])
        /\ \A a : Among(<<p>> \o free_list[d], a) <=> a = p \/ Among(free_list[d], a)
    BY <1>6, <2>1, <2>2, Pushed
  <2>4. free_list'[d] = <<p>> \o free_list[d] /\ free_list' \in [Desc -> Seq(Addr)]
    BY <1>1, <1>3, <2>1, <2>3
  <2>5. ASSUME NEW a \in Addr PROVE Among(free_list'[d], a) <=> B2[a] = Listed /\ P[pg_no(a)] = Of(d)
    BY <1>1, <1>5, <1>6, <1>10, <2>1, <2>3, <2>4
  <2> QED BY <1>1, <1>3, <1>4, <2>1, <2>3, <2>4, <2>5 DEF LocksOK
<1>13. mem' = [x \in Addr |-> mem'[x]] /\ mem'[page_ptr(n)] = Arena(d, c + 1) /\ \A x \in Addr : x # page_ptr(n) => mem'[x] = mem[x]
  BY <1>3, <1>4, <1>6 DEF MemOK
<1>14. Cardinality(ListedOn(B2, n, d)) = c + 1
  BY <1>1, <1>2, <1>5, <1>6, <1>10, ListedOther
<1>15. ASSUME full PROVE \A a \in Blocks(n, d) : B2[a] = Listed
  <2>1. blocks_per_arena(d) \in Nat
    BY <1>1, BlockSizes
  <2>2. Cardinality(ListedOn(B2, n, d)) = blocks_per_arena(d)
    BY <1>2, <1>14, <1>15, <2>1
  <2>3. ListedOn(B2, n, d) = Blocks(n, d)
    BY <1>1, <2>2, ListedCount
  <2> QED BY <2>3 DEF ListedOn
<1>16. ArenaOK(P, B2, mem', pc', frame', desc_lock', free_list', n, d)
  <2>1. mem'[page_ptr(n)].free_cnt = c + 1 /\ mem'[page_ptr(n)] = Arena(d, mem'[page_ptr(n)].free_cnt)
    BY <1>13 DEF Arena
  <2>2. n \in PoolPages("kernel") /\ \A x \in Addr : pg_no(x) = n /\ x # page_ptr(n) => mem'[x].kind # "arena"
    BY <1>4, <1>13 DEF ArenaOK
  <2>3. CASE full
    <3>1. desc_lock'[d] = t /\ pc'[t] = "unlist" /\ frame'[t].desc = d /\ frame'[t].gone = page_ptr(n)
      BY <1>1, <1>3, <1>4, <1>9, <2>3 DEF LocksOK, c2, r2
    <3> QED BY <2>1, <2>2, <3>1 DEF ArenaOK
  <2>4. CASE ~full
    <3>1. c + 1 < blocks_per_arena(d)
      <4>1. blocks_per_arena(d) \in Nat /\ c \in Nat
        BY <1>1, <1>2, BlockSizes
      <4> QED BY <2>4, <4>1
    <3> QED BY <1>14, <2>1, <2>2, <3>1 DEF ArenaOK, Counted
  <2> QED BY <2>3, <2>4
<1>17. FrameOK(t, c2, r2) /\ AskOK(c2, r2) /\ NewOK(t, c2, r2, P, B2, mem') /\ ContentOK(t, c2, r2, mem')
  <2>1. \A x \in Addr : Owns(P, B, New(t), x) => mem'[x] = mem[x]
    <3>1. ~Owns(P, B, New(t), page_ptr(n))
      BY <1>1, <1>5, HeaderNotOwned
    <3> QED BY <1>13, <3>1
  <2>2. Same(P, B, P, B2, New(t), New(t))
    BY <1>5, <1>11
  <2>3. pc[t] \in Frees /\ c2 \in Frees \cup {"return"}
    BY <1>1, <1>9 DEF Frees
  <2>4. Going(t, r, r2)
    BY <1>3
  <2>5. /\ FrameOK(t, pc[t], r) /\ NewOK(t, pc[t], r, P, B, mem) /\ ContentOK(t, pc[t], r, mem)
        /\ Headers(P, mem) /\ OneHeader(P, mem)
    BY <1>1, <1>4
  <2> HIDE DEF c2, r2, B2
  <2>6. /\ t \in Thread /\ pc[t] \in Frees /\ c2 \in Frees \cup {"return"} /\ Going(t, r, r2)
        /\ FrameOK(t, pc[t], r) /\ NewOK(t, pc[t], r, P, B, mem) /\ ContentOK(t, pc[t], r, mem)
        /\ Headers(P, mem) /\ OneHeader(P, mem) /\ Same(P, B, P, B2, New(t), New(t))
        /\ \A x \in Addr : Owns(P, B, New(t), x) => mem'[x] = mem[x]
    BY <2>1, <2>2, <2>3, <2>4, <2>5
  <2> QED BY ONLY <2>6, GoOn
<1>18. LockOK(t, c2, r2, used_map', pool_lock', desc_lock', free_list')
  <2>1. c2 = "unlist" => desc_lock'[d] = t
    BY <1>1, <1>3, <1>4, <1>9 DEF LocksOK
  <2>2. c2 \in {"unlist", "return"} /\ r2.desc = d
    BY <1>3, <1>9
  <2> QED BY <1>1, <2>1, <2>2 DEF LockOK, Arranges, Releases
<1>19. GoneOK(t, c2, r2, P, B2, mem')
  <2>1. \A a \in Addr : B2[a] # g
    BY <1>1, <1>5, <1>6, <1>10
  <2>2. CASE full
    <3>1. pg_no(r2.gone) = n /\ c2 = "unlist" /\ r2.gone = page_ptr(n) /\ r2.desc = d /\ r2.bit = 0 /\ r2.cnt = 1
      BY <1>3, <1>6, <1>9, <2>2
    <3>2. blocks_per_arena(d) > 0
      BY <1>1, BlockSizes
    <3>3. \A a \in Addr : B2[a] = g <=> \E i \in 0..(0 - 1) : a = BlockAt(n, d, i)
      BY <2>1
    <3>4. \A i \in 0..(blocks_per_arena(d) - 1) : B2[BlockAt(n, d, i)] = Listed
      BY <1>15, <2>2 DEF Blocks
    <3> QED BY <1>1, <3>1, <3>2, <3>3, <3>4 DEF GoneOK, Asks, g
  <2>3. CASE ~full
    <3>1. c2 = "return"
      BY <1>9, <2>3
    <3>2. Nothing(P, B2, g)
      BY <1>1, <2>1 DEF Nothing, NoBlock
    <3> QED BY <3>1, <3>2 DEF GoneOK, Asks, g
  <2> QED BY <2>2, <2>3
<1>20. HeldOK(t, c2, r2, held'[t], P, B2, mem')
  <2>1. ASSUME NEW e \in held[t]
        PROVE  /\ e \in held[t] /\ Same(P, B, P, B2, Has(t, e), Has(t, e))
               /\ \A x \in Addr : Owns(P, B, Has(t, e), x) => mem'[x] = mem[x]
    <3>1. Has(t, e) # g /\ Owner(Has(t, e))
      BY TagsDiffer, OwnersAre DEF g
    <3>2. ~Owns(P, B, Has(t, e), page_ptr(n))
      BY <1>1, <3>1, HeaderNotOwned
    <3> QED BY <1>11, <1>13, <3>1, <3>2
  <2>2. c2 \notin Asks
    BY <1>9 DEF Asks
  <2>3. HeldOK(t, c2, r2, held[t], P, B2, mem')
    <3>1. HeldOK(t, pc[t], r, held[t], P, B, mem) /\ Headers(P, mem) /\ OneHeader(P, mem)
      BY <1>1, <1>4
    <3> QED BY ONLY <2>1, <2>2, <3>1, HeldMoves
  <2> QED BY <1>1, <2>3
<1>21. ThreadNext(t, P, B2)
  BY <1>16, <1>17, <1>18, <1>19, <1>20 DEF ThreadNext, ThreadOK, r2, c2
<1>22. desc_lock[d] \in {t, Nobody}
  BY <1>1
<1> DEFINE k == Listed
<1>23. /\ Quiet(t) /\ Owned(P, B) /\ n \in Pages /\ d \in Desc /\ P[n] = Of(d) /\ p \in Blocks(n, d)
       /\ UNCHANGED <<used_map, pool_lock, held>> /\ Relabel(t, B, B2, p, k) /\ (k = Listed \/ Tag(held, k))
  BY <1>1, <1>7
<1>24. /\ mem' = [x \in Addr |-> mem'[x]] /\ \A x \in Addr : x # page_ptr(n) => mem'[x] = mem[x]
  BY <1>13
<1> HIDE DEF full, k
<1>25. /\ LocksOK(pool_lock', desc_lock') /\ desc_lock[d] \in {t, Nobody}
       /\ \A e \in Desc : e # d => desc_lock'[e] = desc_lock[e] /\ free_list'[e] = free_list[e]
       /\ free_list' \in [Desc -> Seq(Addr)] /\ Once(free_list'[d])
       /\ \A a \in Addr : Among(free_list'[d], a) <=> B2[a] = Listed /\ P[pg_no(a)] = Of(d)
  BY <1>12, <1>22
<1> QED BY <1>8, <1>16, <1>21, <1>23, <1>24, <1>25, BlockStep

-----------------------------------------------------------------------------
(* The blocks of an arena leave the list.                                  *)

LEMMA UnlistNext ==
    ASSUME NEW t \in Thread, NEW P, NEW B, Owned(P, B), FreeUnlist(t)
    PROVE  LET r == frame[t]
               r2 == frame'[t]
               d == r.desc
               i == r.bit
               n == pg_no(r.gone)
               b == BlockAt(n, d, i)
               last == i + 1 = blocks_per_arena(d)
           IN  /\ pc[t] = "unlist" /\ FrameOK(t, "unlist", r) /\ d \in Desc /\ d # 0 /\ desc_lock[d] = t
               /\ Quiet(t) /\ UNCHANGED <<used_map, pool_lock, desc_lock, mem, held>>
               /\ n \in Pages /\ P[n] = Of(d) /\ r.gone = page_ptr(n) /\ NoPage(P, Gone(t))
               /\ i \in Nat /\ i < blocks_per_arena(d) /\ b \in Blocks(n, d) /\ B[b] = Listed
               /\ \A a \in Addr : B[a] = Gone(t) <=> \E j \in 0..(i - 1) : a = BlockAt(n, d, j)
               /\ \A j \in i..(blocks_per_arena(d) - 1) : B[BlockAt(n, d, j)] = Listed
               /\ free_list' = [free_list EXCEPT ![d] = list_remove(@, b)]
               /\ pc'[t] = (IF last THEN "fill" ELSE "unlist")
               /\ Going(t, r, r2) /\ r2.gone = r.gone /\ r2.bit = (IF last THEN 0 ELSE i + 1) /\ r2.desc = d /\ r2.cnt = 1
<1> DEFINE r == frame[t]
           r2 == frame'[t]
           d == r.desc
           i == r.bit
           n == pg_no(r.gone)
           b == BlockAt(n, d, i)
           last == i + 1 = blocks_per_arena(d)
           j2 == IF last THEN 0 ELSE i + 1
<1>1. /\ pc[t] = "unlist"
      /\ free_list' = [free_list EXCEPT ![d] = list_remove(@, r.gone + ArenaSize + i * BlockSize(d))]
      /\ frame' = [frame EXCEPT ![t].bit = IF last THEN 0 ELSE @ + 1]
      /\ pc' = [pc EXCEPT ![t] = IF last THEN "fill" ELSE "unlist"]
      /\ UNCHANGED <<palloc, desc_lock, mem, held>>
  BY DEF FreeUnlist, At, Goto, f
<1>2. /\ FrameOK(t, "unlist", r) /\ GoneOK(t, "unlist", r, P, B, mem)
      /\ LockOK(t, "unlist", r, used_map, pool_lock, desc_lock, free_list)
  BY <1>1, ThreadIs
<1>3. /\ d \in Desc /\ n \in Pages /\ r.gone = page_ptr(n) /\ P[n] = Of(d) /\ NoPage(P, Gone(t))
      /\ i < blocks_per_arena(d)
      /\ \A a \in Addr : B[a] = Gone(t) <=> \E j \in 0..(i - 1) : a = BlockAt(n, d, j)
      /\ \A j \in i..(blocks_per_arena(d) - 1) : B[BlockAt(n, d, j)] = Listed
  BY <1>2 DEF GoneOK
<1>4. i \in Nat
  BY <1>2, AnyFrame
<1>5. d # 0 /\ blocks_per_arena(d) \in Nat
  BY <1>3, BlockSizes
<1>6. desc_lock[d] = t /\ r.cnt = 1
  BY <1>2, <1>5 DEF LockOK, Releases, GoneOK
<1>7. r.gone + ArenaSize + i * BlockSize(d) = b
  BY <1>3 DEF BlockAt
<1>8. b \in Blocks(n, d) /\ B[b] = Listed
  <2>1. i \in 0..(blocks_per_arena(d) - 1) /\ i \in i..(blocks_per_arena(d) - 1)
    BY <1>3, <1>4, <1>5
  <2> HIDE DEF d, i, n
  <2> QED BY <1>3, <2>1 DEF Blocks
<1>9. /\ pc'[t] = (IF last THEN "fill" ELSE "unlist") /\ r2 = [r EXCEPT !.bit = j2] /\ Quiet(t)
      /\ UNCHANGED <<used_map, pool_lock, desc_lock, mem, held>>
  BY <1>1, OwnedIs DEF Quiet, palloc
<1>10. j2 \in Nat
  BY <1>4
<1> HIDE DEF r2, j2
<1>11. Going(t, r, r2) /\ r2.gone = r.gone /\ r2.bit = j2 /\ r2.desc = r.desc /\ r2.cnt = r.cnt
  <2>1. r \in AskFrame(t) \cup FreeFrame
    BY <1>2 DEF FrameOK
  <2> HIDE DEF r
  <2>2. CASE r \in AskFrame(t)
    BY <1>9, <1>10, <2>1, <2>2 DEF AskFrame, Going
  <2>3. CASE r \in FreeFrame
    BY <1>9, <1>10, <2>1, <2>3 DEF FreeFrame, Going
  <2> QED BY <2>1, <2>2, <2>3
<1>12. free_list' = [free_list EXCEPT ![d] = list_remove(@, b)]
  BY <1>1, <1>7
<1> HIDE DEF b, n, r, d, i, last
<1> QED BY <1>1, <1>2, <1>3, <1>4, <1>5, <1>6, <1>8, <1>9, <1>11, <1>12 DEF r, r2, d, i, n, b, j2, last

\* The list without one of its blocks.
ListsBlock(P, B, fl, d, b) == ListsOK(P, B, fl) /\ B[b] = Listed /\ P[pg_no(b)] = Of(d)
Shortened(fl, fl2, d, b) == fl2 = [fl EXCEPT ![d] = list_remove(@, b)]

LEMMA Shorter ==
    ASSUME NEW P, NEW B, NEW fl, NEW fl2, NEW d \in Desc, NEW b \in Addr, ListsBlock(P, B, fl, d, b),
           Shortened(fl, fl2, d, b)
    PROVE  /\ fl2 \in [Desc -> Seq(Addr)] /\ Once(fl2[d])
           /\ \A a \in Addr : Among(fl2[d], a) <=> B[a] = Listed /\ P[pg_no(a)] = Of(d) /\ a # b
           /\ \A e \in Desc : e # d => fl2[e] = fl[e]
<1>1. /\ fl \in [Desc -> Seq(Addr)] /\ Once(fl[d])
      /\ \A a \in Addr : Among(fl[d], a) <=> B[a] = Listed /\ P[pg_no(a)] = Of(d)
  BY ListsAre DEF ListsBlock
<1> DEFINE s == list_remove(fl[d], b)
<1>2. fl[d] \in Seq(Addr) /\ Among(fl[d], b)
  BY <1>1 DEF ListsBlock
<1>3. s \in Seq(Addr) /\ Once(s) /\ \A a : Among(s, a) <=> Among(fl[d], a) /\ a # b
  BY <1>1, <1>2, Removed
<1> HIDE DEF s
<1>4. fl2 = [fl EXCEPT ![d] = s]
  BY DEF s, Shortened
<1>5. fl2[d] = s /\ fl2 \in [Desc -> Seq(Addr)] /\ \A e \in Desc : e # d => fl2[e] = fl[e]
  BY <1>1, <1>3, <1>4
<1> QED BY <1>1, <1>3, <1>5

LEMMA UnlistOne ==
    ASSUME NEW t \in Thread, NEW P, NEW B, Owned(P, B), FreeUnlist(t), frame[t].bit + 1 # blocks_per_arena(frame[t].desc)
    PROVE  MemoryInv'
<1> DEFINE r == frame[t]
           r2 == frame'[t]
           c2 == pc'[t]
           d == r.desc
           i == r.bit
           n == pg_no(r.gone)
           b == BlockAt(n, d, i)
           g == Gone(t)
           B2 == [B EXCEPT ![b] = g]
           last == i + 1 = blocks_per_arena(d)
<1>0. /\ pc[t] = "unlist" /\ FrameOK(t, "unlist", r) /\ d \in Desc /\ d # 0 /\ desc_lock[d] = t
      /\ Quiet(t) /\ UNCHANGED <<used_map, pool_lock, desc_lock, mem, held>>
      /\ n \in Pages /\ P[n] = Of(d) /\ r.gone = page_ptr(n) /\ NoPage(P, g)
      /\ i \in Nat /\ i < blocks_per_arena(d) /\ b \in Blocks(n, d) /\ B[b] = Listed
      /\ \A a \in Addr : B[a] = g <=> \E j \in 0..(i - 1) : a = BlockAt(n, d, j)
      /\ \A j \in i..(blocks_per_arena(d) - 1) : B[BlockAt(n, d, j)] = Listed
      /\ free_list' = [free_list EXCEPT ![d] = list_remove(@, b)]
      /\ c2 = (IF last THEN "fill" ELSE "unlist")
      /\ Going(t, r, r2) /\ r2.gone = r.gone /\ r2.bit = (IF last THEN 0 ELSE i + 1) /\ r2.desc = d /\ r2.cnt = 1
  BY UnlistNext
<1>1. ~last
  OBVIOUS
<1>2. /\ c2 = "unlist" /\ Going(t, r, r2) /\ r2.gone = r.gone /\ r2.bit = i + 1 /\ r2.desc = d /\ r2.cnt = 1
      /\ pc[t] = "unlist" /\ d \in Desc /\ d # 0 /\ desc_lock[d] = t
      /\ r.gone = page_ptr(n) /\ n \in Pages /\ P[n] = Of(d) /\ i \in Nat /\ i < blocks_per_arena(d)
      /\ b \in Blocks(n, d) /\ B[b] = Listed /\ NoPage(P, g)
  BY <1>0, <1>1
<1>3. /\ NewOK(t, pc[t], r, P, B, mem) /\ ContentOK(t, pc[t], r, mem)
      /\ HeldOK(t, pc[t], r, held[t], P, B, mem) /\ FrameOK(t, pc[t], r)
      /\ Headers(P, mem) /\ OneHeader(P, mem) /\ Mapped(P, B, used_map, held) /\ ListsOK(P, B, free_list)
      /\ LocksOK(pool_lock, desc_lock) /\ MemOK(P, mem)
      /\ ArenaOK(P, B, mem, pc, frame, desc_lock, free_list, n, d)
  BY <1>2, ThreadIs, OwnedIs
<1>4. /\ g # Listed /\ g # None /\ Theirs(t, g) /\ Owner(g) /\ Tag(held, g)
      /\ Owner(New(t)) /\ New(t) # g /\ New(t) # Listed
  BY TagsDiffer, OwnersAre DEF Tag
<1>5. b \in Addr /\ pg_no(b) = n /\ pg_no(page_ptr(n)) = n
  BY <1>2, BlockIn, PtrAddr
<1>6. Relabel(t, B, B2, b, g)
  BY <1>2, <1>4 DEF Relabel
<1>7. \A e \in Desc, j \in Pages : j # n => ~About(t, j, e)
  BY <1>2, PtrAddr DEF About
<1>8. frame'[t] = r2 /\ pc'[t] = c2 /\ frame[t] = r
  OBVIOUS
<1> HIDE DEF B2, g, b, n, d, i, r, r2, c2, last
<1>9. /\ Mapped(P, B2, used_map, held) /\ B2[b] = g /\ \A a \in Addr : a # b => B2[a] = B[a]
  <2>1. /\ n \in Pages /\ d \in Desc /\ P[n] = Of(d) /\ b \in Blocks(n, d) /\ (g = Listed \/ Tag(held, g))
        /\ Relabel(t, B, B2, b, g) /\ Mapped(P, B, used_map, held)
    BY <1>2, <1>3, <1>4, <1>6
  <2> QED BY ONLY <2>1, Relabels
<1>10. \A e : Owner(e) /\ e # g => Same(P, B, P, B2, e, e)
  <2> SUFFICES ASSUME NEW e, Owner(e), e # g PROVE Same(P, B, P, B2, e, e)
    OBVIOUS
  <2>1. e # Listed
    BY Owners
  <2> QED BY <1>2, <1>9, <2>1 DEF Same
<1>11. /\ free_list' \in [Desc -> Seq(Addr)] /\ Once(free_list'[d])
       /\ \A a \in Addr : Among(free_list'[d], a) <=> B2[a] = Listed /\ P[pg_no(a)] = Of(d)
       /\ \A e \in Desc : e # d => desc_lock'[e] = desc_lock[e] /\ free_list'[e] = free_list[e]
       /\ LocksOK(pool_lock', desc_lock') /\ desc_lock[d] \in {t, Nobody}
  <2>1. /\ free_list' \in [Desc -> Seq(Addr)] /\ Once(free_list'[d])
        /\ \A a \in Addr : Among(free_list'[d], a) <=> B[a] = Listed /\ P[pg_no(a)] = Of(d) /\ a # b
        /\ \A e \in Desc : e # d => free_list'[e] = free_list[e]
    <3>1. d \in Desc /\ b \in Addr /\ ListsBlock(P, B, free_list, d, b) /\ Shortened(free_list, free_list', d, b)
      BY <1>0, <1>2, <1>3, <1>5 DEF Shortened, ListsBlock
    <3> QED BY ONLY <3>1, Shorter
  <2>2. \A a \in Addr : B2[a] = Listed <=> B[a] = Listed /\ a # b
    BY <1>4, <1>9
  <2> QED BY <1>0, <1>3, <2>1, <2>2
<1>12. ArenaOK(P, B2, mem', pc', frame', desc_lock', free_list', n, d)
  <2>1. desc_lock'[d] = t /\ pc'[t] = "unlist" /\ frame'[t].desc = d /\ frame'[t].gone = page_ptr(n) /\ mem' = mem
    BY <1>0, <1>2, <1>8
  <2> QED BY <1>3, <2>1 DEF ArenaOK
<1>13. FrameOK(t, c2, r2) /\ AskOK(c2, r2) /\ NewOK(t, c2, r2, P, B2, mem) /\ ContentOK(t, c2, r2, mem)
  <2>1. \A x \in Addr : Owns(P, B, New(t), x) => mem[x] = mem[x]
    OBVIOUS
  <2>2. Same(P, B, P, B2, New(t), New(t))
    BY <1>4, <1>10
  <2>3. pc[t] \in Frees /\ c2 \in Frees \cup {"return"} /\ Going(t, r, r2)
    BY <1>2 DEF Frees
  <2>4. /\ FrameOK(t, pc[t], r) /\ NewOK(t, pc[t], r, P, B, mem) /\ ContentOK(t, pc[t], r, mem)
        /\ Headers(P, mem) /\ OneHeader(P, mem)
    BY <1>3
  <2> QED BY ONLY <2>1, <2>2, <2>3, <2>4, t \in Thread, GoOn
<1>14. LockOK(t, c2, r2, used_map', pool_lock', desc_lock', free_list')
  <2>1. desc_lock'[d] = t
    BY <1>0, <1>2
  <2> QED BY <1>2, <2>1 DEF LockOK, Arranges, Releases
<1>15. GoneOK(t, c2, r2, P, B2, mem)
  <2>1. blocks_per_arena(d) \in Nat
    BY <1>2, BlockSizes
  <2>2. \A a \in Addr : B2[a] = g <=> \E j \in 0..((i + 1) - 1) : a = BlockAt(n, d, j)
    <3>1. \A j : j \in 0..((i + 1) - 1) <=> j \in 0..(i - 1) \/ j = i
      BY <1>2
    <3>2. \A a \in Addr : B2[a] = g <=> B[a] = g \/ a = b
      BY <1>9
    <3>3. \A a \in Addr : B[a] = g <=> \E j \in 0..(i - 1) : a = BlockAt(n, d, j)
      BY <1>0
    <3>4. b = BlockAt(n, d, i)
      BY DEF b
    <3> QED BY <3>1, <3>2, <3>3, <3>4
  <2>3. ASSUME NEW j \in (i + 1)..(blocks_per_arena(d) - 1) PROVE B2[BlockAt(n, d, j)] = Listed
    <3>1. j \in 0..(blocks_per_arena(d) - 1) /\ i \in 0..(blocks_per_arena(d) - 1) /\ j # i /\ j \in i..(blocks_per_arena(d) - 1)
      BY <1>2, <2>1
    <3>2. BlockAt(n, d, j) # b
      BY <1>2, <3>1, BlockOnce DEF b
    <3>3. BlockAt(n, d, j) \in Addr
      <4>1. BlockAt(n, d, j) \in Blocks(n, d)
        BY <3>1 DEF Blocks
      <4> QED BY <1>2, <4>1, BlockIn
    <3>4. B[BlockAt(n, d, j)] = Listed
      BY <1>0, <3>1
    <3> QED BY <1>9, <3>2, <3>3, <3>4
  <2>4. i + 1 < blocks_per_arena(d)
    BY <1>1, <1>2, <2>1 DEF last
  <2>5. c2 = "unlist" /\ pg_no(r2.gone) = n /\ r2.gone = page_ptr(n) /\ r2.bit = i + 1 /\ r2.desc = d /\ r2.cnt = 1
    BY <1>2, <1>5
  <2> QED BY <1>2, <2>2, <2>3, <2>4, <2>5 DEF GoneOK, Asks, g
<1>16. HeldOK(t, c2, r2, held[t], P, B2, mem)
  <2>1. ASSUME NEW e \in held[t]
        PROVE  /\ e \in held[t] /\ Same(P, B, P, B2, Has(t, e), Has(t, e))
               /\ \A x \in Addr : Owns(P, B, Has(t, e), x) => mem[x] = mem[x]
    <3>1. Has(t, e) # g /\ Owner(Has(t, e))
      BY TagsDiffer, OwnersAre DEF g
    <3> QED BY <1>10, <3>1
  <2>2. c2 \notin Asks
    BY <1>2 DEF Asks
  <2>3. HeldOK(t, pc[t], r, held[t], P, B, mem) /\ Headers(P, mem) /\ OneHeader(P, mem)
    BY <1>3
  <2> QED BY ONLY <2>1, <2>2, <2>3, HeldMoves
<1>17. ThreadNext(t, P, B2)
  <2>1. mem' = mem /\ held'[t] = held[t]
    BY <1>0
  <2> QED BY <1>8, <1>13, <1>14, <1>15, <1>16, <2>1 DEF ThreadNext, ThreadOK
<1>18. /\ Quiet(t) /\ UNCHANGED <<used_map, pool_lock, held>> /\ (g = Listed \/ Tag(held, g))
       /\ n \in Pages /\ d \in Desc /\ P[n] = Of(d) /\ b \in Blocks(n, d)
  BY <1>0, <1>2, <1>4
<1>19. /\ mem' = [x \in Addr |-> mem'[x]] /\ \A x \in Addr : x # page_ptr(n) => mem'[x] = mem[x]
  BY <1>0, <1>3 DEF MemOK
<1> QED BY <1>6, <1>7, <1>11, <1>12, <1>17, <1>18, <1>19, BlockStep

\* A page of blocks all of whose blocks are g's, or free, becomes a page of g.
Emptied(P, B, P2, B2, n, d, g) ==
    /\ P2 = [P EXCEPT ![n] = g] /\ B2 = [a \in Addr |-> IF a \in Blocks(n, d) THEN None ELSE B[a]]
    /\ n \in Pages /\ d \in Desc /\ P[n] = Of(d) /\ NoPage(P, g)
    /\ \A a \in Blocks(n, d) : B[a] \in {g, Listed}
    /\ \A a \in Addr : B[a] = g => a \in Blocks(n, d)

LEMMA Empties ==
    ASSUME NEW P, NEW B, NEW P2, NEW B2, NEW used, NEW hs, Mapped(P, B, used, hs), NEW n, NEW d, NEW g,
           Owner(g), Tag(hs, g), Emptied(P, B, P2, B2, n, d, g)
    PROVE  /\ Mapped(P2, B2, used, hs) /\ P2[n] = g /\ \A i \in Pages : i # n => P2[i] = P[i]
           /\ \A a \in Addr : IF pg_no(a) = n THEN B2[a] = None ELSE B2[a] = B[a]
           /\ PagesAre(P2, B2, g, n, 1)
           /\ \A e : Owner(e) /\ e # g => Same(P, B, P2, B2, e, e)
<1>1. /\ P2 = [P EXCEPT ![n] = g] /\ B2 = [a \in Addr |-> IF a \in Blocks(n, d) THEN None ELSE B[a]]
      /\ n \in Pages /\ d \in Desc /\ P[n] = Of(d) /\ NoPage(P, g)
      /\ \A a \in Blocks(n, d) : B[a] \in {g, Listed}
      /\ \A a \in Addr : B[a] = g => a \in Blocks(n, d)
  BY DEF Emptied
<1>2. P = [i \in Pages |-> P[i]] /\ g # None /\ g # Listed /\ \A e : Of(e) # g
  BY Owners DEF Mapped
<1>3. P2 = [i \in Pages |-> P2[i]] /\ P2[n] = g /\ \A i \in Pages : i # n => P2[i] = P[i]
  BY <1>1, <1>2
<1>4. ASSUME NEW a \in Addr PROVE IF pg_no(a) = n THEN B2[a] = None ELSE B2[a] = B[a]
  <2>1. CASE a \in Blocks(n, d)
    <3>1. pg_no(a) = n
      BY <1>1, <2>1, BlockIn
    <3> QED BY <1>1, <2>1, <3>1
  <2>2. CASE a \notin Blocks(n, d) /\ pg_no(a) = n
    <3>1. B[a] = None
      <4> SUFFICES ASSUME B[a] # None PROVE FALSE
        OBVIOUS
      <4>1. PICK e \in Desc : P[pg_no(a)] = Of(e) /\ a \in Blocks(pg_no(a), e)
        BY BlockPage
      <4>2. e = d
        BY <1>1, <2>2, <4>1, TagsDiffer
      <4> QED BY <2>2, <4>1, <4>2
    <3> QED BY <1>1, <2>2, <3>1
  <2>3. CASE a \notin Blocks(n, d) /\ pg_no(a) # n
    BY <1>1, <2>3
  <2> QED BY <2>1, <2>2, <2>3
<1>5. B2 = [a \in Addr |-> B2[a]]
  BY <1>1
<1>6. \A a \in Addr : B[a] = g => pg_no(a) = n
  BY <1>1, BlockIn
<1>7. Mapped(P2, B2, used, hs)
  <2>1. used \subseteq Pages /\ \A i \in Pages : P2[i] = None <=> i \notin used
    <3>1. P[n] # None
      BY <1>1, TagsDiffer
    <3> QED BY <1>1, <1>2, <1>3, <3>1 DEF Mapped
  <2>2. \A i \in Pages : P2[i] = None \/ (\E e \in Desc : P2[i] = Of(e)) \/ Tag(hs, P2[i])
    BY <1>3 DEF Mapped
  <2>3. \A a \in Addr : B2[a] \in {None, Listed} \/ Tag(hs, B2[a])
    BY <1>4 DEF Mapped
  <2>4. ASSUME NEW a \in Addr PROVE B2[a] # None <=> \E e \in Desc : P2[pg_no(a)] = Of(e) /\ a \in Blocks(pg_no(a), e)
    <3>1. CASE pg_no(a) = n
      BY <1>2, <1>3, <1>4, <3>1
    <3>2. CASE pg_no(a) # n
      <4>1. P2[pg_no(a)] = P[pg_no(a)] /\ B2[a] = B[a]
        BY <1>3, <1>4, <3>2, AddrIs
      <4> QED BY <4>1 DEF Mapped
    <3> QED BY <3>1, <3>2
  <2> QED BY <1>3, <1>5, <2>1, <2>2, <2>3, <2>4 DEF Mapped
<1>8. PagesAre(P2, B2, g, n, 1)
  <2>1. n \in Nat /\ n <= KernelPages + UserPages /\ KernelPages + UserPages \in Nat
    BY <1>1, PagesNat
  <2>2. \A j \in Pages : P2[j] = g <=> j = n
    BY <1>1, <1>3 DEF NoPage
  <2>3. \A j \in Pages : n <= j /\ j < n + 1 <=> j = n
    BY <2>1, PagesNat
  <2>4. NoBlock(B2, g)
    BY <1>2, <1>4, <1>6 DEF NoBlock
  <2>5. n + 1 - 1 <= KernelPages + UserPages /\ 1 \in Nat
    BY <2>1
  <2> QED BY <1>1, <2>2, <2>3, <2>4, <2>5 DEF PagesAre
<1>9. ASSUME NEW e, Owner(e), e # g PROVE Same(P, B, P2, B2, e, e)
  <2>1. e # None /\ e # Listed /\ Of(d) # e
    BY <1>9, Owners
  <2>2. \A i \in Pages : P2[i] = e <=> P[i] = e
    BY <1>1, <1>3, <1>9, <2>1
  <2>3. ASSUME NEW a \in Addr, B[a] = e PROVE pg_no(a) # n
    <3> SUFFICES ASSUME pg_no(a) = n PROVE FALSE
      OBVIOUS
    <3>1. PICK c \in Desc : P[pg_no(a)] = Of(c) /\ a \in Blocks(pg_no(a), c)
      BY <2>1, <2>3, BlockPage
    <3>2. a \in Blocks(n, d)
      BY <1>1, <3>1, TagsDiffer
    <3> QED BY <1>1, <1>9, <2>1, <2>3, <3>2
  <2>4. \A a \in Addr : B2[a] = e <=> B[a] = e
    BY <1>4, <2>1, <2>3
  <2>5. \A a \in Addr : B[a] = e => P2[pg_no(a)] = P[pg_no(a)]
    BY <1>3, <2>3, AddrIs
  <2> QED BY <2>2, <2>4, <2>5 DEF Same
<1> QED BY <1>3, <1>4, <1>7, <1>8, <1>9

LEMMA UnlistLast ==
    ASSUME NEW t \in Thread, NEW P, NEW B, Owned(P, B), FreeUnlist(t), frame[t].bit + 1 = blocks_per_arena(frame[t].desc)
    PROVE  MemoryInv'
<1> DEFINE r == frame[t]
           r2 == frame'[t]
           c2 == pc'[t]
           d == r.desc
           i == r.bit
           n == pg_no(r.gone)
           b == BlockAt(n, d, i)
           g == Gone(t)
           P2 == [P EXCEPT ![n] = g]
           B2 == [a \in Addr |-> IF a \in Blocks(n, d) THEN None ELSE B[a]]
           last == i + 1 = blocks_per_arena(d)
<1>0. /\ pc[t] = "unlist" /\ FrameOK(t, "unlist", r) /\ d \in Desc /\ d # 0 /\ desc_lock[d] = t
      /\ Quiet(t) /\ UNCHANGED <<used_map, pool_lock, desc_lock, mem, held>>
      /\ n \in Pages /\ P[n] = Of(d) /\ r.gone = page_ptr(n) /\ NoPage(P, g)
      /\ i \in Nat /\ i < blocks_per_arena(d) /\ b \in Blocks(n, d) /\ B[b] = Listed
      /\ \A a \in Addr : B[a] = g <=> \E j \in 0..(i - 1) : a = BlockAt(n, d, j)
      /\ \A j \in i..(blocks_per_arena(d) - 1) : B[BlockAt(n, d, j)] = Listed
      /\ free_list' = [free_list EXCEPT ![d] = list_remove(@, b)]
      /\ c2 = (IF last THEN "fill" ELSE "unlist")
      /\ Going(t, r, r2) /\ r2.gone = r.gone /\ r2.bit = (IF last THEN 0 ELSE i + 1) /\ r2.desc = d /\ r2.cnt = 1
  BY UnlistNext
<1>1. last
  OBVIOUS
<1>2. /\ c2 = "fill" /\ Going(t, r, r2) /\ r2.gone = r.gone /\ r2.bit = 0 /\ r2.desc = d /\ r2.cnt = 1
      /\ pc[t] = "unlist" /\ d \in Desc /\ d # 0 /\ desc_lock[d] = t
      /\ r.gone = page_ptr(n) /\ n \in Pages /\ P[n] = Of(d) /\ i \in Nat /\ i + 1 = blocks_per_arena(d)
      /\ b \in Blocks(n, d) /\ B[b] = Listed /\ NoPage(P, g)
  BY <1>0, <1>1
<1>3. /\ NewOK(t, pc[t], r, P, B, mem) /\ ContentOK(t, pc[t], r, mem)
      /\ HeldOK(t, pc[t], r, held[t], P, B, mem) /\ FrameOK(t, pc[t], r)
      /\ Headers(P, mem) /\ OneHeader(P, mem) /\ Mapped(P, B, used_map, held) /\ ListsOK(P, B, free_list)
      /\ LocksOK(pool_lock, desc_lock) /\ MemOK(P, mem)
      /\ ArenaOK(P, B, mem, pc, frame, desc_lock, free_list, n, d)
  BY <1>2, ThreadIs, OwnedIs
<1>4. /\ g # Listed /\ g # None /\ Theirs(t, g) /\ Owner(g) /\ Tag(held, g)
      /\ Owner(New(t)) /\ New(t) # g /\ New(t) # Listed
  BY TagsDiffer, OwnersAre DEF Tag
<1>5. b \in Addr /\ pg_no(b) = n /\ pg_no(page_ptr(n)) = n /\ \A a \in Blocks(n, d) : a \in Addr
  BY <1>2, BlockIn, PtrAddr
<1>6. frame'[t] = r2 /\ pc'[t] = c2 /\ frame[t] = r
  OBVIOUS
<1>7. P2 = [P EXCEPT ![n] = g] /\ B2 = [a \in Addr |-> IF a \in Blocks(n, d) THEN None ELSE B[a]]
  OBVIOUS
<1>8. \A a \in Blocks(n, d) : a # b => B[a] = g
  <2> SUFFICES ASSUME NEW a \in Blocks(n, d), a # b PROVE B[a] = g
    OBVIOUS
  <2> HIDE DEF d, i, n, P2, B2, r, r2
  <2>1. PICK j \in 0..(blocks_per_arena(d) - 1) : a = BlockAt(n, d, j)
    BY DEF Blocks
  <2>2. j # i
    BY <2>1
  <2>3. j \in 0..(i - 1)
    BY <1>2, <2>2
  <2> QED BY <1>0, <1>5, <2>1, <2>3
<1>9. \A a \in Addr : B[a] = g => a \in Blocks(n, d)
  <2> SUFFICES ASSUME NEW a \in Addr, B[a] = g PROVE a \in Blocks(n, d)
    OBVIOUS
  <2> HIDE DEF d, i, n, P2, B2, r, r2
  <2>1. PICK j \in 0..(i - 1) : a = BlockAt(n, d, j)
    BY <1>0
  <2>2. j \in 0..(blocks_per_arena(d) - 1)
    BY <1>2
  <2> QED BY <2>1, <2>2 DEF Blocks
<1> HIDE DEF P2, B2, g, b, n, d, i, r, r2, c2, last
<1>10. Emptied(P, B, P2, B2, n, d, g)
  BY <1>2, <1>7, <1>8, <1>9 DEF Emptied
<1>11. /\ Mapped(P2, B2, used_map, held) /\ P2[n] = g /\ \A j \in Pages : j # n => P2[j] = P[j]
       /\ \A a \in Addr : IF pg_no(a) = n THEN B2[a] = None ELSE B2[a] = B[a]
       /\ PagesAre(P2, B2, g, n, 1)
       /\ \A e : Owner(e) /\ e # g => Same(P, B, P2, B2, e, e)
  BY <1>3, <1>4, <1>10, Empties
<1>12. ListsOK(P2, B2, free_list') /\ \A e \in Desc : e # d => free_list'[e] = free_list[e]
  <2>1. /\ free_list' \in [Desc -> Seq(Addr)] /\ Once(free_list'[d])
        /\ \A a \in Addr : Among(free_list'[d], a) <=> B[a] = Listed /\ P[pg_no(a)] = Of(d) /\ a # b
        /\ \A e \in Desc : e # d => free_list'[e] = free_list[e]
    <3>1. d \in Desc /\ b \in Addr /\ ListsBlock(P, B, free_list, d, b) /\ Shortened(free_list, free_list', d, b)
      BY <1>0, <1>2, <1>3, <1>5 DEF Shortened, ListsBlock
    <3> QED BY ONLY <3>1, Shorter
  <2>2. ASSUME NEW e \in Desc
        PROVE  Once(free_list'[e]) /\ \A a \in Addr : Among(free_list'[e], a) <=> B2[a] = Listed /\ P2[pg_no(a)] = Of(e)
    <3>1. \A a \in Addr : Among(free_list'[e], a) <=> B[a] = Listed /\ P[pg_no(a)] = Of(e) /\ a # b
      <4>1. CASE e = d
        BY <2>1, <4>1
      <4>2. CASE e # d
        <5>1. P[pg_no(b)] # Of(e)
          BY <1>2, <1>5, <4>2, TagsDiffer
        <5> QED BY <1>3, <2>1, <4>2, <5>1, ListsAre
      <4> QED BY <4>1, <4>2
    <3>2. Once(free_list'[e])
      BY <1>3, <2>1, ListsAre
    <3>3. ASSUME NEW a \in Addr
          PROVE  B[a] = Listed /\ P[pg_no(a)] = Of(e) /\ a # b <=> B2[a] = Listed /\ P2[pg_no(a)] = Of(e)
      <4>1. CASE pg_no(a) = n
        <5>1. ASSUME B[a] = Listed, a # b PROVE FALSE
          <6>1. PICK c \in Desc : P[pg_no(a)] = Of(c) /\ a \in Blocks(pg_no(a), c)
            BY <1>3, <5>1, BlockPage, TagsDiffer
          <6>2. a \in Blocks(n, d)
            BY <1>2, <4>1, <6>1, TagsDiffer
          <6> QED BY <1>4, <1>8, <5>1, <6>2
        <5> QED BY <1>11, <4>1, <5>1, TagsDiffer
      <4>2. CASE pg_no(a) # n
        BY <1>5, <1>11, <4>2, AddrIs
      <4> QED BY <4>1, <4>2
    <3> QED BY <3>1, <3>2, <3>3
  <2> QED BY <2>1, <2>2, ListsAre
<1>13. FrameOK(t, c2, r2) /\ AskOK(c2, r2) /\ NewOK(t, c2, r2, P2, B2, mem) /\ ContentOK(t, c2, r2, mem)
  <2>1. \A x \in Addr : Owns(P, B, New(t), x) => mem[x] = mem[x]
    OBVIOUS
  <2>2. Same(P, B, P2, B2, New(t), New(t))
    BY <1>4, <1>11
  <2>3. pc[t] \in Frees /\ c2 \in Frees \cup {"return"} /\ Going(t, r, r2)
    BY <1>2 DEF Frees
  <2>4. /\ FrameOK(t, pc[t], r) /\ NewOK(t, pc[t], r, P, B, mem) /\ ContentOK(t, pc[t], r, mem)
        /\ Headers(P, mem) /\ OneHeader(P, mem)
    BY <1>3
  <2> QED BY ONLY <2>1, <2>2, <2>3, <2>4, t \in Thread, GoOn
<1>14. LockOK(t, c2, r2, used_map', pool_lock', desc_lock', free_list')
  <2>1. desc_lock'[d] = t
    BY <1>0, <1>2
  <2> QED BY <1>2, <2>1 DEF LockOK, Arranges, Releases
<1>15. GoneOK(t, c2, r2, P2, B2, mem)
  <2>1. ASSUME NEW x \in Addr, P2[pg_no(x)] = g, mem[x].kind = "arena" PROVE mem[x].desc = d
    <3>1. pg_no(x) = n
      BY <1>2, <1>11, <2>1, AddrIs DEF NoPage
    <3>2. x = page_ptr(n)
      BY <1>3, <2>1, <3>1 DEF ArenaOK
    <3>3. mem[page_ptr(n)] = Arena(d, mem[page_ptr(n)].free_cnt)
      BY <1>3 DEF ArenaOK
    <3> QED BY <3>2, <3>3 DEF Arena
  <2>2. c2 = "fill" /\ pg_no(r2.gone) = n /\ r2.gone = page_ptr(n) /\ r2.bit = 0 /\ r2.desc = d /\ r2.cnt = 1 /\ 1 > 0
    BY <1>2, <1>5
  <2> QED BY <1>11, <2>1, <2>2 DEF GoneOK, Asks, g
<1>16. HeldOK(t, c2, r2, held[t], P2, B2, mem)
  <2>1. ASSUME NEW e \in held[t]
        PROVE  /\ e \in held[t] /\ Same(P, B, P2, B2, Has(t, e), Has(t, e))
               /\ \A x \in Addr : Owns(P, B, Has(t, e), x) => mem[x] = mem[x]
    <3>1. Has(t, e) # g /\ Owner(Has(t, e))
      BY TagsDiffer, OwnersAre DEF g
    <3> QED BY <1>11, <3>1
  <2>2. c2 \notin Asks
    BY <1>2 DEF Asks
  <2>3. HeldOK(t, pc[t], r, held[t], P, B, mem) /\ Headers(P, mem) /\ OneHeader(P, mem)
    BY <1>3
  <2> QED BY ONLY <2>1, <2>2, <2>3, HeldMoves
<1>17. ThreadNext(t, P2, B2)
  <2>1. mem' = mem /\ held'[t] = held[t]
    BY <1>0
  <2> QED BY <1>6, <1>13, <1>14, <1>15, <1>16, <2>1 DEF ThreadNext, ThreadOK
<1>18. ASSUME NEW u \in Thread, u # t
       PROVE  /\ KeepsTags(u, P, B, P2, B2) /\ KeepsMem(u, P, B, mem, mem')
              /\ KeepsList(u, P, B, desc_lock, free_list, P2, B2, desc_lock', free_list')
              /\ KeepsPool(u, used_map, pool_lock, used_map', pool_lock')
  <2>1. KeepsTags(u, P, B, P2, B2)
    <3> SUFFICES ASSUME NEW e, Theirs(u, e) PROVE Same(P, B, P2, B2, e, e)
      BY DEF KeepsTags
    <3>1. e # g /\ Owner(e)
      BY <1>4, <1>18, TheirsOnce DEF Owner
    <3> QED BY <1>11, <3>1
  <2>2. KeepsMem(u, P, B, mem, mem') /\ KeepsPool(u, used_map, pool_lock, used_map', pool_lock')
    BY <1>0 DEF KeepsMem, KeepsPool
  <2>3. KeepsList(u, P, B, desc_lock, free_list, P2, B2, desc_lock', free_list')
    <3> SUFFICES ASSUME NEW e \in Desc, desc_lock[e] = u
                 PROVE  /\ desc_lock'[e] = u /\ free_list'[e] = free_list[e]
                        /\ \A j \in Pages : P[j] = Of(e) =>
                              P2[j] = Of(e) /\ \A a \in Addr : pg_no(a) = j /\ B[a] = Listed => B2[a] = Listed
      BY DEF KeepsList
    <3>1. e # d
      BY <1>2, <1>18
    <3>2. \A j \in Pages : P[j] = Of(e) => j # n
      BY <1>2, <3>1, TagsDiffer
    <3> QED BY <1>0, <1>11, <1>12, <3>1, <3>2
  <2> QED BY <2>1, <2>2, <2>3
<1>19. ASSUME NEW j \in Pages, NEW e \in Desc, P2[j] = Of(e)
       PROVE  ArenaOK(P2, B2, mem', pc', frame', desc_lock', free_list', j, e)
  <2>1. j # n
    BY <1>4, <1>11, <1>19, Owners
  <2>2. P[j] = Of(e) /\ mem' = mem
    BY <1>0, <1>11, <1>19, <2>1
  <2>3. ~About(t, j, e)
    <3>1. page_ptr(j) # page_ptr(n)
      BY <1>5, <2>1, PtrAddr
    <3> QED BY <1>2, <1>6, <3>1 DEF About
  <2>4. \A a \in Blocks(j, e) : B2[a] = Listed <=> B[a] = Listed
    BY <1>11, <2>1, BlockIn
  <2>5. \A u \in Thread : u # t => KeepsList(u, P, B, desc_lock, free_list, P2, B2, desc_lock', free_list')
    BY <1>18
  <2>6. mem'[page_ptr(j)] = mem[page_ptr(j)] /\ \A x \in Addr : pg_no(x) = j /\ x # page_ptr(j) => mem'[x] = mem[x] \/ mem'[x].kind # "arena"
    BY <2>2
  <2>7. Quiet(t)
    BY <1>0
  <2> QED BY <2>2, <2>3, <2>4, <2>5, <2>6, <2>7, ArenaBeside
<1>20. MemOK(P2, mem')
  <2>1. \A x \in Addr : P2[pg_no(x)] = None => P[pg_no(x)] = None
    BY <1>4, <1>11, AddrIs
  <2>2. mem' = mem
    BY <1>0
  <2> QED BY <1>3, <2>1, <2>2 DEF MemOK, Clean
<1>21. Quiet(t) /\ Mapped(P2, B2, used_map', held') /\ LocksOK(pool_lock', desc_lock') /\ ListsOK(P2, B2, free_list')
  BY <1>0, <1>3, <1>11, <1>12
<1> QED BY <1>17, <1>18, <1>19, <1>20, <1>21, Step

LEMMA FreeUnlistKeeps ==
    ASSUME NEW t \in Thread, NEW P, NEW B, Owned(P, B), FreeUnlist(t)
    PROVE  MemoryInv'
BY UnlistOne, UnlistLast

-----------------------------------------------------------------------------
(* A call has got its pages.                                               *)

LEMMA GotWas ==
    ASSUME NEW t \in Thread, NEW P, NEW B, Owned(P, B), Got(t)
    PROVE  LET r == frame[t]
           IN  /\ pc[t] = "got" /\ FrameOK(t, "got", r) /\ r \in AskFrame(t) /\ AskOK("got", r) /\ r.req.op # "free"
               /\ Paged(P, B, mem, New(t), r.ptr, r.cnt) /\ r.ptr \in Nat /\ r.ptr # NULL /\ r.cnt \in Nat /\ r.cnt > 0
               /\ \A n \in Pages : P[n] = New(t) => n \in PoolPages(From(r))
               /\ Promise(r) \in Nat /\ Promise(r) > 0
               /\ LockOK(t, "got", r, used_map, pool_lock, desc_lock, free_list) /\ NewOK(t, "got", r, P, B, mem)
               /\ GoneOK(t, "got", r, P, B, mem) /\ HeldOK(t, "got", r, held[t], P, B, mem)
<1> DEFINE r == frame[t]
<1>1. pc[t] = "got"
  BY DEF Got, At
<1>2. /\ FrameOK(t, "got", r) /\ AskOK("got", r) /\ NewOK(t, "got", r, P, B, mem) /\ GoneOK(t, "got", r, P, B, mem)
      /\ HeldOK(t, "got", r, held[t], P, B, mem) /\ LockOK(t, "got", r, used_map, pool_lock, desc_lock, free_list)
  BY <1>1, ThreadIs
<1>3. r.req.op # "free"
  BY <1>2, AnyFrame DEF Asks
<1>4. r \in AskFrame(t) /\ r.ptr \in Nat /\ r.cnt \in Nat
  BY <1>2, <1>3, AnyFrame
<1>5. Paged(P, B, mem, New(t), r.ptr, r.cnt) /\ \A n \in Pages : P[n] = New(t) => n \in PoolPages(From(r))
  BY <1>2, <1>3 DEF NewOK
<1>6. Promise(r) \in Nat /\ Promise(r) > 0
  BY <1>2, <1>3, AskedFrame
<1>7. r.cnt > 0 /\ r.ptr = page_ptr(pg_no(r.ptr)) /\ pg_no(r.ptr) \in Pages
  BY <1>5 DEF Paged, PagesAre
<1>8. r.ptr # NULL
  BY <1>7, PtrAddr, AddrIs DEF NULL
<1> QED BY <1>1, <1>2, <1>3, <1>4, <1>5, <1>6, <1>7, <1>8

LEMMA GotPage ==
    ASSUME NEW t \in Thread, NEW P, NEW B, Owned(P, B), Got(t), f(t).req.op = "page"
    PROVE  MemoryInv'
<1> DEFINE r == frame[t]
           g == New(t)
           mine == Extent(r.ptr, Promise(r))
<1>1. /\ pc[t] = "got" /\ FrameOK(t, "got", r) /\ r \in AskFrame(t) /\ AskOK("got", r) /\ r.req.op # "free"
      /\ Paged(P, B, mem, g, r.ptr, r.cnt) /\ r.ptr \in Nat /\ r.ptr # NULL /\ r.cnt \in Nat /\ r.cnt > 0
      /\ \A n \in Pages : P[n] = g => n \in PoolPages(From(r))
      /\ Promise(r) \in Nat /\ Promise(r) > 0
      /\ GoneOK(t, "got", r, P, B, mem) /\ HeldOK(t, "got", r, held[t], P, B, mem)
  BY GotWas
<1>2. r.req.op = "page"
  BY DEF f
<1>3. /\ pc' = [pc EXCEPT ![t] = "return"] /\ UNCHANGED <<palloc, desc_lock, free_list, held, frame>>
      /\ mem' = IF r.req.zero THEN Filled(r.ptr, PGSIZE * r.cnt, Zero) ELSE mem
  BY <1>2 DEF Got, Goto, f
<1>4. r.cnt = r.req.a /\ Promise(r) = r.cnt * PGSIZE /\ PGSIZE * r.cnt = r.cnt * PGSIZE
  <2>1. r.cnt = r.req.a
    BY <1>1, <1>2 DEF AskOK, Asks
  <2>2. Promise(r) = r.req.a * PGSIZE
    BY <1>2 DEF Promise
  <2> QED BY <1>1, <2>1, <2>2, Sizes
<1>5. pc'[t] = "return" /\ frame'[t] = r /\ held'[t] = held[t] /\ Quiet(t)
  BY <1>3, OwnedIs DEF Quiet
<1>6. mem = [x \in Addr |-> mem[x]] /\ Mapped(P, B, used_map, held) /\ Headers(P, mem) /\ OneHeader(P, mem)
  BY OwnedIs DEF MemOK
<1>7. /\ mem' = [x \in Addr |-> mem'[x]]
      /\ \A x \in Addr : x \notin mine => mem'[x] = mem[x]
      /\ \A x \in Addr : x \in mine => mem'[x] = mem[x] \/ mem'[x] = Zero
      /\ r.req.zero => \A x \in Addr : x \in mine => mem'[x] = Zero
  <2>1. CASE r.req.zero
    <3>1. mem' = Filled(r.ptr, Promise(r), Zero)
      BY <1>3, <1>4, <2>1
    <3> QED BY <3>1, FilledIs
  <2>2. CASE ~r.req.zero
    BY <1>3, <1>6, <2>2
  <2> QED BY <2>1, <2>2
<1>8. Zero.kind # "arena"
  BY DEF Zero
<1>9. \A x \in mine : x \in Addr /\ P[pg_no(x)] = g /\ Owns(P, B, g, x)
  <2>1. PagesAre(P, B, g, pg_no(r.ptr), r.cnt) /\ r.ptr = page_ptr(pg_no(r.ptr))
    BY <1>1 DEF Paged
  <2> QED BY <1>4, <2>1, PagesOwned
<1> HIDE DEF r, mine, g
<1>10. Owner(g)
  BY OwnersAre DEF g
<1>11. \A k : Same(P, B, P, B, k, k)
  BY DEF Same
<1>12. FrameOK(t, "return", r)
  BY <1>1, StillAsks DEF Asks, Like
<1>13. AskOK("return", r)
  BY DEF AskOK, Asks
<1>14. LockOK(t, "return", r, used_map', pool_lock', desc_lock', free_list')
  BY DEF LockOK, Arranges, Releases
<1>15. NewOK(t, "return", r, P, B, mem')
  <2>1. Clean(P, mem, g, NULL)
    BY <1>1 DEF Paged
  <2>2. Clean(P, mem', g, NULL)
    BY <1>7, <1>8, <2>1 DEF Clean
  <2>3. Paged(P, B, mem', g, r.ptr, r.cnt)
    BY <1>1, <2>2 DEF Paged
  <2>4. Given(P, B, mem', g, r.ptr, Promise(r), TRUE)
    BY <1>1, <1>4, <2>3 DEF Given
  <2>5. (r.req.op = "page") = TRUE
    BY <1>2
  <2> QED BY <1>1, <2>4, <2>5 DEF NewOK, Frees, g
<1>16. GoneOK(t, "return", r, P, B, mem')
  BY <1>1 DEF GoneOK, Asks
<1>17. ContentOK(t, "return", r, mem')
  BY <1>2, <1>7, <1>9 DEF ContentOK, Frees, mine
<1>18. HeldOK(t, "return", r, held[t], P, B, mem')
  <2>1. ASSUME NEW e \in held[t]
        PROVE  /\ e \in held[t] /\ Same(P, B, P, B, Has(t, e), Has(t, e))
               /\ \A x \in Addr : Owns(P, B, Has(t, e), x) => mem'[x] = mem[x]
    <3>1. Has(t, e) # g /\ Owner(Has(t, e))
      BY TagsDiffer, OwnersAre DEF g
    <3> QED BY <1>7, <1>9, <1>10, <1>11, <3>1, HeldApart
  <2>2. "return" \notin Asks
    BY DEF Asks
  <2> QED BY <1>1, <1>6, <2>1, <2>2, HeldMoves
<1>19. ThreadNext(t, P, B)
  BY <1>5, <1>12, <1>13, <1>14, <1>15, <1>16, <1>17, <1>18 DEF ThreadNext, ThreadOK, r
<1>20. UNCHANGED <<used_map, pool_lock, desc_lock, free_list, held>>
  BY <1>3 DEF palloc
<1>21. \A x \in Addr : mem'[x] = mem[x] \/ (Owns(P, B, g, x) /\ (mem'[x].kind # "arena" \/ P[pg_no(x)] = g))
  BY <1>7, <1>9
<1> QED BY <1>1, <1>5, <1>7, <1>19, <1>20, <1>21, MemStep DEF g

\* A big block: its header goes to the front of its pages.
LEMMA GotBig ==
    ASSUME NEW t \in Thread, NEW P, NEW B, Owned(P, B), Got(t), f(t).req.op # "page", f(t).desc = 0
    PROVE  MemoryInv'
<1> DEFINE r == frame[t]
           r2 == frame'[t]
           g == New(t)
           n == pg_no(r.ptr)
           p2 == r.ptr + ArenaSize
<1>1. /\ pc[t] = "got" /\ FrameOK(t, "got", r) /\ r \in AskFrame(t) /\ AskOK("got", r) /\ r.req.op # "free"
      /\ Paged(P, B, mem, g, r.ptr, r.cnt) /\ r.ptr \in Nat /\ r.ptr # NULL /\ r.cnt \in Nat /\ r.cnt > 0
      /\ \A i \in Pages : P[i] = g => i \in PoolPages(From(r))
      /\ Promise(r) \in Nat /\ Promise(r) > 0
      /\ GoneOK(t, "got", r, P, B, mem) /\ HeldOK(t, "got", r, held[t], P, B, mem)
  BY GotWas
<1>2. r.req.op # "page" /\ r.desc = 0
  BY DEF f
<1>3. /\ pc' = [pc EXCEPT ![t] = "malloced"] /\ UNCHANGED <<palloc, desc_lock, free_list, held>>
      /\ frame' = [frame EXCEPT ![t].ptr = p2]
      /\ mem' = Filled(r.ptr, 1, Arena(0, r.cnt))
  BY <1>2 DEF Got, Goto, f
<1>4. /\ ArenaSize + Promise(r) <= r.cnt * PGSIZE /\ r.cnt * PGSIZE < ArenaSize + Promise(r) + PGSIZE
  BY <1>1, <1>2 DEF AskOK, Asks
<1>5. pc'[t] = "malloced" /\ r2 = [r EXCEPT !.ptr = p2] /\ held'[t] = held[t] /\ Quiet(t)
  BY <1>3, OwnedIs DEF Quiet
<1>6. Mapped(P, B, used_map, held) /\ Headers(P, mem) /\ OneHeader(P, mem)
  BY OwnedIs
<1>7. n \in Pages /\ r.ptr = page_ptr(n) /\ PagesAre(P, B, g, n, r.cnt) /\ Clean(P, mem, g, NULL)
  BY <1>1 DEF Paged, PagesAre
<1>8. r.ptr \in Addr /\ p2 \in Addr /\ pg_no(p2) = n /\ p2 \in Nat /\ p2 # NULL /\ pg_no(r.ptr) = n
  <2>1. r.ptr \in Addr /\ p2 \in Addr /\ pg_no(p2) = n
    BY <1>7, PtrAddr
  <2>2. pg_no(r.ptr) = n
    OBVIOUS
  <2> HIDE DEF p2, n, r
  <2> QED BY <2>1, <2>2, AddrIs DEF NULL
<1>9. P[n] = g
  <2>1. n \in Nat
    BY <1>7, PagesNat
  <2>2. n <= n /\ n < n + r.cnt
    BY <1>1, <2>1
  <2> HIDE DEF n, g, r
  <2> QED BY <1>7, <2>2 DEF PagesAre
<1> HIDE DEF p2
<1>10. r2 \in AskFrame(t) /\ Like(r, r2) /\ r2.ptr = p2 /\ r2.desc = r.desc /\ r2.cnt = r.cnt
  <2> HIDE DEF r, r2
  <2> QED BY <1>1, <1>5, <1>8 DEF AskFrame, Like
<1>11. \A x : x \in Extent(r.ptr, 1) <=> x = r.ptr
  BY <1>1 DEF Extent
<1>12. mem' = [x \in Addr |-> mem'[x]] /\ mem'[r.ptr] = Arena(0, r.cnt) /\ \A x \in Addr : x # r.ptr => mem'[x] = mem[x]
  BY <1>3, <1>8, <1>11, FilledIs
<1> HIDE DEF r, r2, g, n
<1>13. Owner(g)
  BY OwnersAre DEF g
<1>14. \A k : Same(P, B, P, B, k, k)
  BY DEF Same
<1>15. Promise(r2) = Promise(r) /\ From(r2) = From(r) /\ r2.req = r.req /\ r2.old = r.old
  BY <1>10, LikeSame DEF Like
<1>16. FrameOK(t, "malloced", r2)
  BY <1>1, <1>10, StillAsks DEF Asks
<1>17. AskOK("malloced", r2)
  BY <1>1, <1>2, <1>8, <1>10, <1>15 DEF AskOK, Asks
<1>18. LockOK(t, "malloced", r2, used_map', pool_lock', desc_lock', free_list')
  BY DEF LockOK, Arranges, Releases
<1>19. NewOK(t, "malloced", r2, P, B, mem')
  <2>1. mem'[page_ptr(n)] = Arena(0, r.cnt) /\ mem'[page_ptr(n)].free_cnt = r.cnt
    BY <1>7, <1>12 DEF Arena
  <2>2. Clean(P, mem', g, page_ptr(n))
    <3> SUFFICES ASSUME NEW x \in Addr, P[pg_no(x)] = g, x # page_ptr(n) PROVE mem'[x].kind # "arena"
      BY DEF Clean
    <3>1. x # NULL
      BY AddrIs DEF NULL
    <3> QED BY <1>7, <1>12, <3>1 DEF Clean
  <2>3. p2 = page_ptr(n) + ArenaSize
    BY <1>7 DEF p2
  <2>4. Big(P, B, mem', g, p2, Promise(r))
    BY <1>4, <1>7, <1>8, <2>1, <2>2, <2>3 DEF Big
  <2>5. Given(P, B, mem', g, p2, Promise(r), FALSE)
    BY <1>1, <1>8, <2>4 DEF Given, Block
  <2>6. (r.req.op = "page") = FALSE
    BY <1>2
  <2> QED BY <1>1, <1>8, <1>10, <1>15, <2>5, <2>6 DEF NewOK, Frees, g
<1>20. GoneOK(t, "malloced", r2, P, B, mem')
  <2>1. Nothing(P, B, Gone(t))
    BY <1>1 DEF GoneOK, Asks
  <2> QED BY <2>1 DEF GoneOK, Asks
<1>21. ContentOK(t, "malloced", r2, mem')
  BY DEF ContentOK, Frees
<1>22. HeldOK(t, "malloced", r2, held[t], P, B, mem')
  <2>1. ASSUME NEW e \in held[t]
        PROVE  /\ e \in held[t] /\ Same(P, B, P, B, Has(t, e), Has(t, e))
               /\ \A x \in Addr : Owns(P, B, Has(t, e), x) => mem'[x] = mem[x]
    <3>1. Has(t, e) # g /\ Owner(Has(t, e))
      BY TagsDiffer, OwnersAre DEF g
    <3>2. Owns(P, B, g, r.ptr)
      BY <1>8, <1>9 DEF Owns
    <3>3. ~Owns(P, B, Has(t, e), r.ptr)
      BY <1>8, <1>13, <3>1, <3>2, OwnsOnce
    <3> QED BY <1>12, <1>14, <3>3
  <2>2. r.req.op = "realloc" => r.old \in held[t] /\ ~r.old.paged
    BY <1>1 DEF HeldOK, Asks
  <2>3. "malloced" \in Asks /\ r2.req.op = "realloc" => r2.old \in held[t] /\ ~r2.old.paged
    BY <1>15, <2>2
  <2> QED BY <1>1, <1>6, <2>1, <2>3, HeldMoves
<1>23. ThreadNext(t, P, B)
  BY <1>5, <1>16, <1>17, <1>18, <1>19, <1>20, <1>21, <1>22 DEF ThreadNext, ThreadOK, r2
<1>24. UNCHANGED <<used_map, pool_lock, desc_lock, free_list, held>>
  BY <1>3 DEF palloc
<1>25. \A x \in Addr : mem'[x] = mem[x] \/ (Owns(P, B, g, x) /\ (mem'[x].kind # "arena" \/ P[pg_no(x)] = g))
  <2>1. Owns(P, B, g, r.ptr) /\ P[pg_no(r.ptr)] = g
    BY <1>8, <1>9 DEF Owns
  <2> QED BY <1>12, <2>1
<1> QED BY <1>1, <1>5, <1>12, <1>23, <1>24, <1>25, MemStep DEF g

\* A page of g becomes a page of blocks, all of them in the free list.
Opened(P, B, P2, B2, n, d, g) ==
    /\ P2 = [P EXCEPT ![n] = Of(d)] /\ B2 = [a \in Addr |-> IF a \in Blocks(n, d) THEN Listed ELSE B[a]]
    /\ n \in Pages /\ d \in Desc /\ P[n] = g /\ \A i \in Pages : P[i] = g => i = n
    /\ NoBlock(B, g)

LEMMA Opens ==
    ASSUME NEW P, NEW B, NEW P2, NEW B2, NEW used, NEW hs, Mapped(P, B, used, hs), NEW n, NEW d, NEW g,
           Owner(g), Opened(P, B, P2, B2, n, d, g)
    PROVE  /\ Mapped(P2, B2, used, hs) /\ P2[n] = Of(d) /\ \A i \in Pages : i # n => P2[i] = P[i]
           /\ \A a \in Addr : IF pg_no(a) = n THEN B2[a] = Listed <=> a \in Blocks(n, d) ELSE B2[a] = B[a]
           /\ \A a \in Blocks(n, d) : B2[a] = Listed
           /\ Nothing(P2, B2, g)
           /\ \A e : Owner(e) /\ e # g => Same(P, B, P2, B2, e, e)
<1>1. /\ P2 = [P EXCEPT ![n] = Of(d)] /\ B2 = [a \in Addr |-> IF a \in Blocks(n, d) THEN Listed ELSE B[a]]
      /\ n \in Pages /\ d \in Desc /\ P[n] = g /\ \A i \in Pages : P[i] = g => i = n
      /\ NoBlock(B, g)
  BY DEF Opened
<1>2. P = [i \in Pages |-> P[i]] /\ g # None /\ g # Listed /\ \A e : Of(e) # g
  BY Owners DEF Mapped
<1>3. P2 = [i \in Pages |-> P2[i]] /\ P2[n] = Of(d) /\ \A i \in Pages : i # n => P2[i] = P[i]
  BY <1>1, <1>2
<1>4. \A a \in Addr : pg_no(a) = n => B[a] = None
  <2> SUFFICES ASSUME NEW a \in Addr, pg_no(a) = n, B[a] # None PROVE FALSE
    OBVIOUS
  <2>1. PICK e \in Desc : P[pg_no(a)] = Of(e)
    BY BlockPage
  <2> QED BY <1>1, <1>2, <2>1
<1>5. \A a \in Blocks(n, d) : a \in Addr /\ pg_no(a) = n
  BY <1>1, BlockIn
<1>6. /\ \A a \in Addr : pg_no(a) = n => B2[a] = (IF a \in Blocks(n, d) THEN Listed ELSE None)
      /\ \A a \in Addr : pg_no(a) # n => B2[a] = B[a]
  BY <1>1, <1>4, <1>5
<1>7. B2 = [a \in Addr |-> B2[a]] /\ None # Listed
  BY <1>1, TagsDiffer
<1>8. Mapped(P2, B2, used, hs)
  <2>1. used \subseteq Pages /\ \A i \in Pages : P2[i] = None <=> i \notin used
    BY <1>1, <1>2, <1>3, TagsDiffer DEF Mapped
  <2>2. \A i \in Pages : P2[i] = None \/ (\E e \in Desc : P2[i] = Of(e)) \/ Tag(hs, P2[i])
    BY <1>1, <1>3 DEF Mapped
  <2>3. \A a \in Addr : B2[a] \in {None, Listed} \/ Tag(hs, B2[a])
    BY <1>6 DEF Mapped
  <2>4. ASSUME NEW a \in Addr PROVE B2[a] # None <=> \E e \in Desc : P2[pg_no(a)] = Of(e) /\ a \in Blocks(pg_no(a), e)
    <3>1. CASE pg_no(a) = n
      <4>1. \A e \in Desc : P2[pg_no(a)] = Of(e) <=> e = d
        BY <1>3, <3>1, TagsDiffer
      <4> QED BY <1>1, <1>6, <1>7, <3>1, <4>1
    <3>2. CASE pg_no(a) # n
      <4>1. P2[pg_no(a)] = P[pg_no(a)] /\ B2[a] = B[a]
        BY <1>3, <1>6, <3>2, AddrIs
      <4> QED BY <4>1 DEF Mapped
    <3> QED BY <3>1, <3>2
  <2> QED BY <1>3, <1>7, <2>1, <2>2, <2>3, <2>4 DEF Mapped
<1>9. Nothing(P2, B2, g)
  <2>1. NoPage(P2, g)
    BY <1>1, <1>2, <1>3 DEF NoPage
  <2>2. NoBlock(B2, g)
    BY <1>1, <1>2, <1>6 DEF NoBlock
  <2> QED BY <2>1, <2>2 DEF Nothing
<1>10. ASSUME NEW e, Owner(e), e # g PROVE Same(P, B, P2, B2, e, e)
  <2>1. e # None /\ e # Listed /\ Of(d) # e
    BY <1>10, Owners
  <2>2. \A i \in Pages : P2[i] = e <=> P[i] = e
    BY <1>1, <1>3, <1>10, <2>1
  <2>3. \A a \in Addr : B2[a] = e <=> B[a] = e
    BY <1>4, <1>6, <2>1
  <2>4. \A a \in Addr : B[a] = e => P2[pg_no(a)] = P[pg_no(a)]
    BY <1>3, <1>4, <2>1, AddrIs
  <2> QED BY <2>2, <2>3, <2>4 DEF Same
<1> QED BY <1>3, <1>5, <1>6, <1>7, <1>8, <1>9, <1>10

\* The blocks of a new arena, one after the other.
Row(n, d) == [i \in 1..blocks_per_arena(d) |-> BlockAt(n, d, i - 1)]

LEMMA Rows ==
    ASSUME NEW n \in Pages, NEW d \in Desc
    PROVE  /\ Row(n, d) \in Seq(Addr) /\ Row(n, d) # <<>> /\ Once(Row(n, d))
           /\ Head(Row(n, d)) \in Blocks(n, d)
           /\ \A a : Among(Row(n, d), a) <=> a \in Blocks(n, d)
<1> DEFINE c == blocks_per_arena(d)
           s == Row(n, d)
<1>1. c \in Nat /\ c > 0
  BY BlockSizes
<1>2. DOMAIN s = 1..c /\ \A i \in 1..c : s[i] = BlockAt(n, d, i - 1)
  BY DEF Row
<1> HIDE DEF c
<1>3. \A i \in 1..c : i - 1 \in 0..(c - 1)
  BY <1>1
<1>4. \A i \in 1..c : s[i] \in Blocks(n, d)
  BY <1>2, <1>3 DEF Blocks, c
<1>5. s \in Seq(Addr)
  <2>1. \A i \in 1..c : s[i] \in Addr
    BY <1>4, BlockIn
  <2>2. s = [i \in 1..c |-> s[i]]
    BY DEF Row, c
  <2> HIDE DEF s
  <2> QED BY <1>1, <2>1, <2>2
<1>6. Once(s)
  <2> SUFFICES ASSUME NEW i \in 1..c, NEW j \in 1..c, s[i] = s[j] PROVE i = j
    BY <1>2 DEF Once
  <2>1. i - 1 = j - 1
    BY <1>2, <1>3, BlockOnce DEF c
  <2> QED BY <2>1
<1>7. ASSUME NEW a \in Blocks(n, d) PROVE Among(s, a)
  <2>1. PICK i \in 0..(c - 1) : a = BlockAt(n, d, i)
    BY DEF Blocks, c
  <2>2. i + 1 \in 1..c /\ (i + 1) - 1 = i
    BY <1>1
  <2> QED BY <1>2, <2>1, <2>2 DEF Among
<1>8. \A a : Among(s, a) => a \in Blocks(n, d)
  BY <1>2, <1>4 DEF Among
<1>9. s # <<>> /\ Head(s) \in Blocks(n, d)
  <2>1. 1 \in 1..c
    BY <1>1
  <2>2. s # <<>>
    <3>1. DOMAIN s # {}
      BY <1>2, <2>1
    <3> QED BY <3>1
  <2>3. Head(s) = s[1]
    BY <1>5, <2>2
  <2> QED BY <1>4, <2>1, <2>2, <2>3
<1> QED BY <1>5, <1>6, <1>7, <1>8, <1>9 DEF s

LEMMA ArenaNext ==
    ASSUME NEW t \in Thread, NEW P, NEW B, Owned(P, B), Got(t), f(t).req.op # "page", f(t).desc # 0
    PROVE  LET r == frame[t]
               d == r.desc
               n == pg_no(r.ptr)
           IN  /\ pc[t] = "got" /\ FrameOK(t, "got", r) /\ r \in AskFrame(t) /\ AskOK("got", r)
               /\ d \in Desc /\ desc_lock[d] = t /\ n \in Pages /\ r.ptr = page_ptr(n) /\ n \in PoolPages("kernel")
               /\ P[n] = New(t) /\ (\A i \in Pages : P[i] = New(t) => i = n) /\ NoBlock(B, New(t))
               /\ Clean(P, mem, New(t), NULL) /\ r.req.op # "page"
               /\ Quiet(t) /\ UNCHANGED <<used_map, pool_lock, desc_lock, held>> /\ pc'[t] = "pop" /\ frame'[t] = r
               /\ free_list[d] = <<>> /\ free_list' = [free_list EXCEPT ![d] = Row(n, d)]
               /\ mem' = [x \in Addr |-> mem'[x]] /\ mem'[page_ptr(n)] = Arena(d, blocks_per_arena(d))
               /\ \A x \in Addr : x # page_ptr(n) => mem'[x] = mem[x]
<1> DEFINE r == frame[t]
           d == r.desc
           n == pg_no(r.ptr)
           g == New(t)
           c == blocks_per_arena(d)
<1>1. /\ pc[t] = "got" /\ FrameOK(t, "got", r) /\ r \in AskFrame(t) /\ AskOK("got", r) /\ r.req.op # "free"
      /\ Paged(P, B, mem, g, r.ptr, r.cnt) /\ r.ptr \in Nat
      /\ \A i \in Pages : P[i] = g => i \in PoolPages(From(r))
      /\ LockOK(t, "got", r, used_map, pool_lock, desc_lock, free_list)
  BY GotWas
<1>2. r.req.op # "page" /\ d # 0
  BY DEF f
<1>3. /\ pc' = [pc EXCEPT ![t] = "pop"] /\ UNCHANGED <<palloc, desc_lock, held, frame>>
      /\ free_list' = [free_list EXCEPT ![d] = @ \o [i \in 1..c |-> r.ptr + ArenaSize + (i - 1) * BlockSize(d)]]
      /\ mem' = Filled(r.ptr, 1, Arena(d, c))
  BY <1>2 DEF Got, Goto, f
<1>4. r.cnt = 1
  BY <1>1, <1>2 DEF AskOK, Asks
<1>5. d \in Desc /\ desc_lock[d] = t /\ free_list[d] = <<>>
  BY <1>1, <1>2 DEF LockOK, Arranges
<1>6. n \in Pages /\ r.ptr = page_ptr(n) /\ PagesAre(P, B, g, n, 1) /\ Clean(P, mem, g, NULL)
  BY <1>1, <1>4 DEF Paged, PagesAre
<1>7. P[n] = g /\ (\A i \in Pages : P[i] = g => i = n) /\ NoBlock(B, g)
  <2>1. \A i \in Pages : n <= i /\ i < n + 1 <=> i = n
    <3>1. n \in Nat /\ Pages \subseteq Nat
      BY <1>6, PagesNat
    <3> HIDE DEF n
    <3> QED BY <3>1
  <2> HIDE DEF n, g, r
  <2> QED BY <1>6, <2>1 DEF PagesAre
<1>8. From(r) = "kernel" /\ n \in PoolPages("kernel")
  BY <1>1, <1>2, <1>6, <1>7 DEF From
<1>9. Quiet(t) /\ UNCHANGED <<used_map, pool_lock, desc_lock, held>> /\ pc'[t] = "pop" /\ frame'[t] = r
  BY <1>3, OwnedIs DEF Quiet, palloc
<1>10. \A x : x \in Extent(r.ptr, 1) <=> x = r.ptr
  BY <1>1 DEF Extent
<1>11. r.ptr \in Addr
  BY <1>6, PtrAddr
<1>12. mem' = [x \in Addr |-> mem'[x]] /\ mem'[r.ptr] = Arena(d, c) /\ \A x \in Addr : x # r.ptr => mem'[x] = mem[x]
  BY <1>3, <1>10, <1>11, FilledIs
<1>13. free_list' = [free_list EXCEPT ![d] = Row(n, d)]
  <2>1. [i \in 1..c |-> r.ptr + ArenaSize + (i - 1) * BlockSize(d)] = Row(n, d)
    BY <1>6 DEF Row, BlockAt
  <2>2. Row(n, d) \in Seq(Addr)
    BY <1>5, <1>6, Rows
  <2>3. <<>> \o Row(n, d) = Row(n, d)
    BY <2>2
  <2> QED BY <1>3, <1>5, <2>1, <2>3
<1>14. mem'[page_ptr(n)] = Arena(d, c) /\ \A x \in Addr : x # page_ptr(n) => mem'[x] = mem[x]
  BY <1>6, <1>12
<1> HIDE DEF n, d, r
<1> QED BY <1>1, <1>2, <1>5, <1>6, <1>7, <1>8, <1>9, <1>12, <1>13, <1>14 DEF r, d, n

LEMMA GotArena ==
    ASSUME NEW t \in Thread, NEW P, NEW B, Owned(P, B), Got(t), f(t).req.op # "page", f(t).desc # 0
    PROVE  MemoryInv'
<1> DEFINE r == frame[t]
           d == r.desc
           n == pg_no(r.ptr)
           g == New(t)
           P2 == [P EXCEPT ![n] = Of(d)]
           B2 == [a \in Addr |-> IF a \in Blocks(n, d) THEN Listed ELSE B[a]]
           c == blocks_per_arena(d)
<1>0. /\ pc[t] = "got" /\ FrameOK(t, "got", r) /\ r \in AskFrame(t) /\ AskOK("got", r)
      /\ d \in Desc /\ desc_lock[d] = t /\ n \in Pages /\ r.ptr = page_ptr(n) /\ n \in PoolPages("kernel")
      /\ P[n] = g /\ (\A i \in Pages : P[i] = g => i = n) /\ NoBlock(B, g)
      /\ Clean(P, mem, g, NULL) /\ r.req.op # "page"
      /\ Quiet(t) /\ UNCHANGED <<used_map, pool_lock, desc_lock, held>> /\ pc'[t] = "pop" /\ frame'[t] = r
      /\ free_list[d] = <<>> /\ free_list' = [free_list EXCEPT ![d] = Row(n, d)]
      /\ mem' = [x \in Addr |-> mem'[x]] /\ mem'[page_ptr(n)] = Arena(d, c)
      /\ \A x \in Addr : x # page_ptr(n) => mem'[x] = mem[x]
  BY ArenaNext
<1>1. d # 0 /\ c \in Nat /\ c > 0
  BY <1>0, BlockSizes
<1>2. /\ LockOK(t, pc[t], r, used_map, pool_lock, desc_lock, free_list) /\ GoneOK(t, pc[t], r, P, B, mem)
      /\ HeldOK(t, pc[t], r, held[t], P, B, mem)
      /\ Headers(P, mem) /\ OneHeader(P, mem) /\ Mapped(P, B, used_map, held) /\ ListsOK(P, B, free_list)
      /\ LocksOK(pool_lock, desc_lock) /\ MemOK(P, mem)
  BY ThreadIs, OwnedIs
<1>3. Owner(g) /\ g # None /\ g # Listed
  BY OwnersAre, TagsDiffer
<1>4. P2 = [P EXCEPT ![n] = Of(d)] /\ B2 = [a \in Addr |-> IF a \in Blocks(n, d) THEN Listed ELSE B[a]]
  OBVIOUS
<1> HIDE DEF P2, B2, g, n, d, r, c
<1>5. Opened(P, B, P2, B2, n, d, g)
  BY <1>0, <1>4 DEF Opened
<1>6. /\ Mapped(P2, B2, used_map, held) /\ P2[n] = Of(d) /\ \A i \in Pages : i # n => P2[i] = P[i]
      /\ \A a \in Addr : IF pg_no(a) = n THEN B2[a] = Listed <=> a \in Blocks(n, d) ELSE B2[a] = B[a]
      /\ \A a \in Blocks(n, d) : B2[a] = Listed
      /\ Nothing(P2, B2, g)
      /\ \A e : Owner(e) /\ e # g => Same(P, B, P2, B2, e, e)
  BY <1>2, <1>3, <1>5, Opens
<1>7. page_ptr(n) \in Addr /\ pg_no(page_ptr(n)) = n
  BY <1>0, PtrAddr
<1>8. /\ Row(n, d) \in Seq(Addr) /\ Row(n, d) # <<>> /\ Once(Row(n, d)) /\ Head(Row(n, d)) \in Blocks(n, d)
      /\ \A a : Among(Row(n, d), a) <=> a \in Blocks(n, d)
  BY <1>0, Rows
<1>9. free_list'[d] = Row(n, d) /\ free_list' \in [Desc -> Seq(Addr)] /\ \A e \in Desc : e # d => free_list'[e] = free_list[e]
  <2>1. free_list \in [Desc -> Seq(Addr)]
    BY <1>2 DEF ListsOK
  <2> QED BY <1>0, <1>8, <2>1
<1>10. \A a \in Addr : ~(B[a] = Listed /\ P[pg_no(a)] = Of(d))
  <2>1. \A a : ~Among(free_list[d], a)
    BY <1>0 DEF Among
  <2> QED BY <1>0, <1>2, <2>1, ListsAre
<1>11. ListsOK(P2, B2, free_list')
  <2>1. ASSUME NEW e \in Desc
        PROVE  Once(free_list'[e]) /\ \A a \in Addr : Among(free_list'[e], a) <=> B2[a] = Listed /\ P2[pg_no(a)] = Of(e)
    <3>1. CASE e = d
      <4>1. ASSUME NEW a \in Addr PROVE B2[a] = Listed /\ P2[pg_no(a)] = Of(d) <=> a \in Blocks(n, d)
        <5>1. CASE pg_no(a) = n
          BY <1>6, <5>1
        <5>2. CASE pg_no(a) # n
          <6>1. P2[pg_no(a)] = P[pg_no(a)] /\ B2[a] = B[a]
            BY <1>6, <5>2, AddrIs
          <6>2. a \notin Blocks(n, d)
            BY <1>0, <5>2, BlockIn
          <6> QED BY <1>10, <6>1, <6>2
        <5> QED BY <5>1, <5>2
      <4> QED BY <1>8, <1>9, <3>1, <4>1
    <3>2. CASE e # d
      <4>1. Once(free_list[e]) /\ \A a \in Addr : Among(free_list[e], a) <=> B[a] = Listed /\ P[pg_no(a)] = Of(e)
        BY <1>2, ListsAre
      <4>2. ASSUME NEW a \in Addr
            PROVE  B2[a] = Listed /\ P2[pg_no(a)] = Of(e) <=> B[a] = Listed /\ P[pg_no(a)] = Of(e)
        <5>1. CASE pg_no(a) = n
          BY <1>0, <1>3, <1>6, <3>2, <5>1, Owners, TagsDiffer
        <5>2. CASE pg_no(a) # n
          BY <1>6, <5>2, AddrIs
        <5> QED BY <5>1, <5>2
      <4> QED BY <1>9, <3>2, <4>1, <4>2
    <3> QED BY <3>1, <3>2
  <2> QED BY <1>9, <2>1, ListsAre
<1>12. \A a \in Addr : Owns(P, B, g, a) <=> pg_no(a) = n
  <2> SUFFICES ASSUME NEW a \in Addr PROVE Owns(P, B, g, a) <=> pg_no(a) = n
    OBVIOUS
  <2>1. pg_no(a) = n => Owns(P, B, g, a)
    BY <1>0 DEF Owns
  <2>2. ASSUME Owns(P, B, g, a) PROVE pg_no(a) = n
    <3>1. P[pg_no(a)] = g
      <4> SUFFICES ASSUME P[pg_no(a)] # g PROVE FALSE
        OBVIOUS
      <4>1. PICK e \in Desc : \E b \in Blocks(pg_no(a), e) : P[pg_no(a)] = Of(e) /\ B[b] = g /\ a \in Extent(b, BlockSize(e))
        BY <2>2 DEF Owns
      <4>2. PICK b \in Blocks(pg_no(a), e) : B[b] = g
        BY <4>1
      <4>3. b \in Addr
        BY <4>2, AddrIs, BlockIn
      <4> QED BY <1>0, <4>2, <4>3 DEF NoBlock
    <3> QED BY <1>0, <3>1, AddrIs
  <2> QED BY <2>1, <2>2
<1>13. FrameOK(t, "pop", r)
  BY <1>0, StillAsks DEF Asks, Like
<1>14. AskOK("pop", r)
  <2>1. r.desc # 0 /\ "got" \in Asks /\ "pop" \in Asks
    BY <1>1 DEF Asks, d
  <2>2. /\ r.cnt > 0 /\ r.desc \in Desc \cup {0} /\ r.req.op # "page"
        /\ Promise(r) <= BlockSize(r.desc) /\ r.cnt = 1
    BY <1>0, <2>1 DEF AskOK
  <2> QED BY <2>1, <2>2 DEF AskOK
<1>15. LockOK(t, "pop", r, used_map', pool_lock', desc_lock', free_list')
  BY <1>0, <1>8, <1>9 DEF LockOK, Arranges, Releases, d
<1>16. NewOK(t, "pop", r, P2, B2, mem')
  <2>1. Nothing(P2, B2, New(t)) /\ \A i \in Pages : P2[i] # New(t)
    BY <1>6 DEF g, Nothing, NoPage
  <2> QED BY <2>1 DEF NewOK, Frees
<1>17. GoneOK(t, "pop", r, P2, B2, mem')
  <2>1. Nothing(P, B, Gone(t)) /\ Gone(t) # g /\ Owner(Gone(t))
    BY <1>0, <1>2, TagsDiffer, OwnersAre DEF GoneOK, Asks, g
  <2>2. Nothing(P2, B2, Gone(t))
    BY <1>6, <2>1, PagesMove
  <2> QED BY <2>2 DEF GoneOK, Asks
<1>18. ContentOK(t, "pop", r, mem')
  BY DEF ContentOK, Frees
<1>19. HeldOK(t, "pop", r, held'[t], P2, B2, mem')
  <2>1. ASSUME NEW e \in held[t]
        PROVE  /\ e \in held[t] /\ Same(P, B, P2, B2, Has(t, e), Has(t, e))
               /\ \A x \in Addr : Owns(P, B, Has(t, e), x) => mem'[x] = mem[x]
    <3>1. Has(t, e) # g /\ Owner(Has(t, e))
      BY TagsDiffer, OwnersAre DEF g
    <3>2. ~Owns(P, B, Has(t, e), page_ptr(n))
      BY <1>3, <1>7, <1>12, <3>1, OwnsOnce
    <3> QED BY <1>0, <1>6, <3>1, <3>2
  <2>2. r.req.op = "realloc" => r.old \in held[t] /\ ~r.old.paged
    BY <1>0, <1>2 DEF HeldOK, Asks
  <2>3. "pop" \in Asks /\ r.req.op = "realloc" => r.old \in held[t] /\ ~r.old.paged
    BY <2>2
  <2>4. HeldOK(t, "pop", r, held[t], P2, B2, mem')
    BY <1>2, <2>1, <2>3, HeldMoves
  <2> QED BY <1>0, <2>4
<1>20. ThreadNext(t, P2, B2)
  BY <1>0, <1>13, <1>14, <1>15, <1>16, <1>17, <1>18, <1>19 DEF ThreadNext, ThreadOK
<1>21. ASSUME NEW u \in Thread, u # t
       PROVE  /\ KeepsTags(u, P, B, P2, B2) /\ KeepsMem(u, P, B, mem, mem')
              /\ KeepsList(u, P, B, desc_lock, free_list, P2, B2, desc_lock', free_list')
              /\ KeepsPool(u, used_map, pool_lock, used_map', pool_lock')
  <2>0. \A e : Theirs(u, e) => e # g /\ Owner(e)
    BY <1>21, TheirsOnce, OwnersAre DEF Owner, g
  <2>1. KeepsTags(u, P, B, P2, B2)
    BY <1>6, <2>0 DEF KeepsTags
  <2>2. KeepsMem(u, P, B, mem, mem') /\ KeepsPool(u, used_map, pool_lock, used_map', pool_lock')
    <3>1. ASSUME NEW e, Theirs(u, e) PROVE ~Owns(P, B, e, page_ptr(n))
      BY <1>3, <1>7, <1>12, <2>0, <3>1, OwnsOnce
    <3> QED BY <1>0, <3>1 DEF KeepsMem, KeepsPool
  <2>3. KeepsList(u, P, B, desc_lock, free_list, P2, B2, desc_lock', free_list')
    <3> SUFFICES ASSUME NEW e \in Desc, desc_lock[e] = u
                 PROVE  /\ desc_lock'[e] = u /\ free_list'[e] = free_list[e]
                        /\ \A j \in Pages : P[j] = Of(e) =>
                              P2[j] = Of(e) /\ \A a \in Addr : pg_no(a) = j /\ B[a] = Listed => B2[a] = Listed
      BY DEF KeepsList
    <3>1. e # d
      BY <1>0, <1>21
    <3>2. \A j \in Pages : P[j] = Of(e) => j # n
      BY <1>0, <1>3, Owners
    <3> QED BY <1>0, <1>6, <1>9, <3>1, <3>2
  <2> QED BY <2>1, <2>2, <2>3
<1>22. ASSUME NEW j \in Pages, NEW e \in Desc, P2[j] = Of(e)
       PROVE  ArenaOK(P2, B2, mem', pc', frame', desc_lock', free_list', j, e)
  <2>1. CASE j = n
    <3>1. e = d
      BY <1>6, <1>22, <2>1, TagsDiffer
    <3>2. \A x \in Addr : pg_no(x) = n /\ x # page_ptr(n) => mem'[x].kind # "arena"
      <4> SUFFICES ASSUME NEW x \in Addr, pg_no(x) = n, x # page_ptr(n) PROVE mem'[x].kind # "arena"
        OBVIOUS
      <4>1. mem'[x] = mem[x] /\ x # NULL
        BY <1>0, AddrIs DEF NULL
      <4> QED BY <1>0, <4>1 DEF Clean
    <3>3. Counted(B2, mem', n, d)
      <4>1. ListedOn(B2, n, d) = Blocks(n, d)
        BY <1>6 DEF ListedOn
      <4>2. Cardinality(Blocks(n, d)) = c
        BY <1>0, BlocksCount DEF c
      <4>3. mem'[page_ptr(n)].free_cnt = c
        BY <1>0 DEF Arena
      <4> QED BY <4>1, <4>2, <4>3 DEF Counted
    <3>4. mem'[page_ptr(n)] = Arena(d, mem'[page_ptr(n)].free_cnt)
      BY <1>0 DEF Arena
    <3>5. desc_lock'[d] = t /\ pc'[t] = "pop" /\ frame'[t].desc = d /\ pg_no(Head(free_list'[d])) = n
      BY <1>0, <1>8, <1>9, BlockIn DEF d
    <3>6. ArenaOK(P2, B2, mem', pc', frame', desc_lock', free_list', n, d)
      BY <1>0, <3>2, <3>3, <3>4, <3>5 DEF ArenaOK
    <3> QED BY <2>1, <3>1, <3>6
  <2>2. CASE j # n
    <3>1. P[j] = Of(e)
      BY <1>6, <1>22, <2>2
    <3>2. ~About(t, j, e)
      BY <1>0 DEF About
    <3>3. \A a \in Blocks(j, e) : B2[a] = Listed <=> B[a] = Listed
      BY <1>6, <2>2, BlockIn
    <3>4. \A u \in Thread : u # t => KeepsList(u, P, B, desc_lock, free_list, P2, B2, desc_lock', free_list')
      BY <1>21
    <3>5. page_ptr(j) \in Addr /\ pg_no(page_ptr(j)) = j
      BY PtrAddr
    <3>6. mem'[page_ptr(j)] = mem[page_ptr(j)] /\ \A x \in Addr : pg_no(x) = j /\ x # page_ptr(j) => mem'[x] = mem[x] \/ mem'[x].kind # "arena"
      BY <1>0, <1>7, <2>2, <3>5
    <3>7. Quiet(t)
      BY <1>0
    <3> QED BY <3>1, <3>2, <3>3, <3>4, <3>6, <3>7, ArenaBeside
  <2> QED BY <2>1, <2>2
<1>23. MemOK(P2, mem')
  <2> SUFFICES ASSUME NEW x \in Addr, P2[pg_no(x)] = None, x # NULL PROVE mem'[x].kind # "arena"
    BY <1>0 DEF MemOK, Clean
  <2>1. pg_no(x) # n
    BY <1>6, TagsDiffer
  <2>2. P[pg_no(x)] = None /\ x # page_ptr(n)
    BY <1>6, <1>7, <2>1, AddrIs
  <2> QED BY <1>0, <1>2, <2>2 DEF MemOK, Clean
<1>24. Quiet(t) /\ Mapped(P2, B2, used_map', held') /\ LocksOK(pool_lock', desc_lock') /\ ListsOK(P2, B2, free_list')
  BY <1>0, <1>2, <1>6, <1>11
<1> QED BY <1>20, <1>21, <1>22, <1>23, <1>24, Step

LEMMA GotKeeps ==
    ASSUME NEW t \in Thread, NEW P, NEW B, Owned(P, B), Got(t)
    PROVE  MemoryInv'
BY GotPage, GotBig, GotArena

-----------------------------------------------------------------------------
(* The invariant holds.                                                    *)

LEMMA ProgramOK ==
    ASSUME NEW t \in Thread, NEW P, NEW B, NEW m, NEW used, NEW pl, NEW dl, NEW fl,
           Nothing(P, B, New(t)), Nothing(P, B, Gone(t))
    PROVE  ThreadOK(t, "program", <<>>, {}, P, B, m, used, pl, dl, fl)
<1>1. <<>> \notin AskFrame(t)
  BY DEF AskFrame
<1>2. FrameOK(t, "program", <<>>) /\ AskOK("program", <<>>)
  BY <1>1 DEF FrameOK, AskOK, Asks, Frees
<1>3. LockOK(t, "program", <<>>, used, pl, dl, fl)
  BY DEF LockOK, Arranges, Releases
<1>4. NewOK(t, "program", <<>>, P, B, m) /\ GoneOK(t, "program", <<>>, P, B, m)
  BY DEF NewOK, GoneOK, Frees
<1>5. ContentOK(t, "program", <<>>, m) /\ HeldOK(t, "program", <<>>, {}, P, B, m)
  BY DEF ContentOK, HeldOK, Asks, Frees
<1> QED BY <1>2, <1>3, <1>4, <1>5 DEF ThreadOK

LEMMA InitOwned == Init => MemoryInv
<1> SUFFICES ASSUME Init PROVE MemoryInv
  OBVIOUS
<1> DEFINE P == [n \in Pages |-> None]
           B == [a \in Addr |-> None]
<1>1. /\ used_map = {} /\ pool_lock = [p \in Pool |-> Nobody] /\ desc_lock = [d \in Desc |-> Nobody]
      /\ free_list = [d \in Desc |-> <<>>] /\ mem = [x \in Addr |-> Junk]
      /\ held = [t \in Thread |-> {}] /\ pc = [t \in Thread |-> "program"] /\ frame = [t \in Thread |-> <<>>]
  BY DEF Init, Addr
<1>2. /\ P = [n \in Pages |-> P[n]] /\ B = [a \in Addr |-> B[a]]
      /\ \A n \in Pages : P[n] = None
      /\ \A a \in Addr : B[a] = None
  OBVIOUS
<1> HIDE DEF P, B
<1>3. Mapped(P, B, used_map, held)
  <2>1. \A a \in Addr : \A d : P[pg_no(a)] # Of(d)
    BY <1>2, AddrIs, TagsDiffer
  <2> QED BY <1>1, <1>2, <2>1 DEF Mapped
<1>4. LocksOK(pool_lock, desc_lock)
  BY <1>1 DEF LocksOK
<1>5. ListsOK(P, B, free_list)
  <2>1. free_list \in [Desc -> Seq(Addr)] /\ \A d \in Desc : DOMAIN free_list[d] = {}
    BY <1>1
  <2> QED BY <1>2, <2>1, TagsDiffer DEF ListsOK
<1>6. MemOK(P, mem)
  <2>1. Junk.kind # "arena"
    BY DEF Junk
  <2> QED BY <1>1, <2>1 DEF MemOK, Clean
<1>7. \A n \in Pages, d \in Desc :
          P[n] = Of(d) => ArenaOK(P, B, mem, pc, frame, desc_lock, free_list, n, d)
  BY <1>2, TagsDiffer
<1>8. pc = [t \in Thread |-> pc[t]] /\ frame = [t \in Thread |-> frame[t]] /\ held = [t \in Thread |-> held[t]]
  BY <1>1
<1>9. ASSUME NEW t \in Thread
      PROVE  ThreadOK(t, pc[t], frame[t], held[t], P, B, mem, used_map, pool_lock, desc_lock, free_list)
  <2>1. Nothing(P, B, New(t)) /\ Nothing(P, B, Gone(t))
    BY <1>2, TagsDiffer DEF Nothing, NoPage, NoBlock
  <2>2. pc[t] = "program" /\ frame[t] = <<>> /\ held[t] = {}
    BY <1>1
  <2> QED BY <2>1, <2>2, ProgramOK
<1>10. Owned(P, B)
  BY <1>3, <1>4, <1>5, <1>6, <1>7, <1>8, <1>9 DEF Owned
<1> QED BY <1>10 DEF MemoryInv

LEMMA StutterOwned ==
    ASSUME NEW P, NEW B, Owned(P, B), UNCHANGED vars
    PROVE  MemoryInv'
<1>1. /\ used_map' = used_map /\ pool_lock' = pool_lock /\ desc_lock' = desc_lock /\ free_list' = free_list
      /\ mem' = mem /\ held' = held /\ pc' = pc /\ frame' = frame
  BY DEF vars
<1>2. Owned(P, B)'
  BY <1>1 DEF Owned
<1> QED BY <1>2 DEF MemoryInv

LEMMA NextOwned ==
    ASSUME SizesFit, MemoryInv, [Next]_vars
    PROVE  MemoryInv'
<1>1. PICK P, B : Owned(P, B)
  BY DEF MemoryInv
<1>2. CASE UNCHANGED vars
  BY <1>1, <1>2, StutterOwned
<1>3. ASSUME NEW t \in Thread, NEW r \in Requests[t], NEW old \in held[t] \cup {Nobody}, Ask(t, r, old)
      PROVE  MemoryInv'
  BY <1>1, <1>3, AskKeeps
<1>4. ASSUME NEW t \in Thread, NEW b \in held[t], GiveBack(t, b) PROVE MemoryInv'
  BY <1>1, <1>4, GiveBackKeeps
<1>5. ASSUME NEW t \in Thread, GetLock(t) PROVE MemoryInv'
  BY <1>1, <1>5, GetLockKeeps
<1>6. ASSUME NEW t \in Thread, Scan(t) PROVE MemoryInv'
  BY <1>1, <1>6, ScanKeeps
<1>7. ASSUME NEW t \in Thread, Flip(t) PROVE MemoryInv'
  BY <1>1, <1>7, FlipKeeps
<1>8. ASSUME NEW t \in Thread, Got(t) PROVE MemoryInv'
  BY <1>1, <1>8, GotKeeps
<1>9. ASSUME NEW t \in Thread, GotNone(t) PROVE MemoryInv'
  BY <1>1, <1>9, GotNoneKeeps
<1>10. ASSUME NEW t \in Thread, FreeFill(t) PROVE MemoryInv'
  BY <1>1, <1>10, FreeFillKeeps
<1>11. ASSUME NEW t \in Thread, FreeClear(t) PROVE MemoryInv'
  BY <1>1, <1>11, FreeClearKeeps
<1>12. ASSUME NEW t \in Thread, Malloc(t) PROVE MemoryInv'
  BY <1>1, <1>12, MallocKeeps
<1>13. ASSUME NEW t \in Thread, Pop(t) PROVE MemoryInv'
  BY <1>1, <1>13, PopKeeps
<1>14. ASSUME NEW t \in Thread, Malloced(t) PROVE MemoryInv'
  BY <1>1, <1>14, MallocedKeeps
<1>15. ASSUME NEW t \in Thread, Free(t) PROVE MemoryInv'
  BY <1>1, <1>15, FreeKeeps
<1>16. ASSUME NEW t \in Thread, FreeLock(t) PROVE MemoryInv'
  BY <1>1, <1>16, FreeLockKeeps
<1>17. ASSUME NEW t \in Thread, FreeUnlist(t) PROVE MemoryInv'
  BY <1>1, <1>17, FreeUnlistKeeps
<1>18. ASSUME NEW t \in Thread, FreeUnlock(t) PROVE MemoryInv'
  BY <1>1, <1>18, FreeUnlockKeeps
<1>19. ASSUME NEW t \in Thread, Receive(t) PROVE MemoryInv'
  BY <1>1, <1>19, ReceiveKeeps
<1> QED
  BY <1>2, <1>3, <1>4, <1>5, <1>6, <1>7, <1>8, <1>9, <1>10, <1>11, <1>12, <1>13, <1>14, <1>15, <1>16, <1>17,
     <1>18, <1>19 DEF Next

\* At every moment each page and each block of an arena belongs to exactly one thing: the
\* free pages, the free list, an arena, what one program was given, what one call has got
\* so far or is giving back; and the bitmaps, the free lists, the headers of arenas and
\* the local variables of palloc.c and malloc.c are what that says. SizesFit: no program
\* asks for a size so near 2^32 that rounding it up to pages wraps.
THEOREM EverythingOwned == SizesFit => (Spec => []MemoryInv)
<1> SUFFICES ASSUME SizesFit PROVE Spec => []MemoryInv
  OBVIOUS
<1>1. MemoryInv /\ [Next]_vars => MemoryInv'
  BY NextOwned
<1> QED BY <1>1, InitOwned, PTL DEF Spec

-----------------------------------------------------------------------------
(* What follows for programs.                                              *)

\* What is owned is in use.
LEMMA OwnedUsed ==
    ASSUME NEW P, NEW B, NEW used, NEW hs, Mapped(P, B, used, hs), NEW x \in Addr, NEW g, Owner(g), Owns(P, B, g, x)
    PROVE  pg_no(x) \in used
<1>1. pg_no(x) \in Pages
  BY AddrIs
<1>2. P[pg_no(x)] # None
  BY Owners, TagsDiffer DEF Owns
<1> QED BY <1>1, <1>2 DEF Mapped

LEMMA HeldIs ==
    ASSUME NEW P, NEW B, Owned(P, B), NEW t \in Thread, NEW b \in held[t]
    PROVE  /\ b \in BlockRecord /\ Given(P, B, mem, Has(t, b), b.ptr, b.size, b.paged)
           /\ b.ptr \in Extent(b.ptr, b.size)
           /\ \A x \in Extent(b.ptr, b.size) : x \in Addr /\ Owns(P, B, Has(t, b), x) /\ mem[x] = Data(t)
<1>1. /\ b \in BlockRecord /\ Given(P, B, mem, Has(t, b), b.ptr, b.size, b.paged)
      /\ \A x \in Extent(b.ptr, b.size) : mem[x] = Data(t)
  BY ThreadIs DEF HeldOK
<1>2. Headers(P, mem) /\ OneHeader(P, mem)
  BY OwnedIs
<1>3. b.ptr \in Extent(b.ptr, b.size) /\ \A x \in Extent(b.ptr, b.size) : x \in Addr /\ Owns(P, B, Has(t, b), x)
  BY <1>1, <1>2, GivenOwns
<1> QED BY <1>1, <1>3

LEMMA ContentsFollow == MemoryInv => ContentsKept
<1> SUFFICES ASSUME NEW P, NEW B, Owned(P, B), NEW t \in Thread, NEW x \in Own(t)
             PROVE  mem[x] = Data(t) /\ pg_no(x) \in used_map
  BY DEF MemoryInv, ContentsKept
<1>1. PICK b \in held[t] : x \in Extent(b.ptr, b.size)
  BY DEF Own
<1>2. x \in Addr /\ Owns(P, B, Has(t, b), x) /\ mem[x] = Data(t)
  BY <1>1, HeldIs
<1>3. Mapped(P, B, used_map, held) /\ Owner(Has(t, b))
  BY OwnedIs, OwnersAre
<1> QED BY <1>2, <1>3, OwnedUsed

LEMMA ServedFollow == MemoryInv => CallerServed
<1> SUFFICES ASSUME NEW P, NEW B, Owned(P, B), NEW t \in Thread, pc[t] = "return", f(t).ptr # NULL
             PROVE  LET r    == f(t).req
                        mine == Extent(f(t).ptr, Promised(t))
                        kept == IF r.op # "realloc" THEN 0 ELSE IF r.a < f(t).old.size THEN r.a ELSE f(t).old.size
                    IN  /\ \A x \in mine : x \in DOMAIN mem /\ pg_no(x) \in PoolPages(PoolOf(t)) \cap used_map
                        /\ \A u \in Thread : mine \cap Own(u) = {}
                        /\ \A x \in mine : mem[x].kind # "arena"
                        /\ \A d \in Desc : \A i \in DOMAIN free_list[d] : free_list[d][i] \notin mine
                        /\ \A x \in Extent(f(t).ptr, kept) : mem[x] = Data(t)
                        /\ r.op = "calloc" \/ (r.op = "page" /\ r.zero) => \A x \in mine : mem[x] = Zero
  BY DEF MemoryInv, CallerServed
<1> DEFINE r == frame[t]
           g == New(t)
           mine == Extent(r.ptr, Promise(r))
           kept == IF r.req.op # "realloc" THEN 0 ELSE IF r.req.a < r.old.size THEN r.req.a ELSE r.old.size
<1>1. f(t) = r /\ Promised(t) = Promise(r) /\ PoolOf(t) = From(r) /\ r.ptr # NULL
  BY DEF f, Promised, Promise, PoolOf, From
<1>2. /\ Given(P, B, mem, g, r.ptr, Promise(r), r.req.op = "page")
      /\ FrameOK(t, "return", r) /\ r.req.op # "free" /\ r.ptr \in Addr /\ Promise(r) \in Nat
      /\ \A x \in mine : x \in Addr /\ Owns(P, B, g, x) /\ mem[x].kind # "arena"
  BY GotIs
<1>3. NewOK(t, "return", r, P, B, mem) /\ ContentOK(t, "return", r, mem)
  BY ThreadIs
<1>4. Mapped(P, B, used_map, held) /\ DOMAIN mem = Addr /\ Owner(g)
  BY OwnedIs, OwnersAre
<1> HIDE DEF r, g, mine, kept
<1>5. ASSUME NEW x \in mine PROVE x \in DOMAIN mem /\ pg_no(x) \in PoolPages(From(r)) /\ pg_no(x) \in used_map
  <2>1. x \in Addr /\ Owns(P, B, g, x) /\ pg_no(x) \in Pages
    BY <1>2, AddrIs
  <2>2. pg_no(x) \in used_map
    BY <1>4, <2>1, OwnedUsed
  <2>3. \A n \in Pages : P[n] = g => n \in PoolPages(From(r))
    BY <1>2, <1>3 DEF NewOK, g
  <2>4. CASE P[pg_no(x)] = g
    BY <1>4, <2>1, <2>2, <2>3, <2>4
  <2>5. CASE P[pg_no(x)] # g
    <3>1. PICK d \in Desc : P[pg_no(x)] = Of(d)
      BY <2>1, <2>5 DEF Owns
    <3>2. pg_no(x) \in PoolPages("kernel")
      BY <2>1, <3>1, OwnedIs DEF ArenaOK
    <3>3. r.req.op # "page"
      <4> SUFFICES ASSUME r.req.op = "page" PROVE FALSE
        OBVIOUS
      <4>1. PICK k \in Nat : Promise(r) = k * PGSIZE /\ Paged(P, B, mem, g, r.ptr, k)
        BY <1>2 DEF Given
      <4>2. PagesAre(P, B, g, pg_no(r.ptr), k) /\ x \in Extent(page_ptr(pg_no(r.ptr)), k * PGSIZE)
        BY <4>1 DEF Paged, mine
      <4> QED BY <2>5, <4>2, PagesOwned
    <3>4. From(r) = "kernel"
      BY <3>3 DEF From
    <3> QED BY <1>4, <2>1, <2>2, <3>2, <3>4
  <2> QED BY <2>4, <2>5
<1>6. ASSUME NEW u \in Thread, NEW x \in mine, x \in Own(u) PROVE FALSE
  <2>1. PICK b \in held[u] : x \in Extent(b.ptr, b.size)
    BY <1>6 DEF Own
  <2>2. x \in Addr /\ Owns(P, B, Has(u, b), x)
    BY <2>1, HeldIs
  <2>3. Owner(Has(u, b)) /\ g # Has(u, b)
    BY OwnersAre, TagsDiffer DEF g
  <2> QED BY <1>2, <1>4, <1>6, <2>2, <2>3, OwnsOnce
<1>7. ASSUME NEW d \in Desc, NEW i \in DOMAIN free_list[d], free_list[d][i] \in mine PROVE FALSE
  <2> DEFINE a == free_list[d][i]
  <2>1. Among(free_list[d], a)
    BY DEF Among
  <2> HIDE DEF a
  <2>2. a \in Addr /\ B[a] = Listed /\ pg_no(a) \in Pages /\ P[pg_no(a)] = Of(d) /\ a \in Blocks(pg_no(a), d)
    BY <2>1, ListHas
  <2>3. a \in Extent(a, BlockSize(d))
    BY <2>2, BlockIn
  <2>4. Owns(P, B, g, a) <=> B[a] = g
    BY <1>4, <2>2, <2>3, BlockOwned
  <2>5. g # Listed
    BY TagsDiffer DEF g
  <2>6. Owns(P, B, g, a)
    BY <1>2, <1>7 DEF a
  <2> QED BY <2>2, <2>4, <2>5, <2>6
<1>8. ASSUME NEW x \in Extent(r.ptr, kept) PROVE mem[x] = Data(t)
  <2>1. CASE r.req.op = "realloc"
    <3>1. kept = Kept(r)
      BY <2>1 DEF kept, Kept
    <3> QED BY <1>1, <1>3, <1>8, <2>1, <3>1 DEF ContentOK
  <2>2. CASE r.req.op # "realloc"
    <3>1. kept = 0
      BY <2>2 DEF kept
    <3>2. r.ptr \in Nat
      BY <1>2, AddrIs
    <3> QED BY <1>8, <3>1, <3>2 DEF Extent
  <2> QED BY <2>1, <2>2
<1>9. r.req.op = "calloc" \/ (r.req.op = "page" /\ r.req.zero) => \A x \in mine : mem[x] = Zero
  BY <1>1, <1>3 DEF ContentOK, mine
<1>10. \A x \in mine : mem[x].kind # "arena"
  BY <1>2
<1> QED BY <1>1, <1>5, <1>6, <1>7, <1>8, <1>9, <1>10 DEF mine, kept

\* The assertions in free and palloc_free_multiple.
LEMMA AssertionsFollow == MemoryInv => AssertionsHold
<1> SUFFICES ASSUME NEW P, NEW B, Owned(P, B), NEW t \in Thread
             PROVE  LET r == frame[t]
                    IN  /\ pc[t] = "free" => mem[Header(r.gone)].kind = "arena"
                        /\ pc[t] = "free lock" => /\ mem[Header(r.gone)].kind = "arena"
                                                  /\ mem[Header(r.gone)].free_cnt < blocks_per_arena(r.desc)
                        /\ pc[t] = "fill" => Extent(pg_no(r.gone), r.cnt) \subseteq used_map
  BY DEF MemoryInv, AssertionsHold, f
<1> DEFINE r == frame[t]
           n == pg_no(r.gone)
<1>1. GoneOK(t, pc[t], r, P, B, mem) /\ Headers(P, mem) /\ Mapped(P, B, used_map, held) /\ Header(r.gone) = page_ptr(n)
  BY ThreadIs, OwnedIs DEF Header
<1> HIDE DEF r, n
<1>2. ASSUME NEW d, NEW s, Small(P, B, d, Gone(t), r.gone, s)
      PROVE  /\ d \in Desc /\ n \in Pages /\ P[n] = Of(d) /\ mem[page_ptr(n)].kind = "arena"
             /\ \A a \in Addr : B[a] = Gone(t) <=> a = r.gone
             /\ r.gone \in Blocks(n, d)
  <2>1. /\ d \in Desc /\ n \in Pages /\ P[n] = Of(d) /\ \A a \in Addr : B[a] = Gone(t) <=> a = r.gone
        /\ r.gone \in Blocks(n, d)
    BY <1>2 DEF Small, n
  <2>2. mem[page_ptr(n)] = Arena(d, mem[page_ptr(n)].free_cnt)
    BY <1>1, <2>1 DEF Headers
  <2> QED BY <2>1, <2>2 DEF Arena
<1>3. ASSUME pc[t] = "free" PROVE mem[page_ptr(n)].kind = "arena"
  <2>1. PICK s \in Nat : Block(P, B, mem, Gone(t), r.gone, s)
    BY <1>1, <1>3 DEF GoneOK
  <2>2. CASE Big(P, B, mem, Gone(t), r.gone, s)
    <3>1. mem[page_ptr(n)] = Arena(0, mem[page_ptr(n)].free_cnt)
      BY <2>2 DEF Big, n
    <3> QED BY <3>1 DEF Arena
  <2>3. CASE \E d \in Desc : Small(P, B, d, Gone(t), r.gone, s)
    BY <1>2, <2>3
  <2> QED BY <2>1, <2>2, <2>3 DEF Block
<1>4. ASSUME pc[t] = "free lock"
      PROVE  mem[page_ptr(n)].kind = "arena" /\ mem[page_ptr(n)].free_cnt < blocks_per_arena(r.desc)
  <2> DEFINE d == r.desc
             c == mem[page_ptr(n)].free_cnt
  <2>1. Small(P, B, d, Gone(t), r.gone, 0)
    BY <1>1, <1>4 DEF GoneOK
  <2> HIDE DEF d
  <2>2. /\ d \in Desc /\ n \in Pages /\ P[n] = Of(d) /\ mem[page_ptr(n)].kind = "arena"
        /\ (\A a \in Addr : B[a] = Gone(t) <=> a = r.gone) /\ r.gone \in Blocks(n, d)
    BY <1>2, <2>1
  <2>3. r.gone \in Addr /\ B[r.gone] = Gone(t) /\ Gone(t) # Listed
    BY <2>2, BlockIn, TagsDiffer
  <2>4. ArenaOK(P, B, mem, pc, frame, desc_lock, free_list, n, d)
    BY <2>2, OwnedIs
  <2>5. CASE Counted(B, mem, n, d)
    <3>1. r.gone \notin ListedOn(B, n, d)
      BY <2>3 DEF ListedOn
    <3>2. ListedOn(B, n, d) # Blocks(n, d)
      BY <2>2, <3>1
    <3>3. c = Cardinality(ListedOn(B, n, d))
      BY <2>5 DEF Counted
    <3>4. blocks_per_arena(d) \in Nat
      BY <2>2, BlockSizes
    <3>5. c \in Nat /\ c <= blocks_per_arena(d) /\ c # blocks_per_arena(d)
      BY <2>2, <3>2, <3>3, ListedCount
    <3> HIDE DEF c
    <3> QED BY <2>2, <3>4, <3>5 DEF c, d
  <2>6. CASE \E u \in Thread : desc_lock[d] = u /\ pc[u] = "unlist" /\ frame[u].desc = d /\ frame[u].gone = page_ptr(n)
    <3>1. PICK u \in Thread : desc_lock[d] = u /\ pc[u] = "unlist" /\ frame[u].desc = d /\ frame[u].gone = page_ptr(n)
      BY <2>6
    <3> DEFINE q == frame[u]
    <3>2. GoneOK(u, "unlist", q, P, B, mem) /\ FrameOK(u, "unlist", q)
      BY <3>1, ThreadIs
    <3>3. q.bit \in Nat
      BY <3>2, AnyFrame
    <3>4. pg_no(q.gone) = n /\ q.desc = d
      BY <2>2, <3>1, PtrAddr
    <3> HIDE DEF q
    <3>5. /\ \A a \in Addr : B[a] = Gone(u) <=> \E i \in 0..(q.bit - 1) : a = BlockAt(n, d, i)
          /\ \A i \in q.bit..(blocks_per_arena(d) - 1) : B[BlockAt(n, d, i)] = Listed
      BY <3>2, <3>4 DEF GoneOK
    <3>6. PICK i \in 0..(blocks_per_arena(d) - 1) : r.gone = BlockAt(n, d, i)
      BY <2>2 DEF Blocks
    <3>7. i \in 0..(q.bit - 1) \/ i \in q.bit..(blocks_per_arena(d) - 1)
      BY <3>3
    <3>8. Gone(u) # Gone(t)
      BY <1>4, <3>1, TagsDiffer
    <3> QED BY <2>3, <3>5, <3>6, <3>7, <3>8
  <2> QED BY <2>2, <2>4, <2>5, <2>6 DEF ArenaOK, d
<1>5. ASSUME pc[t] = "fill" PROVE Extent(n, r.cnt) \subseteq used_map
  <2>1. PagesAre(P, B, Gone(t), n, r.cnt)
    BY <1>1, <1>5 DEF GoneOK, n
  <2>2. /\ n \in Pages /\ r.cnt \in Nat /\ n + r.cnt - 1 <= KernelPages + UserPages
        /\ \A j \in Pages : P[j] = Gone(t) <=> n <= j /\ j < n + r.cnt
    BY <2>1 DEF PagesAre
  <2> SUFFICES ASSUME NEW j \in Extent(n, r.cnt) PROVE j \in used_map
    OBVIOUS
  <2>3. n \in Nat /\ n > 0 /\ KernelPages + UserPages \in Nat
    BY <2>2, PagesNat
  <2>4. j \in Pages /\ n <= j /\ j < n + r.cnt
    BY <2>2, <2>3 DEF Extent, Pages
  <2>5. P[j] # None
    BY <2>2, <2>4, TagsDiffer
  <2> QED BY <1>1, <2>4, <2>5 DEF Mapped
<1> QED BY <1>1, <1>3, <1>4, <1>5 DEF r, n

\* Where a page that belongs to somebody begins with the header of an arena, it is a big
\* block's.
LEMMA BigHeader ==
    ASSUME NEW P, NEW B, NEW m, NEW g, NEW p, NEW s, NEW paged, Given(P, B, m, g, p, s, paged),
           NEW n \in Pages, P[n] = g, m[page_ptr(n)].kind = "arena"
    PROVE  m[page_ptr(n)].desc = 0
<1>1. page_ptr(n) \in Addr /\ pg_no(page_ptr(n)) = n /\ page_ptr(n) # NULL
  BY PtrAddr, AddrIs DEF NULL
<1>2. ~paged
  BY <1>1 DEF Given, Paged, Clean
<1>3. Block(P, B, m, g, p, s)
  BY <1>2 DEF Given
<1>4. \A d \in Desc : ~Small(P, B, d, g, p, s)
  BY DEF Small, NoPage
<1>5. Big(P, B, m, g, p, s)
  BY <1>3, <1>4 DEF Block
<1>6. page_ptr(n) = page_ptr(pg_no(p))
  BY <1>1, <1>5 DEF Big, Clean
<1>7. m[page_ptr(n)] = Arena(0, m[page_ptr(n)].free_cnt)
  BY <1>5, <1>6 DEF Big
<1> QED BY <1>7 DEF Arena

\* A page that begins with the header of an arena of d is one, or it is being given back.
LEMMA ArenaPages ==
    ASSUME NEW P, NEW B, Owned(P, B), NEW d \in Desc, NEW n \in Arenas(d), desc_lock[d] = Nobody
    PROVE  n \in Pages /\ P[n] = Of(d)
<1>1. n \in Pages /\ mem[page_ptr(n)].kind = "arena" /\ mem[page_ptr(n)].desc = d
  BY DEF Arenas
<1>2. page_ptr(n) \in Addr /\ pg_no(page_ptr(n)) = n /\ page_ptr(n) # NULL
  BY <1>1, PtrAddr, AddrIs DEF NULL
<1>3. d # 0
  BY BlockSizes
<1>4. Mapped(P, B, used_map, held) /\ MemOK(P, mem) /\ Headers(P, mem)
  BY OwnedIs
<1>5. P[n] # None
  BY <1>1, <1>2, <1>4 DEF MemOK, Clean
<1>6. ASSUME NEW e \in Desc, P[n] = Of(e) PROVE e = d
  <2>1. mem[page_ptr(n)] = Arena(e, mem[page_ptr(n)].free_cnt)
    BY <1>1, <1>4, <1>6 DEF Headers
  <2> QED BY <1>1, <2>1 DEF Arena
<1>7. ASSUME NEW u \in Thread, NEW b \in held[u], P[n] = Has(u, b) PROVE FALSE
  <2>1. Given(P, B, mem, Has(u, b), b.ptr, b.size, b.paged)
    BY HeldIs
  <2> QED BY <1>1, <1>3, <1>7, <2>1, BigHeader
<1>8. ASSUME NEW u \in Thread, P[n] = New(u) PROVE FALSE
  <2> DEFINE r == frame[u]
             c == pc[u]
  <2>1. FrameOK(u, c, r) /\ AskOK(c, r) /\ NewOK(u, c, r, P, B, mem)
    BY ThreadIs
  <2> HIDE DEF r, c
  <2>2. ~Nothing(P, B, New(u)) /\ ~Clean(P, mem, New(u), NULL)
    BY <1>1, <1>2, <1>8 DEF Nothing, NoPage, Clean
  <2>3. c \notin {"program", "malloc", "get", "scan", "got none", "pop", "flip", "got"}
    BY <2>1, <2>2 DEF NewOK, Paged
  <2>4. c \in {"malloced", "return"} \cup Frees
    BY <2>1, <2>3 DEF FrameOK, Asks
  <2>5. r.ptr # NULL
    BY <2>1, <2>2, <2>4 DEF NewOK, AskOK, Asks
  <2>6. Given(P, B, mem, New(u), r.ptr, Promise(r), r.req.op = "page")
    BY <2>1, <2>4, <2>5 DEF NewOK
  <2> QED BY <1>1, <1>3, <1>8, <2>6, BigHeader
<1>9. ASSUME NEW u \in Thread, P[n] = Gone(u) PROVE FALSE
  <2> DEFINE r == frame[u]
             c == pc[u]
             g == Gone(u)
  <2>1. FrameOK(u, c, r) /\ GoneOK(u, c, r, P, B, mem) /\ LockOK(u, c, r, used_map, pool_lock, desc_lock, free_list)
    BY ThreadIs
  <2> HIDE DEF r, c, g
  <2>2. ~Nothing(P, B, g) /\ ~Clean(P, mem, g, NULL) /\ ~NoPage(P, g)
    BY <1>1, <1>2, <1>9 DEF Nothing, NoPage, Clean, g
  <2>3. c \notin {"program", "freed", "return"} \cup Asks /\ c # "clear" /\ c # "unlist"
    BY <2>1, <2>2 DEF GoneOK, g
  <2>4. c \in {"free", "free lock", "fill"}
    BY <2>1, <2>3 DEF FrameOK, Frees
  <2>5. \A e, s : ~Small(P, B, e, g, r.gone, s)
    BY <2>2 DEF Small
  <2>6. c # "free lock"
    BY <2>1, <2>5 DEF GoneOK, g
  <2>7. CASE c = "free"
    <3>1. PICK s \in Nat : Block(P, B, mem, g, r.gone, s)
      BY <2>1, <2>7 DEF GoneOK, g
    <3>2. Big(P, B, mem, g, r.gone, s)
      BY <2>5, <3>1 DEF Block
    <3>3. page_ptr(n) = page_ptr(pg_no(r.gone))
      BY <1>1, <1>2, <1>9, <3>2 DEF Big, Clean, g
    <3>4. mem[page_ptr(n)] = Arena(0, mem[page_ptr(n)].free_cnt)
      BY <3>2, <3>3 DEF Big
    <3> QED BY <1>1, <1>3, <3>4 DEF Arena
  <2>8. CASE c = "fill"
    <3>1. mem[page_ptr(n)].desc = r.desc
      BY <1>1, <1>2, <1>9, <2>1, <2>8 DEF GoneOK, g
    <3>2. desc_lock[d] = u
      BY <1>1, <1>3, <2>1, <2>8, <3>1 DEF LockOK, Releases
    <3> QED BY <3>2, NobodyIs
  <2> QED BY <2>4, <2>6, <2>7, <2>8
<1> QED BY <1>1, <1>4, <1>5, <1>6, <1>7, <1>8, <1>9 DEF Mapped, Tag

LEMMA BooksFollow == MemoryInv => BooksRight
<1> SUFFICES ASSUME MemoryInv, NEW d \in Desc, desc_lock[d] = Nobody
             PROVE  /\ \A i \in DOMAIN free_list[d] : pg_no(free_list[d][i]) \in Arenas(d)
                    /\ \A i, j \in DOMAIN free_list[d] : i # j => free_list[d][i] # free_list[d][j]
                    /\ \A n \in Arenas(d) :
                        /\ mem[page_ptr(n)].free_cnt =
                              Cardinality({i \in DOMAIN free_list[d] : pg_no(free_list[d][i]) = n})
                        /\ mem[page_ptr(n)].free_cnt < blocks_per_arena(d)
                        /\ n \in used_map
  BY AssertionsFollow DEF BooksRight
<1>0. PICK P, B : Owned(P, B)
  BY DEF MemoryInv
<1> DEFINE s == free_list[d]
<1>1. Mapped(P, B, used_map, held) /\ Headers(P, mem) /\ ListsOK(P, B, free_list)
  BY <1>0, OwnedIs
<1>2. Once(s) /\ s \in Seq(Addr) /\ \A a \in Addr : Among(s, a) <=> B[a] = Listed /\ P[pg_no(a)] = Of(d)
  BY <1>1, ListsAre
<1> HIDE DEF s
<1>3. ASSUME NEW i \in DOMAIN s
      PROVE  s[i] \in Addr /\ B[s[i]] = Listed /\ pg_no(s[i]) \in Pages /\ P[pg_no(s[i])] = Of(d) /\ s[i] \in Blocks(pg_no(s[i]), d)
  <2>1. Among(free_list[d], s[i])
    BY DEF Among, s
  <2> QED BY <1>0, <2>1, ListHas
<1>4. ASSUME NEW i \in DOMAIN s PROVE pg_no(s[i]) \in Arenas(d)
  <2>1. pg_no(s[i]) \in Pages /\ P[pg_no(s[i])] = Of(d)
    BY <1>3
  <2>2. mem[page_ptr(pg_no(s[i]))] = Arena(d, mem[page_ptr(pg_no(s[i]))].free_cnt)
    BY <1>1, <2>1 DEF Headers
  <2>3. mem[page_ptr(pg_no(s[i]))].kind = "arena" /\ mem[page_ptr(pg_no(s[i]))].desc = d
    BY <2>2 DEF Arena
  <2> QED BY <2>1, <2>3 DEF Arenas
<1>5. ASSUME NEW i \in DOMAIN s, NEW j \in DOMAIN s, i # j PROVE s[i] # s[j]
  BY <1>2, <1>5 DEF Once
<1>6. ASSUME NEW n \in Arenas(d)
      PROVE  /\ mem[page_ptr(n)].free_cnt = Cardinality({i \in DOMAIN s : pg_no(s[i]) = n})
             /\ mem[page_ptr(n)].free_cnt < blocks_per_arena(d) /\ n \in used_map
  <2>1. n \in Pages /\ P[n] = Of(d)
    BY <1>0, ArenaPages
  <2>2. ArenaOK(P, B, mem, pc, frame, desc_lock, free_list, n, d)
    BY <1>0, <2>1, OwnedIs
  <2>3. Counted(B, mem, n, d) /\ mem[page_ptr(n)].free_cnt < blocks_per_arena(d)
    BY <2>2, NobodyIs DEF ArenaOK
  <2>4. n \in used_map
    BY <1>1, <2>1, TagsDiffer DEF Mapped
  <2> DEFINE S == {i \in DOMAIN s : pg_no(s[i]) = n}
             T == ListedOn(B, n, d)
             h == [a \in T |-> CHOOSE i \in DOMAIN s : s[i] = a]
  <2>5. ASSUME NEW a \in T PROVE h[a] \in S /\ s[h[a]] = a
    <3>1. a \in Blocks(n, d) /\ B[a] = Listed
      BY DEF ListedOn
    <3>2. a \in Addr /\ pg_no(a) = n
      BY <2>1, <3>1, BlockIn
    <3>3. Among(s, a)
      BY <1>2, <2>1, <3>1, <3>2
    <3>4. h[a] \in DOMAIN s /\ s[h[a]] = a
      BY <3>3 DEF Among
    <3> QED BY <3>2, <3>4
  <2>6. ASSUME NEW i \in S PROVE \E a \in T : h[a] = i
    <3>1. i \in DOMAIN s /\ pg_no(s[i]) = n
      OBVIOUS
    <3>2. s[i] \in T
      BY <1>3, <3>1 DEF ListedOn
    <3>3. h[s[i]] \in DOMAIN s /\ s[h[s[i]]] = s[i]
      BY <2>5, <3>2
    <3>4. h[s[i]] = i
      BY <1>5, <3>1, <3>3
    <3> QED BY <3>2, <3>4
  <2>7. h \in Bijection(T, S)
    <3>1. h \in [T -> S]
      BY <2>5
    <3>2. \A a, b \in T : h[a] = h[b] => a = b
      BY <2>5
    <3>3. \A i \in S : \E a \in T : h[a] = i
      BY <2>6
    <3> HIDE DEF h, S, T
    <3> QED BY <3>1, <3>2, <3>3, Fun_IsBij
  <2>8. ExistsBijection(T, S)
    BY <2>7 DEF ExistsBijection
  <2>9. IsFiniteSet(T)
    BY <2>1, ListedCount
  <2> HIDE DEF h, S, T
  <2>10. Cardinality(S) = Cardinality(T)
    BY <2>8, <2>9, FS_Bijection
  <2> QED BY <2>3, <2>4, <2>10 DEF Counted, S, T
<1> QED BY <1>4, <1>5, <1>6 DEF s

\* Something of what is in each page of what a program has belongs to it.
LEMMA PageHasSome ==
    ASSUME NEW P, NEW B, NEW m, NEW g, NEW p, NEW s, NEW paged, Given(P, B, m, g, p, s, paged),
           NEW n \in Pages, P[n] = g
    PROVE  \E x \in Extent(p, s) : pg_no(x) = n
<1>1. p \in Nat /\ s \in Nat /\ s > 0
  BY DEF Given
<1>2. page_ptr(n) \in Addr /\ page_ptr(n) \in Nat /\ pg_no(page_ptr(n)) = n
  BY PtrAddr, AddrIs
<1>3. CASE paged
  <2>1. PICK k \in Nat : s = k * PGSIZE /\ Paged(P, B, m, g, p, k)
    BY <1>3 DEF Given
  <2>2. PagesAre(P, B, g, pg_no(p), k) /\ p = page_ptr(pg_no(p))
    BY <2>1 DEF Paged
  <2>3. /\ pg_no(p) \in Pages /\ pg_no(p) + k - 1 <= KernelPages + UserPages
        /\ pg_no(p) <= n /\ n < pg_no(p) + k
    BY <2>2 DEF PagesAre
  <2>4. page_ptr(n) \in Extent(page_ptr(pg_no(p)), k * PGSIZE)
    BY <1>2, <2>3, PagesExtent
  <2> QED BY <1>2, <2>1, <2>2, <2>4
<1>4. CASE ~paged
  <2>1. Block(P, B, m, g, p, s)
    BY <1>4 DEF Given
  <2>2. Big(P, B, m, g, p, s)
    BY <2>1 DEF Block, Small, NoPage
  <2> DEFINE q == pg_no(p)
             k == m[page_ptr(q)].free_cnt
  <2>3. /\ p = page_ptr(q) + ArenaSize /\ q \in Pages /\ k \in Nat /\ q <= n /\ n < q + k
        /\ k * PGSIZE < ArenaSize + s + PGSIZE
    BY <2>2 DEF Big, PagesAre
  <2> HIDE DEF q, k
  <2>4. CASE n = q
    <3>1. p \in Extent(p, s)
      BY <1>1 DEF Extent
    <3> QED BY <2>4, <3>1 DEF q
  <2>5. CASE n # q
    <3>1. q \in Nat /\ n \in Nat /\ q < n /\ n + 1 <= q + k
      BY <2>3, <2>5, PagesNat
    <3>2. page_ptr(q) \in Nat /\ page_ptr(q) + PGSIZE <= page_ptr(n)
      BY <3>1, Ptr, PtrOrder
    <3>3. page_ptr(n) + PGSIZE <= page_ptr(q + k) /\ page_ptr(q + k) = page_ptr(q) + k * PGSIZE /\ k * PGSIZE \in Nat
      BY <2>3, <3>1, PtrOrder, PtrSum
    <3>4. ArenaSize \in Nat /\ PGSIZE \in Nat /\ ArenaSize < PGSIZE
      BY Sizes
    <3>5. p <= page_ptr(n) /\ page_ptr(n) <= p + s - 1
      BY <1>1, <1>2, <2>3, <3>2, <3>3, <3>4
    <3>6. page_ptr(n) \in Extent(p, s)
      BY <1>1, <1>2, <3>5 DEF Extent
    <3> QED BY <1>2, <3>6
  <2> QED BY <2>4, <2>5
<1> QED BY <1>3, <1>4

LEMMA PagesFollow == MemoryInv => NoPageLost
<1> SUFFICES ASSUME NEW P, NEW B, Owned(P, B), \A t \in Thread : pc[t] = "program"
             PROVE  used_map = {pg_no(x) : x \in UNION {Own(t) : t \in Thread}}
  BY DEF MemoryInv, NoPageLost
<1>1. Mapped(P, B, used_map, held) /\ ContentsKept
  BY OwnedIs, ContentsFollow DEF MemoryInv
<1>2. \A x \in UNION {Own(t) : t \in Thread} : pg_no(x) \in used_map
  BY <1>1 DEF ContentsKept
<1>3. \A t \in Thread : Nothing(P, B, New(t)) /\ Nothing(P, B, Gone(t))
  BY ThreadIs DEF NewOK, GoneOK
<1>4. ASSUME NEW n \in used_map PROVE \E t \in Thread : \E b \in held[t] : \E x \in Extent(b.ptr, b.size) : pg_no(x) = n
  <2>1. n \in Pages /\ P[n] # None
    BY <1>1 DEF Mapped
  <2>2. CASE \E d \in Desc : P[n] = Of(d)
    <3>1. PICK d \in Desc : P[n] = Of(d)
      BY <2>2
    <3>2. ArenaOK(P, B, mem, pc, frame, desc_lock, free_list, n, d)
      BY <2>1, <3>1, OwnedIs
    <3>3. Counted(B, mem, n, d) /\ mem[page_ptr(n)].free_cnt < blocks_per_arena(d)
      BY <3>2 DEF ArenaOK
    <3>4. Cardinality(ListedOn(B, n, d)) < Cardinality(Blocks(n, d))
      BY <2>1, <3>3, BlocksCount DEF Counted
    <3>5. ListedOn(B, n, d) # Blocks(n, d)
      <4>1. Cardinality(Blocks(n, d)) \in Nat
        BY <2>1, BlocksCount, BlockSizes
      <4> QED BY <3>4, <4>1
    <3>6. PICK a \in Blocks(n, d) : B[a] # Listed
      BY <3>5 DEF ListedOn
    <3>7. a \in Addr /\ pg_no(a) = n
      BY <2>1, BlockIn
    <3>8. B[a] # None
      BY <1>1, <3>1, <3>7 DEF Mapped
    <3>9. PICK t \in Thread : B[a] = New(t) \/ B[a] = Gone(t) \/ \E b \in held[t] : B[a] = Has(t, b)
      BY <1>1, <3>6, <3>7, <3>8 DEF Mapped, Tag
    <3>10. PICK b \in held[t] : B[a] = Has(t, b)
      BY <1>3, <3>7, <3>9 DEF Nothing, NoBlock
    <3>11. /\ Given(P, B, mem, Has(t, b), b.ptr, b.size, b.paged) /\ b.ptr \in Extent(b.ptr, b.size)
      BY HeldIs
    <3>12. a = b.ptr
      BY <3>7, <3>10, <3>11 DEF Given, Paged, Block, Big, Small, PagesAre, NoBlock
    <3> QED BY <3>7, <3>11, <3>12
  <2>3. CASE Tag(held, P[n])
    <3>1. PICK t \in Thread : P[n] = New(t) \/ P[n] = Gone(t) \/ \E b \in held[t] : P[n] = Has(t, b)
      BY <2>3 DEF Tag
    <3>2. PICK b \in held[t] : P[n] = Has(t, b)
      BY <1>3, <2>1, <3>1 DEF Nothing, NoPage
    <3>3. Given(P, B, mem, Has(t, b), b.ptr, b.size, b.paged)
      BY HeldIs
    <3> QED BY <2>1, <3>2, <3>3, PageHasSome
  <2> QED BY <1>1, <2>1, <2>2, <2>3 DEF Mapped
<1>5. ASSUME NEW n \in used_map PROVE \E x \in UNION {Own(t) : t \in Thread} : pg_no(x) = n
  BY <1>4 DEF Own
<1> QED BY <1>2, <1>5

\* What a program wrote into memory it was given stays there until it gives the memory
\* back, whatever the other threads allocate, free, zero or copy in the meantime.
THEOREM ContentsAreKept == SizesFit => (Spec => []ContentsKept)
BY EverythingOwned, ContentsFollow, PTL

\* What a call returns is inside what was given to that caller, as large as it asked for,
\* shared with no other caller, zeroed by calloc and PAL_ZERO and with the old contents
\* after realloc.
THEOREM CallersAreServed == SizesFit => (Spec => []CallerServed)
BY EverythingOwned, ServedFollow, PTL

\* The assertions of malloc.c and palloc.c hold where they stand; and while nobody has the
\* lock of a descriptor, its free list has each block once, all in arenas of its own, and
\* an arena's free_cnt is the number of its blocks there.
THEOREM BooksAreRight == SizesFit => (Spec => []BooksRight)
BY EverythingOwned, BooksFollow, PTL

\* When no call is under way, every page marked in a pool's bitmap is a page with blocks
\* in use or belongs to what some program was given.
THEOREM NoPageIsLost == SizesFit => (Spec => []NoPageLost)
BY EverythingOwned, PagesFollow, PTL

=============================================================================

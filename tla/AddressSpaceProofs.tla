------------------------- MODULE AddressSpaceProofs -------------------------
(***************************************************************************)
(* Loading gives a program the memory its executable describes, loses no   *)
(* frame, and the checks of the system calls accept what they should, for  *)
(* every word and page size, every executable and every layout of memory.  *)
(***************************************************************************)
EXTENDS AddressSpaceProperties, FiniteSetTheorems, WellFoundedInduction, TLAPS

-----------------------------------------------------------------------------
(* Pages.                                                                  *)

LEMMA Sizes ==
    /\ PGSIZE \in Nat /\ PGSIZE > 0 /\ PHYS_BASE \in Nat /\ Word \in Nat
    /\ TableSpan \in Nat /\ TableSpan > 0
    /\ PGSIZE < PHYS_BASE /\ PHYS_BASE + 8 <= Word
    /\ PHYS_BASE % PGSIZE = 0 /\ Word % PGSIZE = 0
BY AddressSpaceAssumption

\* The words that are not negative as ints.
LEMMA Half ==
    /\ Word \div 2 \in Nat /\ 2 * (Word \div 2) <= Word /\ Word <= 2 * (Word \div 2) + 1
    /\ PGSIZE + 12 <= Word \div 2
BY AddressSpaceAssumption

\* From one multiple to a later one is at least one step.
LEMMA Multiples ==
    ASSUME NEW P \in Nat, NEW q \in Nat, NEW m \in Nat, q < m
    PROVE  P * q + P <= P * m
<1> DEFINE d == m - q - 1
<1>1. d \in Nat /\ m = q + 1 + d
  OBVIOUS
<1> HIDE DEF d
<1>2. P * m = P * q + P + P * d
  BY <1>1
<1>3. P * d \in Nat /\ P * q \in Nat
  BY <1>1
<1> QED BY <1>2, <1>3

\* An address is its page and the offset in it.
LEMMA PageOf ==
    ASSUME NEW a \in Nat
    PROVE  /\ pg_no(a) \in Nat /\ pg_ofs(a) \in Nat /\ pg_ofs(a) < PGSIZE
           /\ a = PGSIZE * pg_no(a) + pg_ofs(a)
           /\ pg_round_down(a) = PGSIZE * pg_no(a)
           /\ pg_round_down(a) \in Nat /\ pg_round_down(a) <= a
           /\ a < pg_round_down(a) + PGSIZE
<1>1. /\ pg_no(a) \in Nat /\ pg_ofs(a) \in Nat /\ pg_ofs(a) < PGSIZE
      /\ a = PGSIZE * pg_no(a) + pg_ofs(a)
  BY Sizes DEF pg_no, pg_ofs
<1>2. pg_round_down(a) = a - pg_ofs(a) /\ PGSIZE * pg_no(a) \in Nat
  BY <1>1, Sizes DEF pg_round_down
<1> QED BY <1>1, <1>2, Sizes

\* A number is in one way a multiple and a rest.
LEMMA OneWay ==
    ASSUME NEW q \in Nat, NEW m \in Nat, NEW r \in Nat, NEW s \in Nat,
           r < PGSIZE, s < PGSIZE, PGSIZE * q + r = PGSIZE * m + s
    PROVE  q = m /\ r = s
<1>0. PGSIZE \in Nat /\ PGSIZE * q \in Nat /\ PGSIZE * m \in Nat
  BY Sizes
<1>1. CASE q < m
  BY <1>0, <1>1, Multiples
<1>2. CASE m < q
  BY <1>0, <1>2, Multiples
<1>3. CASE q = m
  BY <1>0, <1>3
<1> QED BY <1>1, <1>2, <1>3

\* The page that begins at b.
LEMMA SamePage ==
    ASSUME NEW a \in Nat, NEW b \in Nat, pg_ofs(b) = 0
    PROVE  /\ pg_no(a) = pg_no(b) <=> b <= a /\ a < b + PGSIZE
           /\ pg_no(a) = pg_no(b) => pg_ofs(a) = a - b
<1>1. /\ pg_no(a) \in Nat /\ pg_no(b) \in Nat /\ pg_ofs(a) \in Nat /\ pg_ofs(a) < PGSIZE
      /\ a = PGSIZE * pg_no(a) + pg_ofs(a) /\ b = PGSIZE * pg_no(b) + 0
  BY PageOf
<1>2. PGSIZE \in Nat /\ PGSIZE > 0 /\ PGSIZE * pg_no(b) \in Nat
  BY <1>1, Sizes
<1>3. ASSUME pg_no(a) = pg_no(b) PROVE b <= a /\ a < b + PGSIZE /\ pg_ofs(a) = a - b
  BY <1>1, <1>2, <1>3
<1>4. ASSUME b <= a, a < b + PGSIZE PROVE pg_no(a) = pg_no(b)
  <2>1. a = PGSIZE * pg_no(b) + (a - b) /\ a - b \in Nat /\ a - b < PGSIZE
    BY <1>1, <1>2, <1>4
  <2> HIDE DEF pg_no, pg_ofs
  <2> QED BY <1>1, <2>1, OneWay
<1> QED BY <1>3, <1>4

\* Multiples of the page size begin a page.
LEMMA Aligned ==
    ASSUME NEW b \in Nat, pg_ofs(b) = 0
    PROVE  /\ pg_ofs(b + PGSIZE) = 0 /\ b + PGSIZE \in Nat
           /\ pg_no(b + PGSIZE) = pg_no(b) + 1
           /\ pg_round_down(b) = b
<1>1. /\ pg_no(b) \in Nat /\ b = PGSIZE * pg_no(b) + 0 /\ b + PGSIZE \in Nat
      /\ PGSIZE \in Nat /\ PGSIZE > 0
  BY PageOf, Sizes
<1>2. b + PGSIZE = PGSIZE * (pg_no(b) + 1) + 0
  BY <1>1
<1>3. /\ pg_no(b + PGSIZE) \in Nat /\ pg_ofs(b + PGSIZE) \in Nat /\ pg_ofs(b + PGSIZE) < PGSIZE
      /\ b + PGSIZE = PGSIZE * pg_no(b + PGSIZE) + pg_ofs(b + PGSIZE)
  BY <1>1, PageOf
<1>4. pg_no(b) + 1 \in Nat
  BY <1>1
<1>5. pg_no(b + PGSIZE) = pg_no(b) + 1 /\ pg_ofs(b + PGSIZE) = 0
  <2> DEFINE m == pg_no(b) + 1
             q == pg_no(b + PGSIZE)
             r == pg_ofs(b + PGSIZE)
  <2>1. m \in Nat /\ q \in Nat /\ r \in Nat /\ r < PGSIZE /\ 0 \in Nat /\ 0 < PGSIZE
    BY <1>1, <1>3, <1>4
  <2>2. PGSIZE * q + r = PGSIZE * m + 0
    BY <1>2, <1>3
  <2> HIDE DEF m, q, r
  <2>3. q = m /\ r = 0
    BY <2>1, <2>2, OneWay
  <2> QED BY <2>3 DEF m, q, r
<1>6. pg_round_down(b) = b
  BY <1>1 DEF pg_round_down
<1> QED BY <1>1, <1>5, <1>6

LEMMA RoundedDown ==
    ASSUME NEW a \in Nat PROVE pg_ofs(pg_round_down(a)) = 0 /\ pg_no(pg_round_down(a)) = pg_no(a)
<1> DEFINE b == pg_round_down(a)
<1>1. b \in Nat /\ b = PGSIZE * pg_no(a) + 0 /\ pg_no(a) \in Nat
  BY PageOf, Sizes
<1>2. /\ pg_no(b) \in Nat /\ pg_ofs(b) \in Nat /\ pg_ofs(b) < PGSIZE
      /\ b = PGSIZE * pg_no(b) + pg_ofs(b)
  BY <1>1, PageOf
<1> HIDE DEF b
<1> QED BY <1>1, <1>2, Sizes, OneWay DEF b

\* Of numbers of which each is a page size or more, rounded up to pages.
LEMMA RoundedUp ==
    ASSUME NEW n \in Nat
    PROVE  /\ ROUND_UP(n) \in Nat /\ pg_ofs(ROUND_UP(n)) = 0
           /\ n <= ROUND_UP(n) /\ ROUND_UP(n) < n + PGSIZE
<1> DEFINE m == n + PGSIZE - 1
           q == m \div PGSIZE
<1>1. m \in Nat /\ PGSIZE \in Nat /\ PGSIZE > 0
  BY Sizes
<1>2. /\ pg_no(m) \in Nat /\ pg_ofs(m) \in Nat /\ pg_ofs(m) < PGSIZE
      /\ m = PGSIZE * pg_no(m) + pg_ofs(m) /\ pg_round_down(m) = PGSIZE * pg_no(m)
      /\ pg_round_down(m) \in Nat
  BY <1>1, PageOf
<1>3. ROUND_UP(n) = pg_round_down(m)
  BY <1>1, <1>2 DEF ROUND_UP, pg_no
<1>4. pg_ofs(pg_round_down(m)) = 0
  BY <1>1, RoundedDown
<1>5. n <= pg_round_down(m) /\ pg_round_down(m) < n + PGSIZE
  BY <1>1, <1>2
<1> QED BY <1>2, <1>3, <1>4, <1>5

LEMMA WholePages ==
    ASSUME NEW n \in Nat, pg_ofs(n) = 0, n > 0
    PROVE  n >= PGSIZE /\ n - PGSIZE \in Nat /\ pg_ofs(n - PGSIZE) = 0
<1>1. /\ pg_no(n) \in Nat /\ n = PGSIZE * pg_no(n) + 0 /\ PGSIZE \in Nat /\ PGSIZE > 0
  BY PageOf, Sizes
<1>2. pg_no(n) # 0
  BY <1>1
<1>3. n >= PGSIZE
  <2>1. 0 \in Nat /\ 0 < pg_no(n)
    BY <1>1, <1>2
  <2>2. PGSIZE * 0 + PGSIZE <= PGSIZE * pg_no(n)
    BY <1>1, <2>1, Multiples
  <2> QED BY <1>1, <2>2
<1> DEFINE m == n - PGSIZE
           r == pg_ofs(m)
           k == pg_no(m)
<1>4. m \in Nat
  BY <1>1, <1>3
<1>5. k \in Nat /\ r \in Nat /\ r < PGSIZE /\ m = PGSIZE * k + r
  BY <1>4, PageOf
<1>6. n = PGSIZE * (k + 1) + r /\ k + 1 \in Nat
  <2> HIDE DEF k, r
  <2>1. n = m + PGSIZE
    BY <1>1
  <2> HIDE DEF m
  <2> QED BY <1>1, <1>5, <2>1
<1>7. r = 0
  <2> DEFINE l == k + 1
             g == pg_no(n)
  <2>1. l \in Nat /\ g \in Nat /\ PGSIZE * g + 0 = PGSIZE * l + r /\ 0 \in Nat /\ 0 < PGSIZE
    BY <1>1, <1>6
  <2> HIDE DEF l, g, r
  <2> QED BY <1>5, <2>1, OneWay
<1> QED BY <1>3, <1>4, <1>7

-----------------------------------------------------------------------------
(* Frames.                                                                 *)

\* What is out of the pools can be counted, and a page has a page table.
FramesInv ==
    /\ user_free \in Nat /\ kernel_free \in Nat
    /\ pagedir \in {0, 1} /\ (pc = "create" => pagedir = 0)
    /\ IsFiniteSet(tables) /\ IsFiniteSet(DOMAIN pages)
    /\ \A n \in DOMAIN pages : n \div TableSpan \in tables

\* What one step may do to the frames.
FramesKept ==
    /\ user_free' + Cardinality(DOMAIN pages') = user_free + Cardinality(DOMAIN pages)
    /\ kernel_free' + pagedir' + Cardinality(tables') =
         kernel_free + pagedir + Cardinality(tables)

LEMMA PresentIs ==
    ASSUME FramesInv, NEW a PROVE Present(a) <=> pg_no(a) \in DOMAIN pages
BY DEF FramesInv, Present, pd_no

\* The two ways Install can end.
Fails(then) == pc' = "failed" /\ UNCHANGED <<tables, pages, user_free, kernel_free>>
Page(contents, writable) == [bytes |-> contents, writable |-> writable]
Maps(upage, contents, writable, then) ==
    /\ pg_no(upage) \notin DOMAIN pages
    /\ pc' = then
    /\ tables' = tables \cup {pd_no(upage)}
    /\ pages' = [p \in DOMAIN pages \cup {pg_no(upage)} |->
                   IF p = pg_no(upage) THEN Page(contents, writable) ELSE pages[p]]

LEMMA InstallIs ==
    ASSUME FramesInv, NEW u, NEW c, NEW w, NEW then, Install(u, c, w, then)
    PROVE  \/ Fails(then)
           \/ /\ Maps(u, c, w, then)
              /\ user_free > 0 /\ user_free' = user_free - 1
              /\ IF pd_no(u) \in tables THEN kernel_free' = kernel_free
                 ELSE kernel_free > 0 /\ kernel_free' = kernel_free - 1
<1> DEFINE table == IF pd_no(u) \in tables THEN 0 ELSE 1
<1>1. CASE user_free = 0 \/ Present(u) \/ kernel_free < table
  BY <1>1 DEF Install, Fails
<1>2. CASE ~(user_free = 0 \/ Present(u) \/ kernel_free < table)
  <2>1. pg_no(u) \notin DOMAIN pages
    BY <1>2, PresentIs
  <2>2. /\ pc' = then /\ tables' = tables \cup {pd_no(u)}
        /\ pages' = [p \in DOMAIN pages \cup {pg_no(u)} |->
                       IF p = pg_no(u) THEN [bytes |-> c, writable |-> w] ELSE pages[p]]
        /\ user_free' = user_free - 1 /\ kernel_free' = kernel_free - table
    BY <1>2 DEF Install
  <2>3. user_free > 0 /\ kernel_free \in Nat /\ kernel_free >= table
    BY <1>2 DEF FramesInv
  <2>4. IF pd_no(u) \in tables THEN kernel_free' = kernel_free
        ELSE kernel_free > 0 /\ kernel_free' = kernel_free - 1
    BY <2>2, <2>3
  <2> QED BY <2>1, <2>2, <2>3, <2>4 DEF Maps, Page
<1> QED BY <1>1, <1>2

LEMMA InstallFrames ==
    ASSUME FramesInv, NEW u, NEW c, NEW w, NEW then, Install(u, c, w, then),
           then # "create", pagedir' = pagedir
    PROVE  FramesInv' /\ FramesKept
<1>1. CASE Fails(then)
  BY <1>1 DEF Fails, FramesInv, FramesKept
<1>2. CASE Maps(u, c, w, then)
  <2>0. ~Fails(then) => 
           /\ user_free > 0 /\ user_free' = user_free - 1
           /\ IF pd_no(u) \in tables THEN kernel_free' = kernel_free
              ELSE kernel_free > 0 /\ kernel_free' = kernel_free - 1
    BY InstallIs
  <2>1. CASE Fails(then)
    BY <1>1, <2>1
  <2>2. CASE ~Fails(then)
    <3>1. /\ DOMAIN pages' = DOMAIN pages \cup {pg_no(u)} /\ pg_no(u) \notin DOMAIN pages
          /\ tables' = tables \cup {pd_no(u)} /\ pc' = then
      BY <1>2 DEF Maps
    <3>2. /\ IsFiniteSet(DOMAIN pages') /\ Cardinality(DOMAIN pages) \in Nat
          /\ Cardinality(DOMAIN pages') = Cardinality(DOMAIN pages) + 1
      BY <3>1, FS_AddElement, FS_CardinalityType DEF FramesInv
    <3>3. /\ IsFiniteSet(tables') /\ Cardinality(tables) \in Nat
          /\ Cardinality(tables') = Cardinality(tables) + (IF pd_no(u) \in tables THEN 0 ELSE 1)
      BY <3>1, FS_AddElement, FS_CardinalityType DEF FramesInv
    <3>4. \A n \in DOMAIN pages' : n \div TableSpan \in tables'
      BY <3>1 DEF FramesInv, pd_no
    <3>5. user_free' \in Nat /\ kernel_free' \in Nat /\ pagedir' \in {0, 1}
      BY <2>0, <2>2 DEF FramesInv
    <3>6. FramesKept
      BY <2>0, <2>2, <3>2, <3>3 DEF FramesInv, FramesKept
    <3> QED BY <3>1, <3>2, <3>3, <3>4, <3>5, <3>6 DEF FramesInv
  <2> QED BY <2>1, <2>2
<1> QED BY <1>1, <1>2, InstallIs

LEMMA FramesInit == Init => FramesInv
<1> SUFFICES ASSUME Init PROVE FramesInv
  OBVIOUS
<1>1. tables = {} /\ DOMAIN pages = {} /\ pagedir = 0
  BY DEF Init
<1>2. user_free \in Nat /\ kernel_free \in Nat
  BY AddressSpaceAssumption DEF Init
<1> QED BY <1>1, <1>2, FS_EmptySet DEF FramesInv

LEMMA FramesNext == FramesInv /\ [Next]_vars => FramesInv' /\ [FramesKept]_vars
<1> SUFFICES ASSUME FramesInv, [Next]_vars PROVE FramesInv' /\ [FramesKept]_vars
  OBVIOUS
<1>1. CASE Create
  BY <1>1 DEF Create, FramesInv, FramesKept
<1>2. CASE SetupStack
  <2>1. pagedir' = pagedir
    BY <1>2 DEF SetupStack
  <2> QED BY <1>2, <2>1, InstallFrames DEF SetupStack
<1>3. CASE Open \/ ReadHeader \/ Loaded
  <2>1. UNCHANGED <<pagedir, tables, pages, user_free, kernel_free>> /\ pc' # "create"
    BY <1>3 DEF Open, ReadHeader, Loaded, space
  <2> QED BY <2>1 DEF FramesInv, FramesKept
<1>4. CASE LoadPage
  <2>1. pagedir' = pagedir
    BY <1>4 DEF LoadPage
  <2>2. \/ pc' = "failed" /\ UNCHANGED <<tables, pages, user_free, kernel_free>>
        \/ \E u, c, w : \E then \in {"headers", "segment"} : Install(u, c, w, then)
    BY <1>4 DEF LoadPage
  <2>3. CASE pc' = "failed" /\ UNCHANGED <<tables, pages, user_free, kernel_free>>
    BY <2>1, <2>3 DEF FramesInv, FramesKept
  <2> QED BY <2>1, <2>2, <2>3, InstallFrames
<1>5. CASE Destroy
  <2>1. /\ pc' = "gone" /\ pagedir' = 0 /\ tables' = {} /\ DOMAIN pages' = {}
        /\ user_free' = user_free + Cardinality(DOMAIN pages)
        /\ kernel_free' = kernel_free + Cardinality(tables) + pagedir
    BY <1>5 DEF Destroy
  <2>2. Cardinality(DOMAIN pages) \in Nat /\ Cardinality(tables) \in Nat
    BY FS_CardinalityType DEF FramesInv
  <2>3. IsFiniteSet({}) /\ Cardinality({}) = 0
    BY FS_EmptySet
  <2>4. FramesKept
    BY <2>1, <2>2, <2>3 DEF FramesInv, FramesKept
  <2>5. user_free' \in Nat /\ kernel_free' \in Nat
    BY <2>1, <2>2 DEF FramesInv
  <2> QED BY <2>1, <2>3, <2>4, <2>5 DEF FramesInv
<1>6. CASE UNCHANGED vars
  BY <1>6 DEF vars, FramesInv
<1> QED BY <1>1, <1>2, <1>3, <1>4, <1>5, <1>6 DEF Next

\* However far load comes and whatever it fails on, no frame is lost or given back twice.
THEOREM NoFrameIsLost == Spec => NoFrameLost
<1>1. Spec => [][FramesKept]_vars
  BY FramesInit, FramesNext, PTL DEF Spec
<1> QED BY <1>1 DEF NoFrameLost, FramesKept

-----------------------------------------------------------------------------
(* The image of a program.                                                 *)

Base(p) == pg_round_down(p.vaddr)

\* What the byte at address a should be, counted from the page the segment begins in.
SegByte(p, a) ==
    IF a - Base(p) < Segment(p).read THEN FileByte(pg_round_down(p.offset) + (a - Base(p))) ELSE 0

Holds(p, a) ==
    /\ pg_no(a) \in DOMAIN pages
    /\ Byte(a) = SegByte(p, a) /\ pages[pg_no(a)].writable = p.writable

\* The pages of p are there, as far as the address end.
Built(p, end) == \A a \in Nat : Base(p) <= a /\ a < end => Holds(p, a)

\* How far load_segment has come with p.
Progress(p, s) ==
    /\ s \in [ofs : Int, upage : Nat, read : Nat, left : Nat, writable : {p.writable}]
    /\ pg_ofs(s.upage) = 0 /\ Base(p) <= s.upage
    /\ s.left > 0 /\ pg_ofs(s.left) = 0
    /\ s.upage + s.left = Base(p) + Segment(p).left
    /\ s.read = IF Segment(p).read > s.upage - Base(p)
                THEN Segment(p).read - (s.upage - Base(p)) ELSE 0
    /\ s.read > 0 => s.ofs = pg_round_down(p.offset) + (s.upage - Base(p))

Loadable(p) == p.type = "load" /\ validate_segment(p)
Reaches(p, n) == \E a \in p.vaddr..(p.vaddr + p.memsz - 1) : pg_no(a) = n
StackPage == pg_no(PHYS_BASE - PGSIZE)
Phdr(i) == file.phdrs[i]

\* A header that was dealt with.
Settled(i) ==
    Phdr(i).type = "load" =>
        /\ validate_segment(Phdr(i))
        /\ Built(Phdr(i), Base(Phdr(i)) + Segment(Phdr(i)).left)

\* What was loaded before header next.
LoadInv ==
    /\ file \in Files /\ next \in Nat \ {0}
    /\ pc \in {"create", "stack", "open"} => next = 1
    /\ pc \in {"headers", "segment", "running"} =>
         \A i \in DOMAIN file.phdrs :
            i < next => Settled(i) \/ (pc = "segment" /\ i = next - 1)
    /\ pc = "segment" =>
         /\ next - 1 \in DOMAIN file.phdrs /\ Loadable(Phdr(next - 1))
         /\ Progress(Phdr(next - 1), segment) /\ Built(Phdr(next - 1), segment.upage)
    /\ pc = "running" => next > Len(file.phdrs)
    /\ pc \notin {"failed", "gone"} =>
         \A n \in DOMAIN pages :
            n = StackPage \/ \E i \in DOMAIN file.phdrs : i < next /\ Loadable(Phdr(i)) /\ Reaches(Phdr(i), n)

\* The numbers of a program header are words.
WordsOf(p) == p.offset \in 0..Word - 1 /\ p.vaddr \in 0..Word - 1 /\ p.filesz \in 0..Word - 1 /\ p.memsz \in 0..Word - 1

LEMMA HeaderNumbers ==
    ASSUME NEW exe \in Files
    PROVE  Len(exe.phdrs) \in Nat /\ DOMAIN exe.phdrs = 1..Len(exe.phdrs)
BY AddressSpaceAssumption

LEMMA HeaderWords ==
    ASSUME file \in Files, NEW i \in DOMAIN file.phdrs PROVE WordsOf(Phdr(i))
BY AddressSpaceAssumption DEF WordsOf, Phdr

\* Where a segment lies: in the user's addresses, without a part of page 0.
LEMMA SegmentLies ==
    ASSUME NEW p, WordsOf(p), validate_segment(p)
    PROVE  /\ p.vaddr \in Nat /\ p.memsz \in Nat /\ p.filesz \in Nat /\ p.offset \in Nat
           /\ p.memsz > 0 /\ p.filesz <= p.memsz /\ PGSIZE <= p.vaddr
           /\ p.vaddr + p.memsz < PHYS_BASE
           /\ Base(p) \in Nat /\ pg_ofs(Base(p)) = 0
           /\ Base(p) <= p.vaddr /\ p.vaddr < Base(p) + PGSIZE
           /\ p.vaddr = Base(p) + pg_ofs(p.vaddr)
           /\ pg_ofs(p.vaddr) \in Nat /\ pg_ofs(p.vaddr) = pg_ofs(p.offset)
<1>1. /\ p.vaddr \in Nat /\ p.memsz \in Nat /\ p.filesz \in Nat /\ p.offset \in Nat
      /\ p.vaddr < Word /\ p.memsz < Word
  BY Sizes DEF WordsOf
<1>2. /\ p.memsz >= p.filesz /\ p.memsz # 0 /\ p.vaddr >= PGSIZE
      /\ (p.vaddr + p.memsz) % Word < PHYS_BASE /\ (p.vaddr + p.memsz) % Word >= p.vaddr
      /\ pg_ofs(p.offset) = pg_ofs(p.vaddr)
  BY DEF validate_segment, is_user_vaddr
<1>3. p.vaddr + p.memsz < PHYS_BASE
  <2> DEFINE e == p.vaddr + p.memsz
  <2>1. e \in Nat /\ e < 2 * Word /\ e - Word < p.vaddr
    BY <1>1, Sizes
  <2>2. e >= Word => e % Word = e - Word
    BY <2>1, Sizes
  <2>3. e < Word => e % Word = e
    BY <2>1, Sizes
  <2> HIDE DEF e
  <2>4. e % Word < PHYS_BASE /\ e % Word >= p.vaddr
    BY <1>2 DEF e
  <2>5. e < PHYS_BASE
    BY <1>1, <2>1, <2>2, <2>3, <2>4, Sizes
  <2> QED BY <2>5 DEF e
<1>4. /\ Base(p) \in Nat /\ pg_ofs(Base(p)) = 0
      /\ Base(p) <= p.vaddr /\ p.vaddr < Base(p) + PGSIZE
      /\ pg_ofs(p.vaddr) \in Nat
  BY <1>1, PageOf, RoundedDown DEF Base
<1>5. p.vaddr = Base(p) + pg_ofs(p.vaddr)
  BY <1>1, <1>4 DEF Base, pg_round_down
<1> QED BY <1>1, <1>2, <1>3, <1>4, <1>5

\* What load_segment is called with.
LEMMA SegmentIs ==
    ASSUME NEW p, WordsOf(p), validate_segment(p)
    PROVE  LET s == Segment(p) IN
           /\ Progress(p, s) /\ s.upage = Base(p)
           /\ s.read \in Nat
           /\ s.read = IF p.filesz = 0 THEN 0 ELSE pg_ofs(p.vaddr) + p.filesz
           /\ p.vaddr + p.memsz <= Base(p) + s.left
           /\ Base(p) + s.left < p.vaddr + p.memsz + PGSIZE
<1> DEFINE v == pg_ofs(p.vaddr)
           m == v + p.memsz
<1>1. /\ p.vaddr \in Nat /\ p.memsz \in Nat /\ p.filesz \in Nat /\ p.offset \in Nat
      /\ p.memsz > 0 /\ p.vaddr = Base(p) + v /\ v \in Nat
      /\ Base(p) \in Nat /\ pg_ofs(Base(p)) = 0
  BY SegmentLies
<1>2. m \in Nat /\ m > 0
  BY <1>1
<1>3. /\ ROUND_UP(m) \in Nat /\ pg_ofs(ROUND_UP(m)) = 0
      /\ m <= ROUND_UP(m) /\ ROUND_UP(m) < m + PGSIZE
  BY <1>2, RoundedUp
<1>4. pg_round_down(p.offset) \in Nat
  BY <1>1, PageOf
<1> DEFINE r == IF p.filesz = 0 THEN 0 ELSE v + p.filesz
<1>5. /\ Segment(p) = [ofs |-> pg_round_down(p.offset), upage |-> Base(p), read |-> r,
                       left |-> ROUND_UP(m), writable |-> p.writable]
      /\ r \in Nat
  BY <1>1 DEF Segment, Base
<1> HIDE DEF r
<1>6. /\ Segment(p).ofs = pg_round_down(p.offset) /\ Segment(p).upage = Base(p)
      /\ Segment(p).read = r /\ Segment(p).left = ROUND_UP(m)
      /\ Segment(p) \in [ofs : Int, upage : Nat, read : Nat, left : Nat, writable : {p.writable}]
  BY <1>1, <1>3, <1>4, <1>5
<1>7. Progress(p, Segment(p))
  BY <1>1, <1>2, <1>3, <1>4, <1>5, <1>6, Sizes DEF Progress
<1>8. /\ p.vaddr + p.memsz <= Base(p) + ROUND_UP(m)
      /\ Base(p) + ROUND_UP(m) < p.vaddr + p.memsz + PGSIZE
  BY <1>1, <1>3, Sizes
<1> QED BY <1>5, <1>6, <1>7, <1>8 DEF r

\* What the pages of a segment hold is what its header says.
LEMMA SegByteIs ==
    ASSUME NEW p, WordsOf(p), validate_segment(p),
           NEW a \in p.vaddr..(p.vaddr + p.memsz - 1)
    PROVE  SegByte(p, a) =
             IF a - p.vaddr < p.filesz THEN FileByte(p.offset + (a - p.vaddr)) ELSE 0
<1> DEFINE v == pg_ofs(p.vaddr)
<1>1. /\ p.vaddr \in Nat /\ p.memsz \in Nat /\ p.filesz \in Nat /\ p.offset \in Nat
      /\ p.vaddr = Base(p) + v /\ v \in Nat /\ v = pg_ofs(p.offset) /\ Base(p) \in Nat
  BY SegmentLies
<1>2. Segment(p).read = IF p.filesz = 0 THEN 0 ELSE v + p.filesz
  BY SegmentIs
<1>3. pg_round_down(p.offset) = p.offset - v
  BY <1>1 DEF pg_round_down
<1>4. a \in Int /\ a >= p.vaddr
  BY <1>1
<1> HIDE DEF v
<1>5. a - Base(p) < Segment(p).read <=> a - p.vaddr < p.filesz
  BY <1>1, <1>2, <1>4
<1>6. pg_round_down(p.offset) + (a - Base(p)) = p.offset + (a - p.vaddr)
  BY <1>1, <1>3, <1>4
<1> QED BY <1>5, <1>6 DEF SegByte

-----------------------------------------------------------------------------
\* What is built stays while pages are added or left alone.
LEMMA StaysBuilt ==
    ASSUME NEW p, NEW end, Built(p, end),
           \/ pages' = pages
           \/ \E u, c, w, then : Maps(u, c, w, then)
    PROVE  Built(p, end)'
<1> SUFFICES ASSUME NEW a \in Nat, Base(p) <= a, a < end PROVE Holds(p, a)'
  BY DEF Built
<1>1. pg_no(a) \in DOMAIN pages /\ Holds(p, a)
  BY DEF Built, Holds
<1>2. CASE pages' = pages
  BY <1>1, <1>2 DEF Holds, Byte
<1>3. ASSUME NEW u, NEW c, NEW w, NEW then, Maps(u, c, w, then) PROVE Holds(p, a)'
  <2>1. /\ pg_no(u) \notin DOMAIN pages
        /\ pages' = [n \in DOMAIN pages \cup {pg_no(u)} |->
                       IF n = pg_no(u) THEN Page(c, w) ELSE pages[n]]
    BY <1>3 DEF Maps
  <2>2. pg_no(a) \in DOMAIN pages' /\ pages'[pg_no(a)] = pages[pg_no(a)]
    BY <1>1, <2>1
  <2> QED BY <1>1, <2>2 DEF Holds, Byte
<1> QED BY <1>2, <1>3

LEMMA StaysSettled ==
    ASSUME NEW i, Settled(i), file' = file,
           \/ pages' = pages
           \/ \E u, c, w, then : Maps(u, c, w, then)
    PROVE  Settled(i)'
<1>1. PICK q : q = Phdr(i)
  OBVIOUS
<1>2. PICK end : end = Base(q) + Segment(q).left
  OBVIOUS
<1>3. Phdr(i)' = q /\ (Base(Phdr(i)) + Segment(Phdr(i)).left)' = end
  BY <1>1, <1>2 DEF Phdr
<1>4. CASE q.type # "load"
  BY <1>3, <1>4 DEF Settled
<1>5. CASE q.type = "load"
  <2>1. validate_segment(q) /\ Built(q, end)
    BY <1>1, <1>2, <1>5 DEF Settled
  <2>2. Built(q, end)' /\ validate_segment(q)'
    BY <2>1, StaysBuilt DEF validate_segment
  <2> QED BY <1>3, <2>2 DEF Settled
<1> QED BY <1>4, <1>5

\* A step that ends the loading.
LEMMA Stopped ==
    ASSUME LoadInv, pc' \in {"failed", "gone"}, file' = file, next' \in {next, next + 1}
    PROVE  LoadInv'
<1>1. file' \in Files /\ next' \in Nat \ {0}
  BY DEF LoadInv
<1> QED BY <1>1 DEF LoadInv

\* The pages there are, one more included.
Known(n) ==
    n = StackPage \/ \E i \in DOMAIN file.phdrs : i < next /\ Loadable(Phdr(i)) /\ Reaches(Phdr(i), n)

LEMMA StackLoadInv ==
    ASSUME FramesInv, LoadInv, SetupStack PROVE LoadInv'
<1> DEFINE c == [i \in 0..(PGSIZE - 1) |-> 0]
           u == PHYS_BASE - PGSIZE
<1>1. pc = "stack" /\ Install(u, c, TRUE, "open") /\ file' = file /\ next' = next
  BY DEF SetupStack
<1> HIDE DEF c, u
<1>2. CASE Fails("open")
  BY <1>1, <1>2, Stopped DEF Fails
<1>3. CASE Maps(u, c, TRUE, "open")
  <2>1. pc' = "open" /\ DOMAIN pages' = DOMAIN pages \cup {pg_no(u)} /\ pg_no(u) = StackPage
    BY <1>3 DEF Maps, StackPage, u
  <2>2. \A n \in DOMAIN pages : Known(n)
    BY <1>1 DEF LoadInv, Known
  <2>3. \A n \in DOMAIN pages' : Known(n)
    BY <2>1, <2>2 DEF Known
  <2>4. \A n : Known(n) => Known(n)'
    BY <1>1 DEF Known, Loadable, Reaches, Phdr, validate_segment
  <2>5. \A n \in DOMAIN pages' : Known(n)'
    BY <2>3, <2>4
  <2> QED BY <1>1, <2>1, <2>5 DEF LoadInv, Known
<1> QED BY <1>1, <1>2, <1>3, InstallIs

LEMMA HeaderLoadInv ==
    ASSUME LoadInv, ReadHeader PROVE LoadInv'
<1>0. PICK p : p = Phdr(next)
  OBVIOUS
<1>1. /\ pc = "headers" /\ next <= Len(file.phdrs) /\ next' = next + 1
      /\ file' = file /\ pages' = pages
      /\ pc' = CASE p.type = "ignored" -> "headers"
                 [] p.type = "load" /\ validate_segment(p) -> "segment"
                 [] OTHER -> "failed"
      /\ segment' = IF p.type = "load" /\ validate_segment(p) THEN Segment(p) ELSE NoSegment
  BY <1>0 DEF ReadHeader, Phdr, space
<1>2. next \in DOMAIN file.phdrs /\ next \in Nat \ {0} /\ file \in Files
  BY <1>1, HeaderNumbers DEF LoadInv
<1>3. ASSUME NEW i \in DOMAIN file.phdrs, i < next PROVE Settled(i)'
  BY <1>1, <1>3, StaysSettled DEF LoadInv
<1>4. \A i \in DOMAIN file.phdrs : i < next + 1 => i < next \/ i = next
  BY <1>2, HeaderNumbers
<1>5. \A n \in DOMAIN pages' : Known(n)'
  <2>1. \A n \in DOMAIN pages : Known(n)
    BY <1>1 DEF LoadInv, Known
  <2>2. \A i \in DOMAIN file.phdrs : i < next => i < next'
    BY <1>1, <1>2, HeaderNumbers
  <2>3. \A n : Known(n) => Known(n)'
    BY <1>1, <2>2 DEF Known, Loadable, Reaches, Phdr, validate_segment
  <2> QED BY <1>1, <2>1, <2>3
<1>6. CASE p.type = "ignored"
  <2>1. pc' = "headers"
    BY <1>1, <1>6
  <2>2. ASSUME NEW k, k = next PROVE Settled(k)'
    BY <1>0, <1>1, <1>6, <2>2 DEF Settled, Phdr
  <2>3. \A i \in DOMAIN file'.phdrs : i < next' => Settled(i)'
    BY <1>1, <1>3, <1>4, <2>2
  <2>4. next' \in Nat \ {0}
    BY <1>1, <1>2
  <2> QED BY <1>1, <1>2, <1>5, <2>1, <2>3, <2>4 DEF LoadInv, Known
<1>7. CASE p.type = "load" /\ validate_segment(p)
  <2>1. pc' = "segment" /\ segment' = Segment(p) /\ next' - 1 = next /\ next' \in Nat \ {0}
    BY <1>1, <1>2, <1>7
  <2>2. Progress(p, Segment(p)) /\ Segment(p).upage = Base(p) /\ Base(p) \in Nat
    BY <1>0, <1>2, <1>7, HeaderWords, SegmentIs, SegmentLies
  <2>3. (Phdr(next - 1))' = p
    BY <1>0, <1>1, <2>1 DEF Phdr
  <2>4. Built(p, Base(p))'
    BY <2>2 DEF Built
  <2>5. Loadable(p)'
    BY <1>1, <1>7 DEF Loadable, validate_segment
  <2>6. \A i \in DOMAIN file'.phdrs : i < next' => Settled(i)' \/ i = next' - 1
    BY <1>1, <1>3, <1>4, <2>1
  <2>7. Progress(p, segment') /\ Built(p, segment.upage)' /\ next' - 1 \in DOMAIN file'.phdrs
    BY <1>1, <1>2, <2>1, <2>2, <2>4
  <2> QED BY <1>1, <1>2, <1>5, <2>1, <2>3, <2>5, <2>6, <2>7 DEF LoadInv, Known
<1>8. CASE p.type # "ignored" /\ ~(p.type = "load" /\ validate_segment(p))
  <2>1. pc' = "failed"
    BY <1>1, <1>8
  <2> QED BY <1>1, <2>1, Stopped
<1> QED BY <1>6, <1>7, <1>8

\* One round of load_segment, in numbers.
LEMMA ProgressNext ==
    ASSUME NEW p, WordsOf(p), validate_segment(p), NEW s, Progress(p, s), s.left # PGSIZE
    PROVE  LET n == IF s.read < PGSIZE THEN s.read ELSE PGSIZE
               rest == [s EXCEPT !.ofs = @ + n, !.upage = @ + PGSIZE, !.read = @ - n,
                                 !.left = @ - PGSIZE]
           IN  Progress(p, rest) /\ rest.upage = s.upage + PGSIZE
<1> DEFINE n == IF s.read < PGSIZE THEN s.read ELSE PGSIZE
           rest == [s EXCEPT !.ofs = @ + n, !.upage = @ + PGSIZE, !.read = @ - n,
                             !.left = @ - PGSIZE]
           R == Segment(p).read
           L == Segment(p).left
           o == pg_round_down(p.offset)
           b == Base(p)
<1>1. /\ s \in [ofs : Int, upage : Nat, read : Nat, left : Nat, writable : {p.writable}]
      /\ pg_ofs(s.upage) = 0 /\ b <= s.upage
      /\ s.left > 0 /\ pg_ofs(s.left) = 0 /\ s.upage + s.left = b + L
      /\ s.read = IF R > s.upage - b THEN R - (s.upage - b) ELSE 0
      /\ s.read > 0 => s.ofs = o + (s.upage - b)
  BY DEF Progress
<1>2. R \in Nat /\ b \in Nat /\ o \in Nat /\ L \in Nat
  <2>1. Segment(p).left \in Nat
    BY SegmentIs DEF Progress
  <2> QED BY <2>1, SegmentIs, SegmentLies, PageOf
<1>3. /\ s.left - PGSIZE \in Nat /\ s.left - PGSIZE > 0 /\ pg_ofs(s.left - PGSIZE) = 0
      /\ pg_ofs(s.upage + PGSIZE) = 0 /\ s.upage + PGSIZE \in Nat
  <2>1. s.left \in Nat /\ s.upage \in Nat
    BY <1>1
  <2>2. s.left >= PGSIZE /\ s.left - PGSIZE \in Nat /\ pg_ofs(s.left - PGSIZE) = 0
    BY <1>1, <2>1, WholePages
  <2>3. s.left - PGSIZE > 0
    BY <2>1, <2>2, Sizes
  <2> QED BY <1>1, <2>1, <2>2, <2>3, Aligned
<1>4. n \in Nat /\ n <= s.read /\ n <= PGSIZE /\ (n < PGSIZE => n = s.read)
  BY <1>1, Sizes
<1> HIDE DEF n, R, L, o, b
<1>5. /\ rest.ofs = s.ofs + n /\ rest.upage = s.upage + PGSIZE /\ rest.read = s.read - n
      /\ rest.left = s.left - PGSIZE /\ rest.writable = p.writable
      /\ rest \in [ofs : Int, upage : Nat, read : Nat, left : Nat, writable : {p.writable}]
  <2> DEFINE o1 == s.ofs + n
             u1 == s.upage + PGSIZE
             r1 == s.read - n
             l1 == s.left - PGSIZE
  <2>1. o1 \in Int /\ u1 \in Nat /\ r1 \in Nat /\ l1 \in Nat
    BY <1>1, <1>3, <1>4
  <2>2. rest = [s EXCEPT !.ofs = o1, !.upage = u1, !.read = r1, !.left = l1]
    OBVIOUS
  <2> HIDE DEF o1, u1, r1, l1, rest
  <2>3. /\ rest.ofs = o1 /\ rest.upage = u1 /\ rest.read = r1
        /\ rest.left = l1 /\ rest.writable = p.writable
        /\ rest \in [ofs : Int, upage : Nat, read : Nat, left : Nat, writable : {p.writable}]
    BY <1>1, <2>1, <2>2
  <2> QED BY <2>3 DEF o1, u1, r1, l1
<1> HIDE DEF rest
<1>6. rest.read = IF R > rest.upage - b THEN R - (rest.upage - b) ELSE 0
  BY <1>1, <1>2, <1>4, <1>5, Sizes
<1>7. rest.read > 0 => rest.ofs = o + (rest.upage - b)
  BY <1>1, <1>2, <1>4, <1>5, Sizes
<1>8. b <= rest.upage /\ rest.upage + rest.left = b + L
  BY <1>1, <1>2, <1>5, Sizes
<1>9. Progress(p, rest)
  BY <1>3, <1>5, <1>6, <1>7, <1>8 DEF Progress, R, L, o, b
<1> QED BY <1>5, <1>9 DEF rest, n

\* ... and in bytes.
LEMMA BuiltNext ==
    ASSUME FramesInv, NEW p, WordsOf(p), validate_segment(p), NEW s, Progress(p, s),
           Built(p, s.upage), NEW n, n = (IF s.read < PGSIZE THEN s.read ELSE PGSIZE),
           NEW then,
           Maps(s.upage, [i \in 0..(PGSIZE - 1) |-> IF i < n THEN FileByte(s.ofs + i) ELSE 0],
                s.writable, then)
    PROVE  Built(p, s.upage + PGSIZE)'
<1> DEFINE c == [i \in 0..(PGSIZE - 1) |-> IF i < n THEN FileByte(s.ofs + i) ELSE 0]
           u == s.upage
<1>1. /\ s.upage \in Nat /\ s.ofs \in Int /\ s.read \in Nat /\ s.writable = p.writable
      /\ pg_ofs(s.upage) = 0 /\ Base(p) <= s.upage
      /\ s.read = IF Segment(p).read > s.upage - Base(p)
                  THEN Segment(p).read - (s.upage - Base(p)) ELSE 0
      /\ s.read > 0 => s.ofs = pg_round_down(p.offset) + (s.upage - Base(p))
  BY DEF Progress
<1>2. Base(p) \in Nat /\ Segment(p).read \in Nat /\ pg_round_down(p.offset) \in Nat
  BY SegmentLies, SegmentIs, PageOf
<1>3. Built(p, s.upage)'
  BY StaysBuilt
<1>4. ASSUME NEW a \in Nat, u <= a, a < u + PGSIZE PROVE Holds(p, a)'
  <2>1. pg_no(a) = pg_no(u) /\ pg_ofs(a) = a - u
    BY <1>1, <1>4, SamePage
  <2>2. pages'[pg_no(u)] = Page(c, s.writable) /\ pg_no(u) \in DOMAIN pages'
    BY DEF Maps
  <2>3. c[a - u] = SegByte(p, a)
    <3> DEFINE i == a - u
    <3>1. i \in 0..(PGSIZE - 1)
      BY <1>1, <1>4, Sizes
    <3>2. c[i] = IF i < n THEN FileByte(s.ofs + i) ELSE 0
      BY <3>1
    <3>3. i < n <=> a - Base(p) < Segment(p).read
      BY <1>1, <1>2, <3>1, Sizes
    <3>4. i < n => s.ofs + i = pg_round_down(p.offset) + (a - Base(p))
      BY <1>1, <1>2, <3>1, Sizes
    <3> HIDE DEF c, i
    <3>5. c[i] = SegByte(p, a)
      BY <3>2, <3>3, <3>4 DEF SegByte
    <3> QED BY <3>5 DEF i
  <2> HIDE DEF c, u
  <2>4. Page(c, s.writable).bytes = c /\ Page(c, s.writable).writable = p.writable
    BY <1>1 DEF Page
  <2>5. pages'[pg_no(a)] = Page(c, s.writable) /\ pg_no(a) \in DOMAIN pages'
    BY <2>1, <2>2
  <2> QED BY <2>1, <2>3, <2>4, <2>5 DEF Holds, Byte
<1>5. ASSUME NEW a \in Nat, Base(p) <= a, a < u + PGSIZE PROVE Holds(p, a)'
  <2>1. CASE a < u
    BY <1>3, <1>5, <2>1 DEF Built
  <2>2. CASE u <= a
    BY <1>4, <1>5, <2>2
  <2> QED BY <1>1, <2>1, <2>2
<1> QED BY <1>5 DEF Built

\* A page is only added where its segment reaches.
LEMMA ReachesPage ==
    ASSUME NEW p, WordsOf(p), validate_segment(p), NEW s, Progress(p, s)
    PROVE  Reaches(p, pg_no(s.upage))
<1> DEFINE u == s.upage
           v == p.vaddr
           e == p.vaddr + p.memsz
           b == Base(p)
<1>0. ASSUME NEW n, NEW a \in p.vaddr..(p.vaddr + p.memsz - 1), pg_no(a) = n PROVE Reaches(p, n)
  BY <1>0 DEF Reaches
<1>1. /\ v \in Nat /\ e \in Nat /\ v < e /\ b \in Nat /\ b <= v /\ v < b + PGSIZE
      /\ pg_ofs(b) = 0
  BY SegmentLies
<1>2. u \in Nat /\ s.left \in Nat /\ pg_ofs(u) = 0 /\ b <= u /\ s.left > 0 /\ pg_ofs(s.left) = 0
      /\ u + s.left = b + Segment(p).left
  BY DEF Progress
<1>3. s.left >= PGSIZE
  BY <1>2, WholePages
<1>4. Segment(p).left \in Nat /\ b + Segment(p).left < e + PGSIZE
  BY SegmentIs DEF Progress
<1>5. u < e
  BY <1>1, <1>2, <1>3, <1>4, Sizes
<1>6. CASE v <= u
  <2>1. u \in v..(e - 1)
    BY <1>1, <1>2, <1>5, <1>6
  <2>2. u \in p.vaddr..(p.vaddr + p.memsz - 1)
    BY <2>1, SegmentLies
  <2> QED BY <2>2, <1>0
<1>7. CASE u < v
  <2>1. v \in v..(e - 1) /\ u <= v /\ v < u + PGSIZE
    BY <1>1, <1>2, <1>7, Sizes
  <2>2. pg_no(v) = pg_no(u)
    BY <1>1, <1>2, <2>1, SamePage
  <2>3. v \in p.vaddr..(p.vaddr + p.memsz - 1)
    BY <2>1, SegmentLies
  <2> QED BY <2>2, <2>3, <1>0
<1> QED BY <1>1, <1>2, <1>6, <1>7

LEMMA PageLoadInv ==
    ASSUME FramesInv, LoadInv, LoadPage PROVE LoadInv'
<1>1. PICK s : s = segment
  OBVIOUS
<1>2. PICK k : k = next - 1
  OBVIOUS
<1>3. PICK p : p = Phdr(k)
  OBVIOUS
<1>4. PICK n : n = IF s.read < PGSIZE THEN s.read ELSE PGSIZE
  OBVIOUS
<1> DEFINE rest == [s EXCEPT !.ofs = @ + n, !.upage = @ + PGSIZE, !.read = @ - n,
                             !.left = @ - PGSIZE]
           c == [i \in 0..(PGSIZE - 1) |-> IF i < n THEN FileByte(s.ofs + i) ELSE 0]
           then == IF rest.left = 0 THEN "headers" ELSE "segment"
<1>5. /\ pc = "segment" /\ file' = file /\ next' = next
      /\ segment' = IF rest.left = 0 THEN NoSegment ELSE rest
      /\ \/ pc' = "failed"
         \/ Install(s.upage, c, s.writable, then)
  BY <1>1, <1>4 DEF LoadPage
<1>6. /\ k \in DOMAIN file.phdrs /\ k < next /\ Loadable(p) /\ Progress(p, s) /\ Built(p, s.upage)
      /\ file \in Files /\ next \in Nat \ {0}
  BY <1>1, <1>2, <1>3, <1>5 DEF LoadInv
<1>7. WordsOf(p) /\ validate_segment(p)
  BY <1>3, <1>6, HeaderWords DEF Loadable
<1>8. s.left \in Nat /\ s.left > 0 /\ s.upage \in Nat /\ rest.left = s.left - PGSIZE
      /\ s.upage + s.left = Base(p) + Segment(p).left
  BY <1>6 DEF Progress
<1>9. CASE pc' = "failed"
  BY <1>5, <1>9, Stopped
<1>10. CASE Install(s.upage, c, s.writable, then)
  <2>1. CASE Fails(then)
    BY <1>5, <2>1, Stopped DEF Fails
  <2>2. CASE Maps(s.upage, c, s.writable, then)
    <3>1. Built(p, s.upage + PGSIZE)'
      <4> HIDE DEF then
      <4> QED BY <1>4, <1>6, <1>7, <2>2, BuiltNext
    <3> HIDE DEF c
    <3>2. pc' = then /\ DOMAIN pages' = DOMAIN pages \cup {pg_no(s.upage)}
      BY <2>2 DEF Maps
    <3>3. \A i \in DOMAIN file.phdrs : i < next /\ i # k => Settled(i)'
      <4>1. \A i \in DOMAIN file.phdrs : i < next /\ i # k => Settled(i)
        BY <1>2, <1>5 DEF LoadInv
      <4> HIDE DEF then
      <4> QED BY <1>5, <2>2, <4>1, StaysSettled
    <3>4. \A m \in DOMAIN pages' : Known(m)'
      <4>1. \A m \in DOMAIN pages : Known(m)
        BY <1>5 DEF LoadInv, Known
      <4>2. Known(pg_no(s.upage))
        BY <1>3, <1>6, <1>7, ReachesPage DEF Known
      <4>3. \A m : Known(m) => Known(m)'
        BY <1>5 DEF Known, Loadable, Reaches, Phdr, validate_segment
      <4> QED BY <3>2, <4>1, <4>2, <4>3
    <3>5. Phdr(k)' = p /\ validate_segment(p)' /\ Loadable(p)'
      BY <1>3, <1>5, <1>6, <1>7 DEF Phdr, validate_segment, Loadable
    <3>6. CASE rest.left = 0
      <4>1. pc' = "headers"
        BY <3>2, <3>6
      <4>2. PICK end : end = Base(p) + Segment(p).left
        OBVIOUS
      <4>3. s.upage + PGSIZE = end
        <5> HIDE DEF rest
        <5> QED BY <1>8, <3>6, <4>2, Sizes
      <4>4. Built(p, end)'
        BY <3>1, <4>3
      <4>5. Settled(k)'
        BY <3>5, <4>2, <4>4 DEF Settled
      <4>6. \A i \in DOMAIN file'.phdrs : i < next' => Settled(i)'
        BY <1>5, <3>3, <4>5
      <4> QED BY <1>5, <1>6, <3>4, <4>1, <4>6 DEF LoadInv, Known
    <3>7. CASE rest.left # 0
      <4>1. pc' = "segment" /\ segment' = rest
        BY <1>5, <3>2, <3>7
      <4>2. s.left # PGSIZE
        <5> HIDE DEF rest
        <5> QED BY <1>8, <3>7
      <4>3. Progress(p, rest) /\ rest.upage = s.upage + PGSIZE
        BY <1>4, <1>6, <1>7, <4>2, ProgressNext
      <4> HIDE DEF rest
      <4>4. Progress(p, segment') /\ Built(p, segment.upage)'
        BY <3>1, <4>1, <4>3
      <4>5. (Phdr(next - 1))' = p /\ next' - 1 = k
        BY <1>2, <1>5, <3>5
      <4>6. \A i \in DOMAIN file'.phdrs : i < next' => Settled(i)' \/ i = next' - 1
        BY <1>5, <3>3, <4>5
      <4>7. next' - 1 \in DOMAIN file'.phdrs
        BY <1>5, <1>6, <4>5
      <4> QED BY <1>5, <1>6, <3>4, <3>5, <4>1, <4>4, <4>5, <4>6, <4>7 DEF LoadInv, Known
    <3> QED BY <3>6, <3>7
  <2> QED BY <1>10, <2>1, <2>2, InstallIs
<1> QED BY <1>5, <1>9, <1>10

LEMMA LoadInit == Init => LoadInv
<1> SUFFICES ASSUME Init PROVE LoadInv
  OBVIOUS
<1>1. DOMAIN pages = {} /\ pc = "create" /\ next = 1 /\ file \in Files
  BY DEF Init
<1> QED BY <1>1 DEF LoadInv

LEMMA LoadNext == FramesInv /\ LoadInv /\ [Next]_vars => LoadInv'
<1> SUFFICES ASSUME FramesInv, LoadInv, [Next]_vars PROVE LoadInv'
  OBVIOUS
<1>0. \A m : Known(m) /\ file' = file /\ next' = next => Known(m)'
  BY DEF Known, Loadable, Reaches, Phdr, validate_segment
<1>1. CASE Create
  <2>1. pc = "create" /\ UNCHANGED <<file, next, pages>> /\ pc' \in {"failed", "stack"}
    BY <1>1 DEF Create
  <2>2. CASE pc' = "failed"
    BY <2>1, <2>2, Stopped
  <2>3. CASE pc' = "stack"
    <3>1. \A m \in DOMAIN pages' : Known(m)'
      BY <1>0, <2>1 DEF LoadInv, Known
    <3> QED BY <2>1, <2>3, <3>1 DEF LoadInv, Known
  <2> QED BY <2>1, <2>2, <2>3
<1>2. CASE SetupStack
  BY <1>2, StackLoadInv
<1>3. CASE Open
  <2>1. pc = "open" /\ UNCHANGED <<file, next, pages>> /\ pc' \in {"failed", "headers"}
    BY <1>3 DEF Open, space
  <2>2. CASE pc' = "failed"
    BY <2>1, <2>2, Stopped
  <2>3. CASE pc' = "headers"
    <3>1. \A m \in DOMAIN pages' : Known(m)'
      BY <1>0, <2>1 DEF LoadInv, Known
    <3>2. next = 1 /\ file \in Files
      BY <2>1 DEF LoadInv
    <3>3. \A i \in DOMAIN file.phdrs : ~(i < 1)
      BY <3>2, AddressSpaceAssumption
    <3> QED BY <2>1, <2>3, <3>1, <3>2, <3>3 DEF LoadInv, Known
  <2> QED BY <2>1, <2>2, <2>3
<1>4. CASE ReadHeader
  BY <1>4, HeaderLoadInv
<1>5. CASE Loaded
  <2>1. /\ pc = "headers" /\ next > Len(file.phdrs) /\ pc' = "running"
        /\ UNCHANGED <<file, next, pages>>
    BY <1>5 DEF Loaded, space
  <2>2. \A m \in DOMAIN pages' : Known(m)'
    BY <1>0, <2>1 DEF LoadInv, Known
  <2>3. \A i \in DOMAIN file.phdrs : i < next => Settled(i)'
    BY <2>1, StaysSettled DEF LoadInv
  <2> QED BY <2>1, <2>2, <2>3 DEF LoadInv, Known
<1>6. CASE LoadPage
  BY <1>6, PageLoadInv
<1>7. CASE Destroy
  BY <1>7, Stopped DEF Destroy
<1>8. CASE UNCHANGED vars
  <2>1. UNCHANGED <<file, next, pages, pc, segment>>
    BY <1>8 DEF vars
  <2>2. \A m : Known(m)' <=> Known(m)
    BY <2>1 DEF Known, Loadable, Reaches, Phdr, validate_segment
  <2>3. \A i : Settled(i) => Settled(i)'
    BY <2>1, StaysSettled
  <2>4. CASE pc = "segment"
    <3>1. PICK p : p = Phdr(next - 1)
      OBVIOUS
    <3>2. PICK u : u = segment.upage
      OBVIOUS
    <3>3. Loadable(p) /\ Built(p, u) /\ Progress(p, segment) /\ next - 1 \in DOMAIN file.phdrs
      BY <2>4, <3>1, <3>2 DEF LoadInv
    <3>4. Loadable(p)' /\ Built(p, u)' /\ (Phdr(next - 1))' = p
      BY <2>1, <3>1, <3>3, StaysBuilt DEF Loadable, validate_segment, Phdr
    <3> QED BY <2>1, <2>2, <2>3, <2>4, <3>2, <3>3, <3>4 DEF LoadInv, Known
  <2>5. CASE pc # "segment"
    BY <2>1, <2>2, <2>3, <2>5 DEF LoadInv, Known
  <2> QED BY <2>4, <2>5
<1> QED BY <1>1, <1>2, <1>3, <1>4, <1>5, <1>6, <1>7, <1>8 DEF Next

LEMMA LoadImage == FramesInv /\ LoadInv => ImageRight
<1> SUFFICES ASSUME FramesInv, LoadInv, pc = "running" PROVE
        /\ \A p \in LoadSegments : \A a \in p.vaddr..(p.vaddr + p.memsz - 1) :
              /\ Present(a) /\ is_user_vaddr(a)
              /\ Byte(a) = IF a - p.vaddr < p.filesz THEN FileByte(p.offset + (a - p.vaddr)) ELSE 0
              /\ pages[pg_no(a)].writable = p.writable
        /\ 0 \notin DOMAIN pages
        /\ \A n \in DOMAIN pages :
              n = StackPage \/ \E p \in LoadSegments : Reaches(p, n)
  BY DEF ImageRight, StackPage, Reaches
<1>1. /\ file \in Files /\ next > Len(file.phdrs) /\ next \in Nat
      /\ \A i \in DOMAIN file.phdrs : i < next => Settled(i)
      /\ \A n \in DOMAIN pages : Known(n)
  BY DEF LoadInv, Known
<1>2. \A i \in DOMAIN file.phdrs : i < next
  BY <1>1, AddressSpaceAssumption
<1>3. ASSUME NEW p \in LoadSegments, NEW a \in p.vaddr..(p.vaddr + p.memsz - 1)
      PROVE  /\ Present(a) /\ is_user_vaddr(a)
             /\ Byte(a) = IF a - p.vaddr < p.filesz THEN FileByte(p.offset + (a - p.vaddr)) ELSE 0
             /\ pages[pg_no(a)].writable = p.writable
  <2>1. PICK i \in DOMAIN file.phdrs : p = Phdr(i) /\ p.type = "load"
    BY DEF LoadSegments, Phdr
  <2>2. WordsOf(p) /\ validate_segment(p) /\ Built(p, Base(p) + Segment(p).left)
    BY <1>1, <1>2, <2>1, HeaderWords DEF Settled
  <2>3. /\ p.vaddr \in Nat /\ p.memsz \in Nat /\ p.vaddr + p.memsz < PHYS_BASE
        /\ Base(p) \in Nat /\ Base(p) <= p.vaddr
        /\ p.vaddr + p.memsz <= Base(p) + Segment(p).left /\ Segment(p).left \in Nat
    BY <2>2, SegmentLies, SegmentIs DEF Progress
  <2>4. a \in Nat /\ Base(p) <= a /\ a < Base(p) + Segment(p).left /\ a < PHYS_BASE
    BY <2>3, Sizes
  <2>5. Holds(p, a)
    BY <2>2, <2>4 DEF Built
  <2> QED BY <2>2, <2>4, <2>5, SegByteIs, PresentIs DEF Holds, is_user_vaddr
<1>4. ASSUME NEW n \in DOMAIN pages PROVE n = StackPage \/ \E p \in LoadSegments : Reaches(p, n)
  BY <1>1 DEF Known, Loadable, LoadSegments, Phdr
<1>5. 0 \notin DOMAIN pages
  <2>1. 0 \in Nat /\ pg_ofs(0) = 0 /\ pg_no(0) = 0
    BY Sizes DEF pg_ofs, pg_no
  <2>2. \A a \in Nat : a >= PGSIZE => pg_no(a) # 0
    <3> SUFFICES ASSUME NEW a \in Nat, a >= PGSIZE, pg_no(a) = pg_no(0) PROVE FALSE
      BY <2>1
    <3>1. a < 0 + PGSIZE
      BY <2>1, SamePage
    <3> QED BY <3>1, Sizes
  <2>3. StackPage # 0
    <3>1. PHYS_BASE - PGSIZE \in Nat /\ PHYS_BASE - PGSIZE >= PGSIZE
      <4>1. PHYS_BASE - PGSIZE \in Nat /\ PHYS_BASE - PGSIZE > 0 /\ pg_ofs(PHYS_BASE) = 0
            /\ PHYS_BASE \in Nat /\ PHYS_BASE > 0
        BY Sizes DEF pg_ofs
      <4>2. pg_ofs(PHYS_BASE - PGSIZE) = 0
        BY <4>1, WholePages
      <4> QED BY <4>1, <4>2, WholePages
    <3> QED BY <2>2, <3>1 DEF StackPage
  <2>4. ASSUME NEW p \in LoadSegments, Reaches(p, 0) PROVE FALSE
    <3>1. PICK i \in DOMAIN file.phdrs : p = Phdr(i) /\ p.type = "load"
      BY DEF LoadSegments, Phdr
    <3>2. WordsOf(p) /\ validate_segment(p)
      BY <1>1, <1>2, <3>1, HeaderWords DEF Settled
    <3>3. p.vaddr \in Nat /\ PGSIZE <= p.vaddr /\ p.memsz \in Nat
      BY <3>2, SegmentLies
    <3>4. PICK a \in p.vaddr..(p.vaddr + p.memsz - 1) : pg_no(a) = 0
      BY <2>4 DEF Reaches
    <3>5. a \in Nat /\ a >= PGSIZE
      BY <3>3, Sizes
    <3> QED BY <2>2, <3>4, <3>5
  <2> QED BY <1>4, <2>3, <2>4
<1> QED BY <1>3, <1>4, <1>5

\* A program that runs has the memory its executable describes, byte by byte, and no other:
\* for every executable, every size of words, pages and page tables, and however much
\* memory there is.
THEOREM ProgramsAreLoaded == Spec => []ImageRight
<1>1. Init => FramesInv /\ LoadInv
  BY FramesInit, LoadInit
<1>2. FramesInv /\ LoadInv /\ [Next]_vars => FramesInv' /\ LoadInv'
  BY FramesNext, LoadNext
<1>3. FramesInv /\ LoadInv => ImageRight
  BY LoadImage
<1> QED BY <1>1, <1>2, <1>3, PTL DEF Spec

-----------------------------------------------------------------------------
(* The checks of the system calls.                                         *)

Below == {p \in Nat \X Nat : p[1] < p[2]}

LEMMA LeastIn ==
    ASSUME NEW S \in SUBSET Nat, S # {}
    PROVE  \E n \in S : \A m \in S : n <= m
<1>1. IsWellFoundedOn(Below, Nat)
  BY NatLessThanWellFounded DEF OpToRel, Below
<1>2. PICK x \in S : \A y \in S : ~(<<y, x>> \in Below)
  BY <1>1, WFMin
<1>3. ASSUME NEW y \in S PROVE x <= y
  <2>1. x \in Nat /\ y \in Nat
    OBVIOUS
  <2>2. ~(y < x)
    BY <1>2, <2>1 DEF Below
  <2> QED BY <2>1, <2>2
<1> QED BY <1>3

LEMMA FitsAWord ==
    ASSUME NEW a \in Nat, a < Word PROVE a % Word = a
BY Sizes

LEMMA SamePresence ==
    ASSUME NEW a, NEW b, pg_no(a) = pg_no(b) PROVE Present(a) <=> Present(b)
BY DEF Present, pd_no

\* Looking up pages that are all the user's says whether they are all there.
LEMMA PagesAtIs ==
    ASSUME NEW base \in Nat, NEW c \in Int, \A i \in 0..(c - 1) : base + i * PGSIZE < PHYS_BASE
    PROVE  /\ PagesAt(base, c) \in {"true", "false"}
           /\ PagesAt(base, c) = "true" <=> \A i \in 0..(c - 1) : Present(base + i * PGSIZE)
<1> DEFINE page(i) == (base + i * PGSIZE) % Word
           bad == {i \in 0..(c - 1) : ~is_user_vaddr(page(i)) \/ ~Present(page(i))}
           first == CHOOSE i \in bad : \A j \in bad : i <= j
<1>1. ASSUME NEW i \in 0..(c - 1) PROVE page(i) = base + i * PGSIZE /\ is_user_vaddr(page(i))
  <2>1. i \in Nat /\ PGSIZE \in Nat /\ i * PGSIZE \in Nat
    BY Sizes
  <2>2. base + i * PGSIZE \in Nat /\ base + i * PGSIZE < PHYS_BASE
    BY <2>1
  <2>3. base + i * PGSIZE < Word
    BY <2>2, Sizes
  <2> QED BY <2>2, <2>3, FitsAWord DEF is_user_vaddr
<1>2. PagesAt(base, c) = IF bad = {} THEN "true" ELSE IF is_user_vaddr(page(first)) THEN "false" ELSE "panic"
  BY DEF PagesAt
<1>3. bad = {} <=> \A i \in 0..(c - 1) : Present(base + i * PGSIZE)
  BY <1>1
<1>4. CASE bad # {}
  <2>1. bad \in SUBSET Nat
    OBVIOUS
  <2>2. \E i \in bad : \A j \in bad : i <= j
    BY <1>4, <2>1, LeastIn
  <2>3. first \in bad
    BY <2>2
  <2>4. is_user_vaddr(page(first))
    BY <1>1, <2>3
  <2> HIDE DEF first, bad, page
  <2> QED BY <1>2, <1>3, <1>4, <2>4
<1>5. CASE bad = {}
  BY <1>2, <1>3, <1>5
<1> QED BY <1>4, <1>5

\* Pages that were looked up with success are the user's, and there.
LEMMA PagesTrue ==
    ASSUME NEW base, NEW c, PagesAt(base, c) = "true", NEW i \in 0..(c - 1)
    PROVE  is_user_vaddr((base + i * PGSIZE) % Word) /\ Present((base + i * PGSIZE) % Word)
<1> DEFINE page(j) == (base + j * PGSIZE) % Word
           bad == {j \in 0..(c - 1) : ~is_user_vaddr(page(j)) \/ ~Present(page(j))}
           first == CHOOSE j \in bad : \A k \in bad : j <= k
<1>1. PagesAt(base, c) = IF bad = {} THEN "true" ELSE IF is_user_vaddr(page(first)) THEN "false" ELSE "panic"
  BY DEF PagesAt
<1> HIDE DEF first
<1>2. bad = {}
  <2> HIDE DEF bad, page
  <2> QED BY <1>1
<1>3. i \notin bad
  BY <1>2
<1> QED BY <1>3

\* Pages that an amount of bytes takes.
Count(n) == CDiv(n) + (IF CRem(n) # 0 THEN 1 ELSE 0)

LEMMA CountUp ==
    ASSUME NEW n \in Nat
    PROVE  /\ CRem(n) = pg_ofs(n) /\ Count(n) \in Nat
           /\ n <= PGSIZE * Count(n) /\ PGSIZE * Count(n) < n + PGSIZE
<1> DEFINE q == pg_no(n)
           r == pg_ofs(n)
<1>1. q \in Nat /\ r \in Nat /\ r < PGSIZE /\ n = PGSIZE * q + r /\ PGSIZE \in Nat
  BY PageOf, Sizes
<1>2. CDiv(n) = q
  BY DEF CDiv, pg_no
<1>3. CRem(n) = r
  <2> HIDE DEF q, r
  <2>1. CRem(n) = n - q * PGSIZE
    BY <1>2 DEF CRem
  <2> QED BY <1>1, <2>1
<1>4. Count(n) = q + (IF r # 0 THEN 1 ELSE 0)
  BY <1>2, <1>3 DEF Count
<1>5. PGSIZE * (q + 1) = PGSIZE * q + PGSIZE
  <2> HIDE DEF q
  <2> QED BY <1>1
<1> HIDE DEF q, r
<1>6. CASE r = 0
  BY <1>1, <1>4, <1>6, <1>3 DEF r
<1>7. CASE r # 0
  <2>1. Count(n) = q + 1
    BY <1>4, <1>7
  <2>2. n <= PGSIZE * q + PGSIZE /\ PGSIZE * q + PGSIZE < n + PGSIZE
    BY <1>1, <1>7
  <2> QED BY <1>1, <1>3, <1>5, <2>1, <2>2 DEF r
<1> QED BY <1>6, <1>7

LEMMA CountDown ==
    ASSUME NEW n \in Int, n < 0, 0 - PGSIZE < n PROVE Count(n) = 1
<1> DEFINE m == 0 - n
           q == pg_no(m)
           r == pg_ofs(m)
<1>1. m \in Nat /\ m < PGSIZE /\ PGSIZE \in Nat /\ 0 \in Nat
  BY Sizes
<1>2. q \in Nat /\ r \in Nat /\ r < PGSIZE /\ m = PGSIZE * q + r
  BY <1>1, PageOf
<1>3. PGSIZE * 0 + m = PGSIZE * q + r
  BY <1>1, <1>2
<1>4. q = 0
  <2> HIDE DEF q, r, m
  <2> QED BY <1>1, <1>2, <1>3, OneWay
<1>5. CDiv(n) = 0
  BY <1>4 DEF CDiv, pg_no
<1>6. CRem(n) = n
  BY <1>5, Sizes DEF CRem
<1> QED BY <1>5, <1>6 DEF Count

\* A negative amount takes one page at most.
LEMMA CountBelow ==
    ASSUME NEW n \in Int, n < 0 PROVE Count(n) \in Int /\ Count(n) <= 1
<1> DEFINE q == pg_no(0 - n)
<1>1. 0 - n \in Nat
  OBVIOUS
<1>2. q \in Nat
  BY <1>1, PageOf
<1>3. CDiv(n) = 0 - q
  BY DEF CDiv, pg_no
<1> HIDE DEF q
<1> QED BY <1>2, <1>3 DEF Count

\* What is taken for the offset in its page of an address.
LEMMA OffsetIs ==
    ASSUME NEW a \in Nat, a < Word
    PROVE  CRem(Signed(a)) = IF Misses(a) THEN pg_ofs(a) - PGSIZE ELSE pg_ofs(a)
<1>0. Word \div 2 \in Nat
  BY Sizes
<1>1. CASE a < Word \div 2
  <2>1. Signed(a) = a
    BY <1>1 DEF Signed
  <2>2. ~Misses(a)
    BY <1>0, <1>1 DEF Misses
  <2> QED BY <2>1, <2>2, CountUp
<1>2. CASE ~(a < Word \div 2)
  <2> DEFINE m == Word - a
             w == pg_no(Word)
             q == pg_no(a)
             r == pg_ofs(a)
             k == pg_no(m)
             s == pg_ofs(m)
  <2>1. m \in Nat /\ m > 0 /\ Signed(a) = a - Word /\ Signed(a) = 0 - m /\ Signed(a) < 0
    BY <1>2, Sizes DEF Signed
  <2>2. Misses(a) <=> r # 0
    BY <1>0, <1>2 DEF Misses
  <2>3. /\ w \in Nat /\ Word = PGSIZE * w
        /\ q \in Nat /\ r \in Nat /\ r < PGSIZE /\ a = PGSIZE * q + r
        /\ k \in Nat /\ s \in Nat /\ s < PGSIZE /\ m = PGSIZE * k + s
        /\ PGSIZE \in Nat /\ PGSIZE > 0
    <3>1. Word \in Nat /\ pg_ofs(Word) = 0
      BY Sizes DEF pg_ofs
    <3>2. w \in Nat /\ Word = PGSIZE * w + 0
      BY <3>1, PageOf
    <3>3. q \in Nat /\ r \in Nat /\ r < PGSIZE /\ a = PGSIZE * q + r
      BY PageOf
    <3>4. k \in Nat /\ s \in Nat /\ s < PGSIZE /\ m = PGSIZE * k + s
      BY <2>1, PageOf
    <3>5. PGSIZE * w \in Nat
      BY <3>2, Sizes
    <3> QED BY <3>2, <3>3, <3>4, <3>5, Sizes
  <2>4. CRem(Signed(a)) = 0 - s
    <3>1. CDiv(Signed(a)) = 0 - k
      <4>1. 0 - Signed(a) = m
        BY <2>1
      <4> QED BY <2>1, <4>1 DEF CDiv, pg_no
    <3> DEFINE n == Signed(a)
    <3>2. CRem(n) = n - (0 - k) * PGSIZE
      BY <3>1 DEF CRem
    <3>3. n = 0 - m
      BY <2>1
    <3> HIDE DEF n, m, k, s
    <3> QED BY <2>3, <3>2, <3>3 DEF n
  <2>5. m = PGSIZE * w - PGSIZE * q - r
    BY <2>3
  <2>6. a < Word
    OBVIOUS
  <2>7. q < w
    <3> HIDE DEF q, w, r
    <3>1. CASE w < q
      <4>1. PGSIZE * w + PGSIZE <= PGSIZE * q
        BY <2>3, <3>1, Multiples
      <4> QED BY <2>3, <2>6, <4>1, Sizes
    <3>2. CASE w = q
      BY <2>3, <2>6, <3>2
    <3> QED BY <2>3, <3>1, <3>2
  <2> HIDE DEF m, w, q, r, k, s
  <2>8. CASE r = 0
    <3>1. w - q \in Nat /\ PGSIZE * (w - q) = PGSIZE * w - PGSIZE * q
      BY <2>3, <2>7
    <3>2. PGSIZE * k + s = PGSIZE * (w - q) + 0 /\ 0 \in Nat /\ 0 < PGSIZE
      BY <2>3, <2>5, <2>8, <3>1
    <3>3. s = 0
      BY <2>3, <3>1, <3>2, OneWay
    <3> QED BY <2>2, <2>4, <2>8, <3>3 DEF r
  <2>9. CASE r # 0
    <3>1. w - q - 1 \in Nat /\ PGSIZE * (w - q - 1) = PGSIZE * w - PGSIZE * q - PGSIZE
      BY <2>3, <2>7
    <3>2. PGSIZE - r \in Nat /\ PGSIZE - r < PGSIZE
      BY <2>3, <2>9
    <3>3. PGSIZE * k + s = PGSIZE * (w - q - 1) + (PGSIZE - r)
      BY <2>3, <2>5, <3>1, <3>2
    <3>4. s = PGSIZE - r
      <4> DEFINE l == w - q - 1
                 t == PGSIZE - r
      <4>1. l \in Nat /\ t \in Nat /\ t < PGSIZE /\ PGSIZE * k + s = PGSIZE * l + t
        BY <3>1, <3>2, <3>3
      <4> HIDE DEF l, t
      <4>2. s = t
        BY <2>3, <4>1, OneWay
      <4> QED BY <4>2 DEF t
    <3>5. 0 - s = r - PGSIZE
      BY <2>3, <3>4
    <3> QED BY <2>2, <2>4, <2>9, <3>5 DEF r
  <2> QED BY <2>8, <2>9
<1> QED BY <1>1, <1>2

\* The pages verify_fix_length looks up.
Pages(start, length) == Count(length + CRem(Signed(start)))

\* The sum of the length and the offset, where it is an int.
LEMMA AmountIs ==
    ASSUME NEW start \in Nat, NEW length \in Nat, start < Word, length < Word \div 2, ~Wraps(start, length)
    PROVE  Signed((length + CRem(Signed(start))) % Word) = length + CRem(Signed(start))
<1> DEFINE H == Word \div 2
           r == pg_ofs(start)
           m == length + CRem(Signed(start))
<1>1. /\ H \in Nat /\ 2 * H <= Word /\ PGSIZE + 12 <= H /\ Word \in Nat /\ PGSIZE \in Nat
      /\ r \in Nat /\ r < PGSIZE
  <2> HIDE DEF r
  <2>1. r \in Nat /\ r < PGSIZE
    BY PageOf DEF r
  <2> QED BY <2>1, Half, Sizes
<1>2. length < H /\ (Misses(start) <=> start >= H /\ r # 0) /\ (Wraps(start, length) <=> start < H /\ r + length >= H)
  BY DEF Misses, Wraps
<1>3. m = length + (IF Misses(start) THEN r - PGSIZE ELSE r)
  BY OffsetIs
<1> HIDE DEF H, r, m
<1>4. m \in Int /\ m < H /\ 0 - PGSIZE < m
  <2>1. CASE Misses(start)
    BY <1>1, <1>2, <1>3, <2>1
  <2>2. CASE ~Misses(start) /\ start < H
    BY <1>1, <1>2, <1>3, <2>2
  <2>3. CASE ~Misses(start) /\ ~(start < H)
    BY <1>1, <1>2, <1>3, <2>3
  <2> QED BY <2>1, <2>2, <2>3
<1>5. CASE m >= 0
  <2>1. m \in Nat /\ m < Word
    BY <1>1, <1>4, <1>5
  <2>2. m % Word = m
    BY <2>1, FitsAWord
  <2>3. Signed(m) = m
    BY <1>4 DEF Signed, H
  <2> QED BY <2>2, <2>3 DEF m
<1>6. CASE m < 0
  <2>1. m + Word \in Nat /\ m + Word < Word /\ m + Word >= H
    BY <1>1, <1>4, <1>6
  <2>2. m % Word = m + Word
    BY <1>1, <1>4, <2>1
  <2>3. Signed(m + Word) = m
    <3>1. ~(m + Word < Word \div 2)
      BY <1>1, <2>1 DEF H
    <3> QED BY <1>1, <1>4, <3>1 DEF Signed
  <2> QED BY <2>2, <2>3 DEF m
<1> QED BY <1>4, <1>5, <1>6

LEMMA FixedLooks ==
    ASSUME NEW start \in Nat, NEW length \in Nat, start < Word, length < Word \div 2, ~Wraps(start, length)
    PROVE  verify_fix_length(start, length) =
             IF (start + length) % Word >= PHYS_BASE \/ start = 0 THEN "false"
             ELSE PagesAt(pg_round_down(start), Pages(start, length))
<1>1. Signed((length + CRem(Signed(start))) % Word) = length + CRem(Signed(start))
  BY AmountIs
<1>2. ~(length < 0)
  OBVIOUS
<1> QED BY <1>1, <1>2 DEF verify_fix_length, Pages, Count

\* They begin with the one of the address, and reach into the interval or, where the
\* offset is taken for a negative number, to a page before its last byte.
LEMMA PagesReach ==
    ASSUME NEW start \in Nat, NEW length \in Nat, start < Word
    PROVE  LET base == pg_round_down(start)
               end  == IF Misses(start) THEN start + length - PGSIZE ELSE start + length
               c == Pages(start, length)
           IN  /\ c \in Nat
               /\ c <= 1 \/ PGSIZE * c < end - base + PGSIZE
               /\ base <= end => end - base <= PGSIZE * c
<1> DEFINE base == pg_round_down(start)
           end  == IF Misses(start) THEN start + length - PGSIZE ELSE start + length
           c == Pages(start, length)
           n == end - base
           r == pg_ofs(start)
<1>1. /\ base \in Nat /\ r \in Nat /\ r < PGSIZE /\ start = base + r /\ PGSIZE \in Nat /\ PGSIZE > 0
  BY PageOf, Sizes DEF pg_round_down
<1>2. n = length + CRem(Signed(start)) /\ n \in Int
  <2>1. CASE Misses(start)
    BY <1>1, <2>1, OffsetIs
  <2>2. CASE ~Misses(start)
    BY <1>1, <2>2, OffsetIs
  <2> QED BY <2>1, <2>2
<1>3. 0 - PGSIZE < n
  <2>1. Misses(start) => r # 0
    BY DEF Misses
  <2> QED BY <1>1, <2>1
<1>4. c = Count(n)
  BY <1>2 DEF Pages
<1>5. base <= end <=> n >= 0
  BY <1>1
<1> HIDE DEF base, end, c, n, r
<1>6. CASE n >= 0
  <2>1. n \in Nat
    BY <1>2, <1>6
  <2>2. c \in Nat /\ n <= PGSIZE * c /\ PGSIZE * c < n + PGSIZE
    BY <1>4, <2>1, CountUp
  <2> QED BY <1>1, <2>2 DEF n, base, end, c
<1>7. CASE n < 0
  <2>1. c = 1
    BY <1>2, <1>3, <1>4, <1>7, CountDown
  <2>2. ~(base <= end)
    <3>1. n \in Int
      BY <1>2
    <3> QED BY <1>5, <1>7, <3>1
  <2> QED BY <2>1, <2>2 DEF base, end, c
<1> QED BY <1>2, <1>6, <1>7

LEMMA SameOrder ==
    ASSUME NEW i \in Nat, NEW c \in Nat, PGSIZE * i < PGSIZE * c PROVE i < c
<1>1. PGSIZE \in Nat /\ PGSIZE > 0 /\ PGSIZE * i \in Nat /\ PGSIZE * c \in Nat
  BY Sizes
<1>2. CASE c < i
  BY <1>1, <1>2, Multiples
<1> QED BY <1>1, <1>2

\* The pages looked up lie between those of the first byte and of the last.
LEMMA LooksAtTheInterval ==
    ASSUME NEW start \in Nat, NEW length \in Nat, start < PHYS_BASE, start + length < PHYS_BASE,
           NEW i \in 0..(Pages(start, length) - 1)
    PROVE  LET a == pg_round_down(start) + i * PGSIZE
           IN  /\ a \in Nat /\ a < PHYS_BASE
               /\ pg_no(a) = pg_no(start) \/ a \in start..(start + length - 1)
<1> DEFINE base == pg_round_down(start)
           end  == IF Misses(start) THEN start + length - PGSIZE ELSE start + length
           c == Pages(start, length)
           a == base + i * PGSIZE
<1>1. /\ base \in Nat /\ base <= start /\ start < base + PGSIZE
      /\ PGSIZE \in Nat /\ PGSIZE > 0 /\ PHYS_BASE \in Nat /\ start < Word
  BY PageOf, Sizes
<1>2. c \in Nat /\ (c <= 1 \/ PGSIZE * c < end - base + PGSIZE)
  BY <1>1, PagesReach
<1>3. end \in Int /\ end <= start + length
  BY <1>1
<1>4. i \in Nat /\ i < c
  BY <1>2
<1> HIDE DEF base, end, c
<1>5. CASE i = 0
  <2>1. a = base
    BY <1>1, <1>5
  <2>2. pg_no(base) = pg_no(start)
    BY RoundedDown DEF base
  <2> QED BY <1>1, <2>1, <2>2 DEF base
<1>6. CASE i # 0
  <2>1. PGSIZE * 0 + PGSIZE <= PGSIZE * i
    BY <1>1, <1>4, <1>6, Multiples
  <2>2. PGSIZE * i + PGSIZE <= PGSIZE * c
    BY <1>1, <1>2, <1>4, Multiples
  <2>3. PGSIZE * i \in Nat /\ i * PGSIZE = PGSIZE * i /\ PGSIZE * c \in Nat
    BY <1>1, <1>2, <1>4
  <2>4. ~(c <= 1)
    BY <1>2, <1>4, <1>6
  <2> DEFINE x == PGSIZE * i
             y == PGSIZE * c
  <2>5. x \in Nat /\ y \in Nat /\ PGSIZE <= x /\ x + PGSIZE <= y /\ y < end - base + PGSIZE /\ a = base + x
    BY <1>1, <1>2, <2>1, <2>2, <2>3, <2>4
  <2> HIDE DEF x, y, a
  <2>6. a \in Nat /\ start < a /\ a < start + length
    BY <1>1, <1>3, <2>5
  <2>7. a < PHYS_BASE /\ a \in start..(start + length - 1)
    BY <1>1, <2>6
  <2> QED BY <2>6, <2>7 DEF a, base
<1> QED BY <1>4, <1>5, <1>6

\* And reach every byte, but for a last page where the offset is negative.
LEMMA LooksUp ==
    ASSUME NEW start \in Nat, NEW length \in Nat, start < Word, NEW a \in Nat, start <= a,
           a < start + length,
           Misses(start) => a < pg_round_down(start + length - 1)
    PROVE  \E i \in 0..(Pages(start, length) - 1) : pg_no(pg_round_down(start) + i * PGSIZE) = pg_no(a)
<1> DEFINE base == pg_round_down(start)
           last == start + length - 1
           end  == IF Misses(start) THEN start + length - PGSIZE ELSE start + length
           c == Pages(start, length)
           ra == pg_round_down(a)
           q == pg_no(start)
           m == pg_no(a)
           i == m - q
<1>1. /\ base \in Nat /\ base <= start /\ start < base + PGSIZE /\ base = PGSIZE * q /\ q \in Nat
      /\ ra \in Nat /\ ra <= a /\ a < ra + PGSIZE /\ ra = PGSIZE * m /\ m \in Nat
      /\ PGSIZE \in Nat /\ PGSIZE > 0 /\ PHYS_BASE \in Nat /\ start < Word
  <2>1. PGSIZE \in Nat /\ PGSIZE > 0 /\ PHYS_BASE \in Nat /\ start < Word
    BY Sizes
  <2>2. base \in Nat /\ base <= start /\ start < base + PGSIZE /\ base = PGSIZE * q /\ q \in Nat
    BY PageOf
  <2>3. ra \in Nat /\ ra <= a /\ a < ra + PGSIZE /\ ra = PGSIZE * m /\ m \in Nat
    BY PageOf
  <2> HIDE DEF base, ra, q, m
  <2> QED BY <2>1, <2>2, <2>3
<1>2. c \in Nat /\ (base <= end => end - base <= PGSIZE * c)
  BY <1>1, PagesReach
<1>3. ra < end
  <2>1. CASE ~Misses(start)
    BY <1>1, <2>1
  <2>2. CASE Misses(start)
    <3> DEFINE l == pg_no(last)
               rl == pg_round_down(last)
    <3>1. last \in Nat
      OBVIOUS
    <3>2. l \in Nat /\ rl = PGSIZE * l /\ rl \in Nat /\ rl <= last
      BY <3>1, PageOf
    <3>3. a < rl
      BY <2>2
    <3>4. m < l
      <4> HIDE DEF l, rl, m, ra, last
      <4>1. PGSIZE * m < PGSIZE * l
        BY <1>1, <3>2, <3>3
      <4> QED BY <1>1, <3>2, <4>1, SameOrder
    <3>5. ra + PGSIZE <= rl
      <4> HIDE DEF l, rl, m, ra
      <4> QED BY <1>1, <3>2, <3>4, Multiples
    <3> HIDE DEF l, rl, ra, m
    <3> QED BY <1>1, <2>2, <3>2, <3>5
  <2> QED BY <2>1, <2>2
<1>4. q <= m
  <2> HIDE DEF q, m, base, ra
  <2>1. CASE m < q
    <3>1. ra + PGSIZE <= base
      BY <1>1, <2>1, Multiples
    <3> QED BY <1>1, <3>1
  <2> QED BY <1>1, <2>1
<1>5. i \in Nat /\ PGSIZE * i = ra - base
  <2> HIDE DEF q, m, base, ra
  <2> QED BY <1>1, <1>4
<1>6. i < c
  <2>1. end \in Int
    BY <1>1
  <2> HIDE DEF i, c, end, ra, base
  <2>2. base <= ra
    <3>1. PGSIZE * i \in Nat
      BY <1>1, <1>5
    <3> QED BY <1>1, <1>5, <3>1
  <2>3. ra - base < PGSIZE * c
    BY <1>1, <1>2, <1>3, <2>1, <2>2
  <2> QED BY <1>1, <1>2, <1>5, <2>3, SameOrder
<1>7. pg_no(base + i * PGSIZE) = m
  <2>1. base + i * PGSIZE = ra
    <3> HIDE DEF i, ra, base
    <3>1. i * PGSIZE = PGSIZE * i
      BY <1>1, <1>5
    <3> QED BY <1>1, <1>5, <3>1
  <2> QED BY <2>1, RoundedDown
<1>8. i \in 0..(c - 1)
  <2> HIDE DEF i, c
  <2> QED BY <1>2, <1>5, <1>6
<1> QED BY <1>7, <1>8

\* What verify_fix_length says of an interval that ends before the kernel.
LEMMA FixedIs ==
    ASSUME NEW start \in Nat, NEW length \in Nat, start < PHYS_BASE, start + length < PHYS_BASE,
           length < Word \div 2, ~Wraps(start, length)
    PROVE  /\ verify_fix_length(start, length) \in {"true", "false"}
           /\ start # 0 /\ Present(start) /\ (\A a \in start..(start + length - 1) : Present(a))
                => verify_fix_length(start, length) = "true"
           /\ verify_fix_length(start, length) = "true" =>
                start # 0 /\ \A a \in start..(start + length - 1) :
                                (Misses(start) => a < pg_round_down(start + length - 1)) => Present(a)
<1> DEFINE base == pg_round_down(start)
           c == Pages(start, length)
<1>1. /\ base \in Nat /\ c \in Nat /\ start < Word /\ start + length < Word /\ PHYS_BASE \in Nat
  <2>1. start < Word /\ start + length < Word /\ PHYS_BASE \in Nat
    BY Sizes
  <2> QED BY <2>1, PageOf, PagesReach
<1>2. verify_fix_length(start, length) = IF start = 0 THEN "false" ELSE PagesAt(base, c)
  <2>1. (start + length) % Word = start + length /\ ~(start + length >= PHYS_BASE)
    BY <1>1, FitsAWord
  <2> QED BY <1>1, <2>1, FixedLooks
<1> HIDE DEF c
<1>3. \A i \in 0..(c - 1) : base + i * PGSIZE < PHYS_BASE
  BY LooksAtTheInterval DEF c
<1>4. /\ PagesAt(base, c) \in {"true", "false"}
      /\ PagesAt(base, c) = "true" <=> \A i \in 0..(c - 1) : Present(base + i * PGSIZE)
  <2> HIDE DEF base
  <2> QED BY <1>1, <1>3, PagesAtIs
<1>5. ASSUME Present(start), \A a \in start..(start + length - 1) : Present(a), NEW i \in 0..(c - 1)
      PROVE  Present(base + i * PGSIZE)
  <2>1. pg_no(base + i * PGSIZE) = pg_no(start) \/ base + i * PGSIZE \in start..(start + length - 1)
    BY LooksAtTheInterval DEF c
  <2> QED BY <1>5, <2>1, SamePresence
<1>6. ASSUME \A i \in 0..(c - 1) : Present(base + i * PGSIZE), NEW a \in start..(start + length - 1),
             Misses(start) => a < pg_round_down(start + length - 1)
      PROVE  Present(a)
  <2>1. a \in Nat /\ start <= a /\ a < start + length
    OBVIOUS
  <2>2. PICK i \in 0..(c - 1) : pg_no(base + i * PGSIZE) = pg_no(a)
    BY <1>1, <1>6, <2>1, LooksUp DEF c
  <2> QED BY <1>6, <2>2, SamePresence
<1> HIDE DEF base
<1> QED BY <1>2, <1>4, <1>5, <1>6

\* The kernel begins with a page, and ends with one.
LEMMA KernelPages ==
    /\ PHYS_BASE + PGSIZE <= Word
    /\ \A a \in Nat : pg_round_down(a) < PHYS_BASE => a < PHYS_BASE
<1> DEFINE B == pg_no(PHYS_BASE)
           w == pg_no(Word)
<1>1. /\ B \in Nat /\ w \in Nat /\ PHYS_BASE = PGSIZE * B /\ Word = PGSIZE * w
      /\ PGSIZE \in Nat /\ PGSIZE > 0 /\ PHYS_BASE \in Nat /\ Word \in Nat /\ PHYS_BASE < Word
  <2>1. pg_ofs(PHYS_BASE) = 0 /\ pg_ofs(Word) = 0 /\ PHYS_BASE \in Nat /\ Word \in Nat
    BY Sizes DEF pg_ofs
  <2>2. B \in Nat /\ PHYS_BASE = PGSIZE * B + 0
    BY <2>1, PageOf
  <2>3. w \in Nat /\ Word = PGSIZE * w + 0
    BY <2>1, PageOf
  <2> HIDE DEF B, w
  <2> QED BY <2>1, <2>2, <2>3, Sizes
<1> HIDE DEF B, w
<1>2. PHYS_BASE + PGSIZE <= Word
  BY <1>1, SameOrder, Multiples
<1>3. ASSUME NEW a \in Nat, pg_round_down(a) < PHYS_BASE PROVE a < PHYS_BASE
  <2> DEFINE m == pg_no(a)
             rd == pg_round_down(a)
  <2>1. m \in Nat /\ rd = PGSIZE * m /\ rd \in Nat /\ a < rd + PGSIZE
    BY PageOf
  <2>2. rd < PHYS_BASE
    BY <1>3
  <2> HIDE DEF m, rd
  <2>3. m < B
    BY <1>1, <2>1, <2>2, SameOrder
  <2>4. rd + PGSIZE <= PHYS_BASE
    BY <1>1, <2>1, <2>3, Multiples
  <2> QED BY <1>1, <2>1, <2>4
<1> QED BY <1>2, <1>3

\* What verify_fix_length accepts is there and the user's, but for a last page where the offset
\* is negative: pages that go around the end of memory come upon the kernel's.
LEMMA FixedSound ==
    ASSUME NEW start \in Nat, NEW length \in Nat, start < Word, length < Word \div 2, ~Wraps(start, length),
           verify_fix_length(start, length) = "true"
    PROVE  start # 0 /\ \A a \in start..(start + length - 1) :
                           (Misses(start) => a < pg_round_down(start + length - 1)) => is_user_vaddr(a) /\ Present(a)
<1> DEFINE base == pg_round_down(start)
           c == Pages(start, length)
           q == pg_no(start)
           w == pg_no(Word)
<1>1. start # 0 /\ PagesAt(base, c) = "true"
  BY FixedLooks
<1>2. /\ base \in Nat /\ q \in Nat /\ base = PGSIZE * q /\ base <= start
      /\ w \in Nat /\ Word = PGSIZE * w /\ c \in Nat
  <2>1. base \in Nat /\ q \in Nat /\ base = PGSIZE * q /\ base <= start
    BY PageOf
  <2>2. pg_ofs(Word) = 0 /\ Word \in Nat
    BY Sizes DEF pg_ofs
  <2>3. w \in Nat /\ Word = PGSIZE * w + 0
    BY <2>2, PageOf
  <2>4. c \in Nat
    BY PagesReach
  <2> HIDE DEF base, q, w, c
  <2> QED BY <2>1, <2>2, <2>3, <2>4, Sizes
<1>3. PGSIZE \in Nat /\ PGSIZE > 0 /\ Word \in Nat /\ PHYS_BASE \in Nat /\ PHYS_BASE + PGSIZE <= Word
  BY Sizes, KernelPages
<1> HIDE DEF base, c, q, w
<1>4. ASSUME NEW i \in 0..(c - 1), ~(base + i * PGSIZE < Word) PROVE FALSE
  <2> DEFINE j == w - 1 - q
             x == PGSIZE * j
             y == PGSIZE * i
  <2>1. q < w
    BY <1>2, <1>3, SameOrder
  <2>2. j \in Nat /\ x = Word - PGSIZE - base
    BY <1>2, <1>3, <2>1
  <2>3. i \in Nat /\ y = i * PGSIZE /\ y \in Nat /\ x = j * PGSIZE
    BY <1>2, <1>3, <2>2
  <2> HIDE DEF x, y
  <2>4. x < y
    BY <1>2, <1>3, <1>4, <2>2, <2>3
  <2> HIDE DEF j
  <2>5. j < i
    BY <2>2, <2>3, <2>4, SameOrder DEF x, y
  <2>6. j \in 0..(c - 1)
    BY <1>2, <2>2, <2>3, <2>5
  <2>7. is_user_vaddr((base + j * PGSIZE) % Word)
    BY <1>1, <2>6, PagesTrue
  <2>8. base + j * PGSIZE = Word - PGSIZE /\ Word - PGSIZE \in Nat /\ Word - PGSIZE < Word
    BY <1>2, <1>3, <2>2, <2>3
  <2>9. (base + j * PGSIZE) % Word = Word - PGSIZE
    BY <2>8, FitsAWord
  <2> QED BY <1>3, <2>7, <2>9 DEF is_user_vaddr
<1>5. ASSUME NEW i \in 0..(c - 1) PROVE base + i * PGSIZE < PHYS_BASE /\ Present(base + i * PGSIZE)
  <2>1. i \in Nat /\ i * PGSIZE \in Nat
    BY <1>2, <1>3
  <2>2. base + i * PGSIZE \in Nat /\ base + i * PGSIZE < Word
    BY <1>2, <1>4, <2>1
  <2>3. (base + i * PGSIZE) % Word = base + i * PGSIZE
    BY <2>2, FitsAWord
  <2> QED BY <1>1, <2>3, PagesTrue DEF is_user_vaddr
<1>6. ASSUME NEW a \in start..(start + length - 1), Misses(start) => a < pg_round_down(start + length - 1)
      PROVE  is_user_vaddr(a) /\ Present(a)
  <2>1. a \in Nat /\ start <= a /\ a < start + length
    OBVIOUS
  <2>2. PICK i \in 0..(c - 1) : pg_no(base + i * PGSIZE) = pg_no(a)
    BY <1>6, <2>1, LooksUp DEF c, base
  <2>3. base + i * PGSIZE < PHYS_BASE /\ Present(base + i * PGSIZE)
    BY <1>5
  <2>4. Present(a)
    BY <2>2, <2>3, SamePresence
  <2>5. pg_round_down(a) <= base + i * PGSIZE
    <3> DEFINE v == base + i * PGSIZE
    <3>1. v \in Nat /\ base + i * PGSIZE = v
      BY <1>2, <1>3
    <3> HIDE DEF v
    <3>2. pg_round_down(v) = PGSIZE * pg_no(v) /\ pg_round_down(v) <= v
      BY <3>1, PageOf
    <3>3. pg_round_down(a) = PGSIZE * pg_no(a)
      BY <2>1, PageOf
    <3> QED BY <2>2, <3>1, <3>2, <3>3
  <2>6. pg_round_down(a) < PHYS_BASE
    <3> DEFINE v == base + i * PGSIZE
               rd == pg_round_down(a)
    <3>1. v \in Int /\ rd \in Nat /\ rd <= v /\ v < PHYS_BASE
      BY <1>2, <1>3, <2>1, <2>3, <2>5, PageOf
    <3> HIDE DEF v, rd
    <3>2. rd < PHYS_BASE
      BY <1>3, <3>1
    <3> QED BY <3>2 DEF rd
  <2>7. a < PHYS_BASE
    BY <2>1, <2>6, KernelPages
  <2> QED BY <2>4, <2>7 DEF is_user_vaddr
<1> QED BY <1>1, <1>6

\* Where the sum wraps around, one page is looked up, or none.
LEMMA FixedWraps ==
    ASSUME NEW start \in Nat, NEW length \in Nat, start + length < PHYS_BASE, length < Word \div 2,
           Wraps(start, length)
    PROVE  /\ verify_fix_length(start, length) \in {"true", "false"}
           /\ start # 0 /\ Present(start) => verify_fix_length(start, length) = "true"
<1> DEFINE base == pg_round_down(start)
           r == pg_ofs(start)
           H == Word \div 2
           m == length + r
           n == Signed(m % Word)
           c == Count(n)
<1>1. /\ r \in Nat /\ r < PGSIZE /\ base \in Nat /\ base <= start /\ pg_no(base) = pg_no(start)
      /\ PGSIZE \in Nat /\ H \in Nat /\ 2 * H <= Word /\ PGSIZE + 12 <= H /\ Word \in Nat
      /\ PHYS_BASE \in Nat /\ PHYS_BASE < Word
  <2>1. r \in Nat /\ r < PGSIZE /\ base \in Nat /\ base <= start /\ pg_no(base) = pg_no(start)
    BY PageOf, RoundedDown
  <2> HIDE DEF r, base
  <2> QED BY <2>1, Half, Sizes
<1>2. start < H /\ m >= H /\ length < H
  BY <1>1 DEF Wraps
<1>3. CRem(Signed(start)) = r
  <2>1. ~Misses(start) /\ start < Word
    BY <1>1, <1>2 DEF Misses
  <2> QED BY <2>1, OffsetIs
<1>4. (start + length) % Word = start + length /\ ~(start + length >= PHYS_BASE) /\ ~(length < 0)
  <2>1. start + length \in Nat /\ start + length < Word
    BY <1>1
  <2> QED BY <1>1, <2>1, FitsAWord
<1>5. verify_fix_length(start, length) = IF start = 0 THEN "false" ELSE PagesAt(base, c)
  BY <1>3, <1>4 DEF verify_fix_length, Count
<1>6. n \in Int /\ n < 0
  <2> HIDE DEF r
  <2>1. m \in Nat /\ m < Word
    BY <1>1, <1>2
  <2>2. m % Word = m
    BY <2>1, FitsAWord
  <2>3. ~(m < Word \div 2)
    BY <1>1, <1>2, <2>1
  <2>4. n = m - Word
    BY <2>2, <2>3 DEF Signed
  <2> QED BY <1>1, <2>1, <2>4
<1>7. c \in Int /\ c <= 1
  <2> HIDE DEF n
  <2> QED BY <1>6, CountBelow
<1> HIDE DEF c, base
<1>8. \A i \in 0..(c - 1) : base + i * PGSIZE = base
  <2>1. \A i \in 0..(c - 1) : i = 0
    BY <1>7
  <2> QED BY <1>1, <2>1
<1>9. \A i \in 0..(c - 1) : base + i * PGSIZE < PHYS_BASE
  <2>1. base < PHYS_BASE
    BY <1>1
  <2> QED BY <1>8, <2>1
<1>10. /\ PagesAt(base, c) \in {"true", "false"}
       /\ PagesAt(base, c) = "true" <=> \A i \in 0..(c - 1) : Present(base + i * PGSIZE)
  BY <1>1, <1>7, <1>9, PagesAtIs
<1>11. Present(start) => \A i \in 0..(c - 1) : Present(base + i * PGSIZE)
  BY <1>1, <1>8, SamePresence
<1> QED BY <1>5, <1>10, <1>11

\* verify_fix_length refuses what reaches into the kernel.
LEMMA FixedRefuses ==
    ASSUME NEW start \in Nat, NEW length \in Nat, start + length < Word, start + length >= PHYS_BASE
    PROVE  verify_fix_length(start, length) = "false"
<1>1. (start + length) % Word = start + length
  BY FitsAWord
<1> QED BY <1>1 DEF verify_fix_length

\* verify_fix_length accepts what is valid, and an invalid interval only where it misses.
LEMMA CheckedLengths == LengthsRight
<1> SUFFICES ASSUME NEW start \in 0..(Word - 1), NEW length \in 1..(Word \div 2 - 1)
             PROVE  LET end == start + length - 1
                        valid(last) == start # 0 /\ \A a \in start..last : is_user_vaddr(a) /\ Present(a)
                        answer == verify_fix_length(start, length)
                    IN  /\ answer = "panic" => end + 1 >= Word
                        /\ valid(end) /\ end + 1 < PHYS_BASE => answer = "true"
                        /\ answer = "true" /\ ~Wraps(start, length) =>
                              valid(IF Misses(start) THEN pg_round_down(end) - 1 ELSE end)
  BY DEF LengthsRight
<1> DEFINE end == start + length - 1
           rd == pg_round_down(end)
           answer == verify_fix_length(start, length)
           valid(last) == start # 0 /\ \A a \in start..last : is_user_vaddr(a) /\ Present(a)
<1>1. /\ start \in Nat /\ length \in Nat /\ start < Word /\ length < Word \div 2 /\ end + 1 = start + length
      /\ start \in start..end /\ end \in Nat /\ rd \in Nat /\ rd <= end
      /\ Word \in Nat /\ PHYS_BASE \in Nat /\ PHYS_BASE < Word
  <2>0. Word \div 2 \in Nat /\ Word \in Nat /\ PHYS_BASE \in Nat /\ PHYS_BASE < Word
    BY Half, Sizes
  <2>1. start \in Nat /\ length \in Nat /\ length > 0 /\ start < Word /\ length < Word \div 2
    BY <2>0
  <2>2. end \in Nat /\ end + 1 = start + length /\ start \in start..end
    BY <2>1
  <2>3. rd \in Nat /\ rd <= end
    BY <2>2, PageOf
  <2> QED BY <2>0, <2>1, <2>2, <2>3
<1> HIDE DEF answer
<1>2. start + length < PHYS_BASE =>
        /\ answer \in {"true", "false"}
        /\ start # 0 /\ Present(start) /\ (\A a \in start..end : Present(a)) => answer = "true"
  <2>1. CASE start + length < PHYS_BASE /\ Wraps(start, length)
    BY <1>1, <2>1, FixedWraps DEF answer
  <2>2. CASE start + length < PHYS_BASE /\ ~Wraps(start, length)
    <3>1. start < PHYS_BASE
      BY <1>1, <2>2
    <3> QED BY <1>1, <2>2, <3>1, FixedIs DEF answer
  <2> QED BY <2>1, <2>2
<1>3. start + length < Word /\ start + length >= PHYS_BASE => answer = "false"
  BY <1>1, FixedRefuses DEF answer
<1>4. answer = "true" /\ ~Wraps(start, length) =>
        start # 0 /\ \A a \in start..end : (Misses(start) => a < rd) => is_user_vaddr(a) /\ Present(a)
  BY <1>1, FixedSound DEF answer
<1>5. \A a \in start..(rd - 1) : a \in start..end /\ a < rd
  <2> HIDE DEF rd, end
  <2> QED BY <1>1
<1> HIDE DEF rd, end
<1>6. answer = "panic" => end + 1 >= Word
  BY <1>1, <1>2, <1>3
<1>7. valid(end) /\ end + 1 < PHYS_BASE => answer = "true"
  BY <1>1, <1>2
<1>8. answer = "true" /\ ~Wraps(start, length) => valid(IF Misses(start) THEN rd - 1 ELSE end)
  BY <1>4, <1>5
<1> QED BY <1>6, <1>7, <1>8 DEF answer, end, rd

\* verify_variable_length accepts the strings that are there up to their end.
LEMMA UserStrings ==
    ASSUME NEW start \in 0..(PHYS_BASE - 1)
    PROVE  LET valid(a) == \A c \in start..a : Present(c)
           IN  verify_variable_length(start) =
                 IF \E a \in start..(PHYS_BASE - 1) : valid(a) /\ Byte(a) = 0 THEN "true"
                 ELSE IF valid(PHYS_BASE - 1) THEN "panic" ELSE "false"
<1> DEFINE stops(a) == ~is_user_vaddr(a) \/ ~Present(a) \/ Byte(a) = 0
           valid(a) == \A c \in start..a : Present(c)
           Ends(a) == stops(a) /\ \A b \in start..(a - 1) : ~stops(b)
           last == CHOOSE a \in start..PHYS_BASE : Ends(a)
           all == {a \in start..PHYS_BASE : stops(a)}
<1>1. start \in Nat /\ PHYS_BASE \in Nat /\ start < PHYS_BASE
  BY Sizes
<1>2. \E a \in start..PHYS_BASE : Ends(a)
  <2>1. all \in SUBSET Nat
    BY <1>1
  <2>2. PHYS_BASE \in all
    BY <1>1 DEF is_user_vaddr
  <2>3. PICK a \in all : \A b \in all : a <= b
    BY <2>1, <2>2, LeastIn
  <2>4. ASSUME NEW b \in start..(a - 1) PROVE ~stops(b)
    <3>1. a \in start..PHYS_BASE /\ b \in start..PHYS_BASE /\ ~(a <= b)
      BY <1>1
    <3>2. b \notin all
      BY <2>3, <3>1
    <3> QED BY <3>1, <3>2
  <2> QED BY <2>4
<1>3. last \in start..PHYS_BASE /\ Ends(last)
  <2> HIDE DEF Ends
  <2> QED BY <1>2
<1>4. verify_variable_length(start) =
        IF start > PHYS_BASE \/ ~is_user_vaddr(last) THEN "panic"
        ELSE IF ~Present(last) THEN "false" ELSE "true"
  BY DEF verify_variable_length
<1> HIDE DEF last
<1>5. ~(start > PHYS_BASE)
  BY <1>1
<1>6. ASSUME NEW b \in start..(last - 1) PROVE b < PHYS_BASE /\ Present(b) /\ Byte(b) # 0
  BY <1>1, <1>3 DEF is_user_vaddr
<1>7. CASE ~is_user_vaddr(last)
  <2>1. last = PHYS_BASE
    BY <1>1, <1>3, <1>7 DEF is_user_vaddr
  <2> QED BY <1>4, <1>6, <1>7, <2>1
<1>8. CASE is_user_vaddr(last) /\ ~Present(last)
  <2>1. last < PHYS_BASE
    BY <1>8 DEF is_user_vaddr
  <2>2. ASSUME NEW a \in start..(PHYS_BASE - 1), valid(a) PROVE a \in start..(last - 1)
    <3>1. last \notin start..a
      BY <1>8, <2>2
    <3> QED BY <1>1, <1>3, <2>1, <3>1
  <2>3. PHYS_BASE - 1 \in start..(PHYS_BASE - 1) /\ PHYS_BASE - 1 \notin start..(last - 1)
    BY <1>1, <1>3, <2>1
  <2> QED BY <1>4, <1>5, <1>6, <1>8, <2>2, <2>3
<1>9. CASE is_user_vaddr(last) /\ Present(last)
  <2>1. last \in start..(PHYS_BASE - 1) /\ Byte(last) = 0
    BY <1>1, <1>3, <1>9 DEF is_user_vaddr
  <2>2. ASSUME NEW c \in start..last PROVE Present(c)
    <3>1. c = last \/ c \in start..(last - 1)
      BY <1>1, <1>3
    <3> QED BY <1>6, <1>9, <3>1
  <2> QED BY <1>4, <1>5, <1>9, <2>1, <2>2
<1> QED BY <1>7, <1>8, <1>9

LEMMA CheckedStrings == StringsRight
<1> SUFFICES ASSUME NEW start \in 0..(Word - 1), ~(start < PHYS_BASE)
             PROVE  LET valid(a) == \A c \in start..a : Present(c)
                    IN  verify_variable_length(start) =
                          IF \E a \in start..(PHYS_BASE - 1) : valid(a) /\ Byte(a) = 0 THEN "true"
                          ELSE IF valid(PHYS_BASE - 1) THEN "panic" ELSE "false"
  <2>1. ASSUME NEW start \in 0..(Word - 1), start < PHYS_BASE PROVE start \in 0..(PHYS_BASE - 1)
    BY <2>1, Sizes
  <2> QED BY <2>1, UserStrings DEF StringsRight
<1> DEFINE stops(a) == ~is_user_vaddr(a) \/ ~Present(a) \/ Byte(a) = 0
           Ends(a) == stops(a) /\ \A b \in start..(a - 1) : ~stops(b)
           last == CHOOSE a \in start..PHYS_BASE : Ends(a)
<1>1. start \in Nat /\ PHYS_BASE \in Nat /\ start >= PHYS_BASE
  BY Sizes
<1>2. ~\E a \in start..(PHYS_BASE - 1) : TRUE
  BY <1>1
<1>3. verify_variable_length(start) =
        IF start > PHYS_BASE \/ ~is_user_vaddr(last) THEN "panic"
        ELSE IF ~Present(last) THEN "false" ELSE "true"
  BY DEF verify_variable_length
<1>4. start > PHYS_BASE \/ ~is_user_vaddr(last)
  <2> SUFFICES ASSUME start = PHYS_BASE PROVE ~is_user_vaddr(last)
    BY <1>1
  <2>1. PHYS_BASE \in start..PHYS_BASE /\ Ends(PHYS_BASE)
    BY <1>1 DEF is_user_vaddr
  <2>2. last \in start..PHYS_BASE
    <3> HIDE DEF Ends
    <3> QED BY <2>1
  <2> HIDE DEF last
  <2>3. last = PHYS_BASE
    BY <1>1, <2>2
  <2> QED BY <1>1, <2>3 DEF is_user_vaddr
<1> HIDE DEF last
<1>5. verify_variable_length(start) = "panic"
  BY <1>3, <1>4
<1> QED BY <1>2, <1>5

LEMMA Calls == ASSUME NEW call \in DOMAIN argc PROVE argc[call] \in 0..3
BY DEF argc

\* The arguments of a call are read where the checks let them be read.
LEMMA UserArguments ==
    ASSUME NEW esp \in 0..(PHYS_BASE - 1), NEW call \in DOMAIN argc
    PROVE  LET valid(n) == esp # 0 /\ \A a \in esp..(esp + n * IntSize - 1) : is_user_vaddr(a) /\ Present(a)
               n == argc[call]
           IN  /\ valid(1 + n) => Arguments(call, esp) = IF esp + IntSize * Longer(1, n) < PHYS_BASE THEN "true" ELSE "false"
               /\ ~valid(Longer(1, n)) /\ ~Misses(esp) => Arguments(call, esp) = "false"
<1> DEFINE valid(m) == esp # 0 /\ \A a \in esp..(esp + m * IntSize - 1) : is_user_vaddr(a) /\ Present(a)
           n == argc[call]
           V(m) == verify_fix_length(esp, m * IntSize)
           read == IF \A a \in esp..(esp + (1 + n) * IntSize - 1) : is_user_vaddr(a) => Present(a)
                   THEN "true" ELSE "panic"
<1>1. /\ esp \in Nat /\ esp < PHYS_BASE /\ PHYS_BASE \in Nat /\ PHYS_BASE + 8 <= Word /\ Word \in Nat
      /\ n \in 0..3 /\ IntSize = 4
  BY Sizes, Calls DEF IntSize
<1>2. Arguments(call, esp) = IF V(1) # "true" THEN V(1) ELSE IF V(n) # "true" THEN V(n) ELSE read
  <2>1. V(1) = verify_fix_length(esp, IntSize)
    BY DEF IntSize
  <2>2. Arguments(call, esp) =
          IF verify_fix_length(esp, IntSize) # "true" THEN verify_fix_length(esp, IntSize)
          ELSE IF V(n) # "true" THEN V(n) ELSE read
    BY DEF Arguments
  <2> QED BY <2>1, <2>2
<1> HIDE DEF n
<1>3. ASSUME NEW m \in 0..3, esp + m * IntSize < PHYS_BASE
      PROVE  /\ V(m) \in {"true", "false"}
             /\ esp # 0 /\ Present(esp) /\ (\A a \in esp..(esp + m * IntSize - 1) : Present(a)) => V(m) = "true"
             /\ V(m) = "true" /\ ~Misses(esp) => valid(m)
  <2> DEFINE l == m * IntSize
  <2>1. l \in Nat /\ esp + l < PHYS_BASE /\ l <= 12
    BY <1>1, <1>3
  <2> HIDE DEF l
  <2>0. l < Word \div 2 /\ ~Wraps(esp, l)
    <3>1. pg_ofs(esp) \in Nat /\ pg_ofs(esp) < PGSIZE
      BY <1>1, PageOf
    <3> QED BY <2>1, <3>1, Half, Sizes DEF Wraps
  <2>2. /\ verify_fix_length(esp, l) \in {"true", "false"}
        /\ esp # 0 /\ Present(esp) /\ (\A a \in esp..(esp + l - 1) : Present(a))
             => verify_fix_length(esp, l) = "true"
        /\ verify_fix_length(esp, l) = "true" =>
             esp # 0 /\ \A a \in esp..(esp + l - 1) :
                          (Misses(esp) => a < pg_round_down(esp + l - 1)) => Present(a)
    BY <1>1, <2>0, <2>1, FixedIs
  <2>3. \A a \in esp..(esp + l - 1) : is_user_vaddr(a)
    BY <1>1, <2>1 DEF is_user_vaddr
  <2> QED BY <2>2, <2>3 DEF l
<1>4. ASSUME NEW m \in 0..3, esp + m * IntSize >= PHYS_BASE, esp + m * IntSize < Word PROVE V(m) = "false"
  <2> DEFINE l == m * IntSize
  <2>1. l \in Nat /\ esp + l < Word /\ esp + l >= PHYS_BASE
    BY <1>1, <1>4
  <2> HIDE DEF l
  <2>2. verify_fix_length(esp, l) = "false"
    BY <1>1, <2>1, FixedRefuses
  <2> QED BY <2>2 DEF l
<1> HIDE DEF V
<1>5. /\ 0 \in 0..3 /\ 1 \in 0..3 /\ esp + 1 * IntSize < Word
      /\ esp + 1 * IntSize < PHYS_BASE => esp + n * IntSize < Word
  BY <1>1
<1>6. Longer(1, n) = IF n = 0 THEN 1 ELSE n
  BY <1>1 DEF Longer
<1>7. ASSUME valid(1 + n)
      PROVE  Arguments(call, esp) = IF esp + IntSize * Longer(1, n) < PHYS_BASE THEN "true" ELSE "false"
  <2>1. \A a \in esp..(esp + (1 + n) * IntSize - 1) : is_user_vaddr(a) /\ Present(a)
    BY <1>7
  <2>2. /\ esp # 0 /\ Present(esp) /\ esp + (1 + n) * IntSize <= PHYS_BASE
    <3>1. esp \in esp..(esp + (1 + n) * IntSize - 1)
          /\ (esp + (1 + n) * IntSize - 1) \in esp..(esp + (1 + n) * IntSize - 1)
      BY <1>1
    <3>2. esp + (1 + n) * IntSize - 1 < PHYS_BASE
      BY <2>1, <3>1 DEF is_user_vaddr
    <3> QED BY <1>1, <1>7, <2>1, <3>1, <3>2
  <2>3. ASSUME NEW m \in {1, n}, esp + m * IntSize < PHYS_BASE PROVE V(m) = "true"
    <3>1. m \in 0..3 /\ \A a \in esp..(esp + m * IntSize - 1) : a \in esp..(esp + (1 + n) * IntSize - 1)
      BY <1>1, <2>3
    <3> QED BY <1>3, <2>1, <2>2, <2>3, <3>1
  <2>4. read = "true"
    BY <2>1
  <2>5. CASE n = 0
    <3>1. CASE esp + 4 < PHYS_BASE
      <4>1. V(1) = "true" /\ V(n) = "true"
        BY <1>1, <2>3, <2>5, <3>1
      <4> QED BY <1>1, <1>2, <1>6, <2>4, <2>5, <3>1, <4>1
    <3>2. CASE ~(esp + 4 < PHYS_BASE)
      <4>1. V(1) = "false"
        BY <1>1, <1>4, <1>5, <3>2
      <4> QED BY <1>1, <1>2, <1>6, <2>5, <3>2, <4>1
    <3> QED BY <3>1, <3>2
  <2>6. CASE n # 0
    <3>1. esp + 1 * IntSize < PHYS_BASE /\ esp + n * IntSize < PHYS_BASE /\ esp + IntSize * n < PHYS_BASE
      BY <1>1, <2>2, <2>6
    <3>2. V(1) = "true" /\ V(n) = "true"
      BY <2>3, <3>1
    <3> QED BY <1>2, <1>6, <2>4, <2>6, <3>1, <3>2
  <2> QED BY <2>5, <2>6
<1>8. ASSUME ~valid(Longer(1, n)), ~Misses(esp) PROVE Arguments(call, esp) = "false"
  <2>1. V(1) \in {"true", "false"}
    BY <1>1, <1>3, <1>4, <1>5
  <2>2. CASE V(1) = "false"
    BY <1>2, <2>2
  <2>3. CASE V(1) = "true"
    <3>1. esp + 1 * IntSize < PHYS_BASE
      BY <1>1, <1>4, <1>5, <2>3
    <3>2. valid(1)
      BY <1>3, <1>5, <1>8, <2>3, <3>1
    <3>3. n # 0 /\ ~valid(n)
      <4> HIDE DEF valid
      <4> QED BY <1>6, <1>8, <3>2
    <3>4. V(n) = "false"
      <4>1. CASE esp + n * IntSize < PHYS_BASE
        BY <1>1, <1>3, <1>8, <3>3, <4>1
      <4>2. CASE ~(esp + n * IntSize < PHYS_BASE)
        BY <1>1, <1>4, <1>5, <3>1, <4>2
      <4> QED BY <4>1, <4>2
    <3> QED BY <1>2, <2>3, <3>4
  <2> QED BY <2>1, <2>2, <2>3
<1> HIDE DEF read, V
<1> QED BY <1>7, <1>8 DEF n

LEMMA CheckedArguments == ArgumentsRight
<1> SUFFICES ASSUME NEW esp \in 0..(Word - 1), ~(esp < PHYS_BASE), NEW call \in DOMAIN argc
             PROVE  LET valid(n) == esp # 0 /\ \A a \in esp..(esp + n * IntSize - 1) : is_user_vaddr(a) /\ Present(a)
                        n == argc[call]
                    IN  /\ ~valid(1 + n)
                        /\ esp + IntSize * Longer(1, n) < Word => Arguments(call, esp) = "false"
  <2>1. ASSUME NEW esp \in 0..(Word - 1), esp < PHYS_BASE PROVE esp \in 0..(PHYS_BASE - 1)
    BY <2>1, Sizes
  <2> QED BY <2>1, UserArguments DEF ArgumentsRight
<1> DEFINE n == argc[call]
<1>1. esp \in Nat /\ PHYS_BASE \in Nat /\ esp >= PHYS_BASE /\ Word \in Nat /\ n \in 0..3 /\ IntSize = 4
  BY Sizes, Calls DEF IntSize
<1>2. esp \in esp..(esp + (1 + n) * IntSize - 1) /\ ~is_user_vaddr(esp)
  <2> HIDE DEF n
  <2> QED BY <1>1 DEF is_user_vaddr
<1>3. ASSUME esp + IntSize * Longer(1, n) < Word PROVE Arguments(call, esp) = "false"
  <2>1. esp + IntSize < Word /\ esp + IntSize >= PHYS_BASE /\ IntSize \in Nat
    <3> HIDE DEF n
    <3> QED BY <1>1, <1>3 DEF Longer
  <2>2. verify_fix_length(esp, IntSize) = "false"
    BY <1>1, <2>1, FixedRefuses
  <2> QED BY <2>2 DEF Arguments
<1> QED BY <1>2, <1>3

\* The checks of the system calls let the right addresses pass, and stop the others but for the
\* two exceptions named (a negative offset, a sum that wraps around): whatever pages the
\* program has, for every size of words and pages.
THEOREM AddressesAreChecked == Spec => []AddressesChecked
<1>1. AddressesChecked
  BY CheckedLengths, CheckedStrings, CheckedArguments DEF AddressesChecked
<1> QED BY <1>1, PTL
=============================================================================

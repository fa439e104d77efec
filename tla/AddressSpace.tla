---------------------------- MODULE AddressSpace ----------------------------
(***************************************************************************)
(* The memory of one user process: how load builds it from an executable   *)
(* (userprog/load.c over pagedir.c), how the system calls check the        *)
(* addresses a program hands them (verify_fix_length and                   *)
(* verify_variable_length of syscall.c), and how it is taken down again.   *)
(*                                                                         *)
(* Words are counted modulo Word, a power of two, as the processor does;   *)
(* an int is the same word read as a signed number.                        *)
(***************************************************************************)
EXTENDS Integers, Sequences, FiniteSets

CONSTANTS Word,         \* 2^32
          PGSIZE, PHYS_BASE,
          TableSpan,    \* pages one page table stands for
          Files,        \* executables: [length, header, phdrs]
          Nul,          \* offsets in the file at which there is a 0
          UserFrames, KernelFrames      \* most pages the two pools have left

\* The fields of a program header are words.  The kernel has at least 8 addresses, so that
\* the end of the arguments, once their number was checked, is still a word; and an int can
\* count the bytes of a page and of the arguments.
ASSUME AddressSpaceAssumption ==
    /\ {Word, PGSIZE, PHYS_BASE, TableSpan} \subseteq Nat \ {0}
    /\ PGSIZE < PHYS_BASE /\ PHYS_BASE + 8 <= Word
    /\ PHYS_BASE % PGSIZE = 0 /\ Word % PGSIZE = 0
    /\ PGSIZE + 12 <= Word \div 2
    /\ UserFrames \in Nat /\ KernelFrames \in Nat
    /\ \A file \in Files :
         /\ file.length \in Nat /\ file.header \in {"good", "bad", "none"}
         /\ Len(file.phdrs) \in Nat /\ DOMAIN file.phdrs = 1..Len(file.phdrs)
         /\ \A i \in DOMAIN file.phdrs :
              /\ {file.phdrs[i].offset, file.phdrs[i].vaddr} \subseteq 0..Word - 1
              /\ {file.phdrs[i].filesz, file.phdrs[i].memsz} \subseteq 0..Word - 1

pg_no(a)         == a \div PGSIZE
pg_ofs(a)        == a % PGSIZE
pg_round_down(a) == a - pg_ofs(a)
ROUND_UP(n)      == ((n + PGSIZE - 1) \div PGSIZE) * PGSIZE
is_user_vaddr(a) == a < PHYS_BASE
pd_no(a)         == pg_no(a) \div TableSpan

\* A word as an int, and division of ints in C, which rounds towards zero.
Signed(a) == IF a < Word \div 2 THEN a ELSE a - Word
CDiv(n)   == IF n < 0 THEN 0 - ((0 - n) \div PGSIZE) ELSE n \div PGSIZE
CRem(n)   == n - CDiv(n) * PGSIZE

VARIABLES
    pc,             \* how far load has come
    file,           \* the executable
    next,           \* number of the next program header
    segment,        \* arguments and locals of load_segment
    pagedir,        \* page directories allocated: 0 or 1
    tables,         \* page directory entries that have a page table
    pages,          \* present pages: page number to contents and rights
    user_free, kernel_free      \* pages left in the two pools

vars == <<pc, file, next, segment, pagedir, tables, pages, user_free, kernel_free>>
space == <<pagedir, tables, pages, user_free, kernel_free>>
NoSegment == [left |-> 0]

Init ==
    /\ pc = "create" /\ file \in Files /\ next = 1 /\ segment = NoSegment
    /\ pagedir = 0 /\ tables = {} /\ pages = <<>>
    /\ user_free \in 0..UserFrames /\ kernel_free \in 0..KernelFrames

-----------------------------------------------------------------------------
(* Page directories                                                        *)

\* pagedir_get_page finds a page that is present.
Present(a) == pd_no(a) \in tables /\ pg_no(a) \in DOMAIN pages

\* Mutant: the page that could not be mapped is not given back.
Install_Leaks(upage, contents, writable, then) ==
    LET table == IF pd_no(upage) \in tables THEN 0 ELSE 1
    IN  IF user_free = 0 \/ Present(upage) \/ kernel_free < table
        THEN /\ pc' = "failed"
             /\ user_free' = IF user_free = 0 THEN 0 ELSE user_free - 1
             /\ UNCHANGED <<tables, pages, kernel_free>>
        ELSE /\ pc' = then
             /\ tables' = tables \cup {pd_no(upage)}
             /\ pages' = [p \in DOMAIN pages \cup {pg_no(upage)} |->
                    IF p = pg_no(upage) THEN [bytes |-> contents, writable |-> writable] ELSE pages[p]]
             /\ user_free' = user_free - 1 /\ kernel_free' = kernel_free - table

\* palloc_get_page (PAL_USER), install_page and pagedir_set_page; lookup_page makes a
\* page table if there is none.  A page that is in the way, or no memory for the table,
\* gives the new page back.
Install(upage, contents, writable, then) ==
    LET table == IF pd_no(upage) \in tables THEN 0 ELSE 1
    IN  IF user_free = 0 \/ Present(upage) \/ kernel_free < table
        THEN pc' = "failed" /\ UNCHANGED <<tables, pages, user_free, kernel_free>>
        ELSE /\ pc' = then
             /\ tables' = tables \cup {pd_no(upage)}
             /\ pages' = [p \in DOMAIN pages \cup {pg_no(upage)} |->
                    IF p = pg_no(upage) THEN [bytes |-> contents, writable |-> writable] ELSE pages[p]]
             /\ user_free' = user_free - 1 /\ kernel_free' = kernel_free - table

\* pagedir_create.
Create ==
    /\ pc = "create"
    /\ IF kernel_free = 0 THEN pc' = "failed" /\ UNCHANGED <<pagedir, kernel_free>>
       ELSE pc' = "stack" /\ pagedir' = 1 /\ kernel_free' = kernel_free - 1
    /\ UNCHANGED <<file, next, segment, tables, pages, user_free>>

\* setup_stack.
SetupStack ==
    /\ pc = "stack"
    /\ Install(PHYS_BASE - PGSIZE, [i \in 0..(PGSIZE - 1) |-> 0], TRUE, "open")
    /\ UNCHANGED <<file, next, segment, pagedir>>

-----------------------------------------------------------------------------
(* load                                                                    *)

\* The file is opened and its header checked.
Open ==
    /\ pc = "open"
    /\ pc' = IF file.header = "good" THEN "headers" ELSE "failed"
    /\ UNCHANGED <<file, next, segment, space>>

validate_segment(p) ==
    /\ pg_ofs(p.offset) = pg_ofs(p.vaddr)
    /\ p.offset <= file.length
    /\ p.memsz >= p.filesz /\ p.memsz # 0
    /\ is_user_vaddr(p.vaddr)
    /\ is_user_vaddr((p.vaddr + p.memsz) % Word)
    /\ (p.vaddr + p.memsz) % Word >= p.vaddr
    /\ p.vaddr >= PGSIZE

\* Mutant: reading starts at the segment's own offset.
Segment_Unaligned(p) ==
    LET read == IF p.filesz = 0 THEN 0 ELSE pg_ofs(p.vaddr) + p.filesz
    IN  [ofs |-> p.offset, upage |-> pg_round_down(p.vaddr), read |-> read,
         left |-> ROUND_UP(pg_ofs(p.vaddr) + p.memsz), writable |-> p.writable]

\* What load_segment is called with: whole pages, from the page the segment begins in.
Segment(p) ==
    LET read == IF p.filesz = 0 THEN 0 ELSE pg_ofs(p.vaddr) + p.filesz
    IN  [ofs |-> pg_round_down(p.offset), upage |-> pg_round_down(p.vaddr), read |-> read,
         left |-> ROUND_UP(pg_ofs(p.vaddr) + p.memsz), writable |-> p.writable]

\* One program header.
ReadHeader ==
    /\ pc = "headers" /\ next <= Len(file.phdrs)
    /\ LET p == file.phdrs[next]
       IN  /\ pc' = CASE p.type = "ignored" -> "headers"
                      [] p.type = "load" /\ validate_segment(p) -> "segment"
                      [] OTHER -> "failed"
           /\ segment' = IF p.type = "load" /\ validate_segment(p) THEN Segment(p) ELSE NoSegment
    /\ next' = next + 1
    /\ UNCHANGED <<file, space>>

Loaded ==
    /\ pc = "headers" /\ next > Len(file.phdrs)
    /\ pc' = "running"
    /\ UNCHANGED <<file, next, segment, space>>

FileByte(o) == IF o \in Nul THEN 0 ELSE o + 1

\* One round of the loop in load_segment: part of the page is read, the rest cleared.
LoadPage ==
    LET s == segment
        n == IF s.read < PGSIZE THEN s.read ELSE PGSIZE
        contents == [i \in 0..(PGSIZE - 1) |-> IF i < n THEN FileByte(s.ofs + i) ELSE 0]
        rest == [s EXCEPT !.ofs = @ + n, !.upage = @ + PGSIZE, !.read = @ - n, !.left = @ - PGSIZE]
    IN  /\ pc = "segment"
        /\ IF n > 0 /\ s.ofs + n > file.length
           THEN pc' = "failed" /\ UNCHANGED <<tables, pages, user_free, kernel_free>>
           ELSE Install(s.upage, contents, s.writable, IF rest.left = 0 THEN "headers" ELSE "segment")
        /\ segment' = IF rest.left = 0 THEN NoSegment ELSE rest
        /\ UNCHANGED <<file, next, pagedir>>

\* process_cleanup of a process that ended, or could not be loaded: pagedir_destroy.
Destroy ==
    /\ pc \in {"running", "failed"}
    /\ pc' = "gone" /\ pagedir' = 0 /\ tables' = {} /\ pages' = <<>> /\ segment' = NoSegment
    /\ user_free' = user_free + Cardinality(DOMAIN pages)
    /\ kernel_free' = kernel_free + Cardinality(tables) + pagedir
    /\ UNCHANGED <<file, next>>

-----------------------------------------------------------------------------
(* The checks of the system calls                                          *)

\* The pages from first on, count of them, asked for with pagedir_get_page one after
\* the other: "panic" is its assertion that the address is a user's.
PagesAt(first, count) ==
    LET page(i) == (first + i * PGSIZE) % Word
        bad == {i \in 0..(count - 1) : ~is_user_vaddr(page(i)) \/ ~Present(page(i))}
    IN  IF bad = {} THEN "true"
        ELSE LET i == CHOOSE i \in bad : \A j \in bad : i <= j
             IN  IF is_user_vaddr(page(i)) THEN "false" ELSE "panic"

\* Mutant: the offset in the first page is forgotten.
verify_fix_length_NoOffset(start, length) ==
    IF (start + length) % Word >= PHYS_BASE \/ start = 0 \/ length < 0 THEN "false"
    ELSE PagesAt(pg_round_down(start), CDiv(length) + (IF CRem(length) # 0 THEN 1 ELSE 0))

\* length is an int; so are the offset in the first page, whose sign is start's, and their
\* sum, which wraps around: then there is no page to look at.
verify_fix_length(start, length) ==
    LET amount == Signed((length + CRem(Signed(start))) % Word)
    IN  IF (start + length) % Word >= PHYS_BASE \/ start = 0 \/ length < 0 THEN "false"
        ELSE PagesAt(pg_round_down(start), CDiv(amount) + (IF CRem(amount) # 0 THEN 1 ELSE 0))

Byte(a) == pages[pg_no(a)].bytes[pg_ofs(a)]

\* The loop over the characters stops at the first one that is a 0, or in a page that is
\* not there; or at PHYS_BASE, where the page is looked up before the address is compared.
verify_variable_length(start) ==
    LET stops(a) == ~is_user_vaddr(a) \/ ~Present(a) \/ Byte(a) = 0
        last == CHOOSE a \in start..PHYS_BASE : stops(a) /\ \A b \in start..(a - 1) : ~stops(b)
    IN  IF start > PHYS_BASE \/ ~is_user_vaddr(last) THEN "panic"
        ELSE IF ~Present(last) THEN "false" ELSE "true"

IntSize == 4
argc == [halt |-> 0, exit |-> 1, exec |-> 1, wait |-> 1, create |-> 2, remove |-> 1, open |-> 1, filesize |-> 1,
         read |-> 3, write |-> 3, seek |-> 2, tell |-> 1, close |-> 1]

\* How syscall_handler gets the number of the call and its arguments: "panic" is a fault of
\* the kernel itself, which reads them after two checks.
Arguments(call, esp) ==
    LET read == esp..(esp + (1 + argc[call]) * IntSize - 1)
        steps == <<verify_fix_length(esp, IntSize), verify_fix_length(esp, argc[call] * IntSize),
                   IF \A a \in read : is_user_vaddr(a) => Present(a) THEN "true" ELSE "panic">>
    IN  IF steps[1] # "true" THEN steps[1] ELSE IF steps[2] # "true" THEN steps[2] ELSE steps[3]

Next == Create \/ SetupStack \/ Open \/ ReadHeader \/ Loaded \/ LoadPage \/ Destroy
Spec == Init /\ [][Next]_vars
=============================================================================

----------------------- MODULE AddressSpaceProperties -----------------------
(***************************************************************************)
(* What programs rely on from load, and the kernel from its own checks.    *)
(***************************************************************************)
EXTENDS AddressSpace

Longer(x, y) == IF x < y THEN y ELSE x

LoadSegments == {p \in {file.phdrs[i] : i \in DOMAIN file.phdrs} : p.type = "load"}

\* A program that runs has the memory its executable describes, byte by byte: each
\* segment begins with what the file holds at its offset and goes on with zeros, is
\* writable exactly if it says so, page 0 is never there, and neither is a page that
\* no segment reaches into except the one of the stack.
ImageRight ==
    pc = "running" =>
        /\ \A p \in LoadSegments : \A a \in p.vaddr..(p.vaddr + p.memsz - 1) :
              /\ Present(a) /\ is_user_vaddr(a)
              /\ Byte(a) = IF a - p.vaddr < p.filesz THEN FileByte(p.offset + (a - p.vaddr)) ELSE 0
              /\ pages[pg_no(a)].writable = p.writable
        /\ 0 \notin DOMAIN pages
        /\ \A n \in DOMAIN pages :
              \/ n = pg_no(PHYS_BASE - PGSIZE)
              \/ \E p \in LoadSegments : \E a \in p.vaddr..(p.vaddr + p.memsz - 1) : pg_no(a) = n

\* However far load comes and whatever it fails on, no frame is lost or given back twice:
\* what is in the pools and what the process has add up to the same.
NoFrameLost ==
    [][/\ user_free' + Cardinality(DOMAIN pages') = user_free + Cardinality(DOMAIN pages)
       /\ kernel_free' + pagedir' + Cardinality(tables') =
            kernel_free + pagedir + Cardinality(tables)]_vars

\* The offset of start in its page is negative as an int: addresses from 2^31 on, unless a
\* page begins there.  What is counted from it ends a page early.
Misses(start) == start >= Word \div 2 /\ pg_ofs(start) # 0

\* The offset and length together are no int any more: intervals of 2 GB but a page.
Wraps(start, length) == start < Word \div 2 /\ pg_ofs(start) + length >= Word \div 2

\* For every address and length, those of the kernel and beyond the last one included:
\* verify_fix_length accepts an interval whose addresses are all valid, and refuses one that
\* has an invalid address.  There are two exceptions: where the offset is negative it
\* may miss the last page, and of an interval so long that the sum wraps around it
\* looks at no page at all.  The assertion of pagedir_get_page fails only for intervals
\* that go around the end of memory.
LengthsRight ==
    \A start \in 0..(Word - 1), length \in 1..(Word \div 2 - 1) :
        LET end == start + length - 1
            valid(last) == start # 0 /\ \A a \in start..last : is_user_vaddr(a) /\ Present(a)
            answer == verify_fix_length(start, length)
        IN  /\ answer = "panic" => end + 1 >= Word
            /\ valid(end) /\ end + 1 < PHYS_BASE => answer = "true"
            /\ answer = "true" /\ ~Wraps(start, length) =>
                  valid(IF Misses(start) THEN pg_round_down(end) - 1 ELSE end)

\* verify_variable_length accepts exactly the strings whose addresses are valid up to the
\* first 0.  A string in the kernel, or that runs into it, is not refused but fails an assertion.
StringsRight ==
    \A start \in 0..(Word - 1) :
        LET valid(a) == \A c \in start..a : Present(c)
        IN  verify_variable_length(start) =
              IF \E a \in start..(PHYS_BASE - 1) : valid(a) /\ Byte(a) = 0 THEN "true"
              ELSE IF valid(PHYS_BASE - 1) THEN "panic" ELSE "false"

\* A call whose number and arguments the program can read goes on, unless the part that is
\* checked reaches up to the kernel.  One whose number, or an argument before the last, it
\* cannot read is refused and does not fault the kernel, unless the check missed a page or
\* what is checked goes around the end of memory.
ArgumentsRight ==
    \A esp \in 0..(Word - 1), call \in DOMAIN argc :
        LET valid(n) == esp # 0 /\ \A a \in esp..(esp + n * IntSize - 1) : is_user_vaddr(a) /\ Present(a)
            n == argc[call]
        IN  /\ valid(1 + n) => Arguments(call, esp) = IF esp + IntSize * Longer(1, n) < PHYS_BASE THEN "true" ELSE "false"
            /\ ~valid(Longer(1, n)) /\ ~Misses(esp) /\ esp + IntSize * Longer(1, n) < Word =>
                  Arguments(call, esp) = "false"

\* What the system calls let pass, for every address and length a program may hand over,
\* every place of its stack and every layout of its memory.
AddressesChecked == pc = "running" => LengthsRight /\ StringsRight /\ ArgumentsRight
=============================================================================

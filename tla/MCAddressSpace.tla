--------------------------- MODULE MCAddressSpace ---------------------------
(* Executables with one segment of any kind, and with two.  32 addresses,
   pages of 4: the user has 6 pages, the topmost for the stack; addresses
   from 16 on are negative as ints. *)
EXTENDS AddressSpaceProperties

Header(type, offset, vaddr, filesz, memsz, writable) ==
    [type |-> type, offset |-> offset, vaddr |-> vaddr, filesz |-> filesz, memsz |-> memsz,
     writable |-> writable]
File(phdrs) == [length |-> 11, header |-> "good", phdrs |-> phdrs]

Segments == {Header("load", o, v, f, m, v % 2 = 0) :
                o \in {0, 1, 2, 6, 12}, v \in {2, 4, 5, 6, 9, 14, 17, 22, 26}, f \in {0, 3, 5, 6}, m \in {0, 3, 6, 9, 29}}
Second == {Header("load", 4, 8, 2, 5, TRUE), Header("load", 1, 13, 4, 4, FALSE)}

MCFiles ==
    {File(<<p>>) : p \in Segments}
    \cup {File(<<Header("ignored", 0, 0, 0, 0, FALSE), p, q>>) : p \in {s \in Segments : s.vaddr \in {4, 5, 9}}, q \in Second}
    \cup {File(<<Header("interp", 0, 0, 0, 0, FALSE)>>)}
    \cup {[length |-> 0, header |-> h, phdrs |-> <<>>] : h \in {"bad", "none"}}
MCNul == {3, 7}
=============================================================================

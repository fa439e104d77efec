----------------------------- MODULE OpenFiles -----------------------------
(***************************************************************************)
(* What flist.h asks of the table of open files: a descriptor names the    *)
(* file it was handed out for until the process closes it or ends, and     *)
(* then the file is closed, once.  Each operation is given what the system *)
(* call is given.                                                          *)
(***************************************************************************)
EXTENDS Integers, Functions

CONSTANTS Process, File, Length
VARIABLES files,    \* of each process: its descriptors and their files
          pos, eax  \* positions in the open files; what the last call returned

Init ==
    /\ files = [p \in Process |-> <<>>] /\ pos = <<>>
    /\ eax = [p \in Process |-> 0]

Owns(p, fd) == fd \in DOMAIN files[p]
Moves(p, fd, position) == pos' = [pos EXCEPT ![files[p][fd]] = position]
Returns(p, value) == eax' = [eax EXCEPT ![p] = value]
Refused(p) == Returns(p, -1) /\ UNCHANGED <<files, pos>>

\* The descriptor is new, and so is the file.
Open(p) ==
    \/ Refused(p)
    \/ /\ ~Owns(p, eax'[p])
       /\ \E f \in File \ DOMAIN pos :
             /\ files' = [files EXCEPT ![p] = [d \in DOMAIN files[p] \cup {eax'[p]} |->
                    IF d = eax'[p] THEN f ELSE files[p][d]]]
             /\ pos' = [g \in DOMAIN pos \cup {f} |-> IF g = f THEN 0 ELSE pos[g]]
       /\ Returns(p, eax'[p])

Close(p, fd) ==
    IF Owns(p, fd)
    THEN /\ files' = [files EXCEPT ![p] = Restrict(files[p], DOMAIN files[p] \ {fd})]
         /\ pos' = Restrict(pos, DOMAIN pos \ {files[p][fd]})
         /\ UNCHANGED eax
    ELSE Refused(p)

Transfer(p, fd, size) ==
    IF Owns(p, fd)
    THEN LET from == pos[files[p][fd]]
         IN  /\ Moves(p, fd, from + eax'[p])
             /\ eax'[p] \in 0..size
             /\ eax'[p] < size => from + eax'[p] >= Length
             /\ eax'[p] > 0 => from + eax'[p] <= Length
             /\ Returns(p, eax'[p]) /\ UNCHANGED files
    ELSE Refused(p)

\* Descriptor 0 is read and 1 is written, and both take all.
Read(p, fd, size) ==
    IF fd = 0 THEN Returns(p, size) /\ UNCHANGED <<files, pos>> ELSE Transfer(p, fd, size)
Write(p, fd, size) ==
    IF fd = 1 THEN Returns(p, size) /\ UNCHANGED <<files, pos>> ELSE Transfer(p, fd, size)

Seek(p, fd, position) ==
    IF Owns(p, fd) THEN Moves(p, fd, position) /\ Returns(p, fd) /\ UNCHANGED files
    ELSE Refused(p)

Tell(p, fd) ==
    IF Owns(p, fd) THEN Returns(p, pos[files[p][fd]]) /\ UNCHANGED <<files, pos>>
    ELSE Refused(p)

FileSize(p, fd) ==
    IF Owns(p, fd) THEN Returns(p, Length) /\ UNCHANGED <<files, pos>>
    ELSE Refused(p)

Exit(p) ==
    /\ files' = [files EXCEPT ![p] = <<>>]
    /\ pos' = Restrict(pos, DOMAIN pos \ {files[p][fd] : fd \in DOMAIN files[p]})
    /\ UNCHANGED eax
=============================================================================

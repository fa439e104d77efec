----------------------------- MODULE FileTable -----------------------------
(***************************************************************************)
(* The descriptors of each process (userprog/flist.c) and the system calls *)
(* that use them.  The table is part of struct thread (threads/thread.h):  *)
(* content has MAP_SIZE words, and the words behind it are the table's own *)
(* initiated, then pagedir and magic, then the thread's stack.  Positions  *)
(* count from the start of content, so flist.c can reach all of them.      *)
(*                                                                         *)
(* A file is the address of a struct file; malloc may hand an address out  *)
(* again when it was freed.  What is in the files is left to InodeRW.      *)
(***************************************************************************)
EXTENDS Integers, FiniteSets, Functions

CONSTANTS Process, File, NULL,
          MAP_SIZE, START_POSITION,
          Fds,          \* numbers that programs use as descriptors
          Length,       \* length of every file
          Sizes,        \* lengths that programs ask for
          Offsets       \* positions they ask for: as an off_t, negative from 2^31 on

ASSUME FileTableAssumption ==
    /\ MAP_SIZE \in Nat /\ START_POSITION \in Nat /\ START_POSITION < MAP_SIZE
    /\ Fds \subseteq Int /\ Length \in Nat /\ Sizes \subseteq Nat /\ Offsets \subseteq Int
    /\ NULL \notin File /\ {"initiated", "pagedir", "magic", "kernel"} \cap (File \cup {NULL}) = {}

VARIABLES words,    \* of the table of each process, and behind it
          pos,      \* position in each file that is open
          eax,      \* what the last system call of each process returned
          wild      \* something that is no open file was used as one, an assertion failed or
                    \* a word of the kernel was overwritten: nothing is known from then on

fileVars == <<words, pos, eax, wild>>
open == DOMAIN pos

STDIN_FILENO == 0
STDOUT_FILENO == 1

Positions == 0..(MAP_SIZE + START_POSITION)
Gone == [i \in Positions |-> NULL]

FilesInit ==
    /\ words = [p \in Process |-> Gone] /\ wild = FALSE
    /\ pos = <<>> /\ eax = [p \in Process |-> 0]

\* filesys_close and NULL for each of the positions of content w.
Reset(w, positions) ==
    LET closed == {w[i] : i \in positions} \ {NULL}
        taken == {i \in positions : w[i] # NULL}
    IN  /\ pos' = Restrict(pos, open \ closed)
        /\ wild' = (wild \/ ~(closed \subseteq open) \/ Cardinality(closed) # Cardinality(taken))

Cleared(w, positions) == [i \in Positions |-> IF i \in positions THEN NULL ELSE w[i]]

-----------------------------------------------------------------------------

\* init_thread with flist_init, and then the page directory of a process that is loaded.
Start(p) ==
    LET zeroed == [Gone EXCEPT ![MAP_SIZE + 2] = "magic"]
        reset == START_POSITION..(START_POSITION + MAP_SIZE - 1)
    IN  /\ words[p] = Gone
        /\ words' = [words EXCEPT ![p] =
               [Cleared(zeroed, reset) EXCEPT ![MAP_SIZE] = "initiated", ![MAP_SIZE + 1] = "pagedir"]]
        /\ Reset(zeroed, reset)
        /\ UNCHANGED eax

Running(p) == words[p] # Gone

\* The positions that are scanned for a free one: START_POSITION of them are behind content.
Free(p) == {i \in START_POSITION..(START_POSITION + MAP_SIZE - 1) : words[p][i] = NULL}

\* The scan ends at the last position when none is free.
flist_get_next_free_position(p) ==
    IF Free(p) = {} THEN START_POSITION + MAP_SIZE - 1
    ELSE CHOOSE i \in Free(p) : \A j \in Free(p) : i <= j

\* SYS_OPEN: filesys_open finds the file or does not; flist_insert, which overwrites what is
\* at the last position when none is free.
Open(p) ==
    /\ Running(p)
    /\ \/ /\ eax' = [eax EXCEPT ![p] = -1]
          /\ UNCHANGED <<words, pos, wild>>
       \/ \E f \in File \ open :
             LET fd == flist_get_next_free_position(p)
             IN  /\ words' = [words EXCEPT ![p][fd] = f]
                 /\ pos' = [g \in open \cup {f} |-> IF g = f THEN 0 ELSE pos[g]]
                 /\ eax' = [eax EXCEPT ![p] = fd]
                 /\ wild' = (wild \/ words[p][fd] \notin File \cup {NULL})

flist_get_from_index(p, fd) ==
    IF fd > MAP_SIZE + START_POSITION \/ fd < 0 THEN NULL ELSE words[p][fd]

\* SYS_CLOSE.
Close(p, fd) ==
    /\ Running(p)
    /\ IF flist_get_from_index(p, fd) # NULL
       THEN /\ words' = [words EXCEPT ![p] = Cleared(words[p], {fd})]
            /\ Reset(words[p], {fd})
            /\ UNCHANGED eax
       ELSE eax' = [eax EXCEPT ![p] = -1] /\ UNCHANGED <<words, pos, wild>>

\* file_read and file_write: the position moves by what was transferred.
Transfer(p, fd, size) ==
    LET f == flist_get_from_index(p, fd)
        left == IF f \in open /\ pos[f] < Length THEN Length - pos[f] ELSE 0
        bytes == IF size < left THEN size ELSE left
    IN  /\ eax' = [eax EXCEPT ![p] = IF f = NULL THEN -1 ELSE bytes]
        /\ UNCHANGED words
        /\ pos' = IF f \in open THEN [pos EXCEPT ![f] = @ + bytes] ELSE pos
        /\ wild' = (wild \/ f \notin open \cup {NULL})

\* SYS_READ: from the keyboard, which gives as many characters as are wanted, or a file.
Read(p, fd, size) ==
    /\ Running(p)
    /\ IF fd \in {STDIN_FILENO, STDOUT_FILENO}
       THEN eax' = [eax EXCEPT ![p] = IF fd = STDIN_FILENO THEN size ELSE -1] /\ UNCHANGED <<words, pos, wild>>
       ELSE Transfer(p, fd, size)

\* SYS_WRITE: to the screen, or to a file.
Write(p, fd, size) ==
    /\ Running(p)
    /\ IF fd \in {STDIN_FILENO, STDOUT_FILENO}
       THEN eax' = [eax EXCEPT ![p] = IF fd = STDOUT_FILENO THEN size ELSE -1] /\ UNCHANGED <<words, pos, wild>>
       ELSE Transfer(p, fd, size)

\* The word at fd, without a look at fd.  Words further away than the table reaches hold
\* anything, also what is in the table of another thread.
flist_get_from_fd(p, fd) ==
    IF fd \in Positions THEN {words[p][fd]} ELSE {NULL, "kernel"} \cup open

\* SYS_SEEK, SYS_TELL and SYS_FILESIZE.  file_seek asserts that the position is not negative.
Seek(p, fd, position) ==
    /\ Running(p)
    /\ \E f \in flist_get_from_fd(p, fd) :
          /\ wild' = (wild \/ f \notin open \cup {NULL} \/ (f # NULL /\ position < 0))
          /\ eax' = [eax EXCEPT ![p] = IF f = NULL THEN -1 ELSE fd]
          /\ pos' = IF f \in open /\ position >= 0 THEN [pos EXCEPT ![f] = position] ELSE pos
    /\ UNCHANGED words

Tell(p, fd) ==
    /\ Running(p)
    /\ \E f \in flist_get_from_fd(p, fd) :
          /\ wild' = (wild \/ f \notin open \cup {NULL})
          /\ eax' = [eax EXCEPT ![p] = IF f \in open THEN pos[f] ELSE -1]
    /\ UNCHANGED <<words, pos>>

FileSize(p, fd) ==
    /\ Running(p)
    /\ \E f \in flist_get_from_fd(p, fd) :
          /\ wild' = (wild \/ f \notin open \cup {NULL})
          /\ eax' = [eax EXCEPT ![p] = IF f = NULL THEN -1 ELSE Length]
    /\ UNCHANGED <<words, pos>>

\* Mutant: as many positions as can be handed out, counted from 0.
flist_remove_all_Few == 0..(MAP_SIZE - START_POSITION - 1)

\* The positions flist_remove_all resets.
flist_remove_all == 0..(MAP_SIZE - 1)

\* process_cleanup; the page of the thread is freed later.
Exit(p) ==
    /\ Running(p)
    /\ words' = [words EXCEPT ![p] = Gone]
    /\ Reset(words[p], flist_remove_all)
    /\ UNCHANGED eax

FilesNext ==
    /\ ~wild
    /\ \E p \in Process :
          \/ Start(p) \/ Open(p) \/ Exit(p)
          \/ \E fd \in Fds :
                \/ Close(p, fd) \/ Tell(p, fd) \/ FileSize(p, fd)
                \/ \E n \in Sizes : Read(p, fd, n) \/ Write(p, fd, n)
                \/ \E n \in Offsets : Seek(p, fd, n)

-----------------------------------------------------------------------------
(* What programs and the kernel rely on from the table of open files.      *)

\* The words behind content that are the kernel's own: initiated, pagedir and magic.
Own == MAP_SIZE..(MAP_SIZE + 2)

FilesOf(p) == [fd \in {i \in Positions : words[p][i] \in File} |-> words[p][fd]]
Promised == INSTANCE OpenFiles WITH files <- [p \in Process |-> FilesOf(p)]

\* The table of p is right if it holds its files in the array only: what is behind the array
\* is not closed when p ends.
WithinArray(p) == DOMAIN FilesOf(p) \subseteq 0..(MAP_SIZE - 1)

\* What one step does, but for what the code does wrong (README, known disagreements): a new
\* table whose positions reach to magic, an open that finds no position, a file behind the
\* array when its process ends, a descriptor that is a word of the kernel's, and a seek, tell
\* or filesize of a descriptor the table does not reach to, or a seek from 2^31 on.
AsPromised ==
    \A p \in Process :
        /\ Start(p) => (wild' <=> START_POSITION > 2)
        /\ Open(p) /\ Free(p) # {} => ~wild' /\ Promised!Open(p)
        /\ Exit(p) => ~wild' /\ (WithinArray(p) => Promised!Exit(p))
        /\ \A fd \in Fds \ Own :
              /\ Close(p, fd) => ~wild' /\ Promised!Close(p, fd)
              /\ \A n \in Sizes :
                    /\ Read(p, fd, n) => ~wild' /\ Promised!Read(p, fd, n)
                    /\ Write(p, fd, n) => ~wild' /\ Promised!Write(p, fd, n)
              /\ fd \in Positions =>
                    /\ Tell(p, fd) => ~wild' /\ Promised!Tell(p, fd)
                    /\ FileSize(p, fd) => ~wild' /\ Promised!FileSize(p, fd)
                    /\ \A n \in Offsets : n >= 0 /\ Seek(p, fd, n) => ~wild' /\ Promised!Seek(p, fd, n)

\* Every system call on a descriptor does what OpenFiles says, for the descriptor it was
\* given: no file is reached by another descriptor than its own, by another process, or
\* after it was closed, and when a process ends all files it has open are closed, each
\* once - also while other processes open files at the addresses that become free.  The
\* exceptions are those of AsPromised.
FilesTracked == Promised!Init /\ [][AsPromised]_fileVars
=============================================================================

--------------------------- MODULE LibraryProofs ---------------------------
(***************************************************************************)
(* The calls on the table of open files do what OpenFiles says, for any    *)
(* number of processes and files and any size of the table, with the       *)
(* exceptions AsPromised names and no others.                              *)
(*                                                                         *)
(* The links of lib/kernel/list.c make sequences, for any number of lists  *)
(* and elements: every call on a list is a part of one taken out, a part   *)
(* put in, or both, or the reversal of one.                                *)
(***************************************************************************)
EXTENDS FileTable, ListsProperties, FiniteSetTheorems, SequenceTheorems, WellFoundedInduction, TLAPS

\* The keyboard and the screen are below START_POSITION, which is 50 in flist.h.
AboveConsole == 2 <= START_POSITION

Word == File \cup {NULL, "initiated", "pagedir", "magic"}

\* What a table has in its places: files that are open, from START_POSITION on, and nothing
\* else but the kernel's own words.
TableInv ==
    /\ words \in [Process -> [Positions -> Word]]
    /\ \A p \in Process : \A i \in Positions :
         /\ words[p][i] \in File => i >= START_POSITION /\ words[p][i] \in open
         /\ words[p][i] \notin File \cup {NULL} => i \in Own

\* No file is at two places.
OnceInv ==
    \A p, q \in Process : \A i, j \in Positions :
        words[p][i] \in File /\ words[p][i] = words[q][j] => p = q /\ i = j

\* The tables are right.
FilesInv ==
    /\ TableInv /\ OnceInv
    /\ open \subseteq File /\ pos \in [open -> Nat]
    /\ eax \in [Process -> Int]
    /\ wild = FALSE

-----------------------------------------------------------------------------
\* What the bounds say of the positions.
LEMMA Bounds ==
    ASSUME AboveConsole
    PROVE  /\ MAP_SIZE \in Nat /\ 2 <= START_POSITION
           /\ START_POSITION \in Nat /\ START_POSITION < MAP_SIZE
           /\ Positions = 0..(MAP_SIZE + START_POSITION)
           /\ Own = MAP_SIZE..(MAP_SIZE + 2) /\ Own \subseteq Positions
           /\ 0..MAP_SIZE - 1 \subseteq Positions
           /\ \A fd \in Fds : fd \in Int
BY FileTableAssumption DEF AboveConsole, Positions, Own

LEMMA NoFile ==
    /\ NULL \notin File
    /\ {"initiated", "pagedir", "magic", "kernel"} \cap (File \cup {NULL}) = {}
    /\ Sizes \subseteq Nat /\ Offsets \subseteq Int /\ Length \in Nat
BY FileTableAssumption

\* The descriptors of a process are the places of its table that hold files.
LEMMA FilesOfIs ==
    ASSUME NEW p \in Process
    PROVE  /\ DOMAIN FilesOf(p) = {i \in Positions : words[p][i] \in File}
           /\ \A fd \in DOMAIN FilesOf(p) : FilesOf(p)[fd] = words[p][fd]
           /\ FilesOf(p) = [fd \in DOMAIN FilesOf(p) |-> words[p][fd]]
BY DEF FilesOf

Below == {p \in Nat \X Nat : p[1] < p[2]}

LEMMA LeastIn ==
    ASSUME NEW S \in SUBSET Nat, S # {}
    PROVE  \E n \in S : \A m \in S : n <= m
<1>1. IsWellFoundedOn(Below, Nat)
  BY NatLessThanWellFounded DEF OpToRel, Below
<1>2. PICK x \in S : \A y \in S : ~(<<y, x>> \in Below)
  BY <1>1, WFMin
<1>3. ASSUME NEW y \in S PROVE x <= y
  <2>1. x \in Nat /\ y \in Nat
    OBVIOUS
  <2>2. ~(y < x)
    BY <1>2, <2>1 DEF Below
  <2> QED BY <2>1, <2>2
<1> QED BY <1>3

\* The scan finds a place that is free if there is one, and else the last.
LEMMA NextPosition ==
    ASSUME AboveConsole, NEW p \in Process
    PROVE  LET fd == flist_get_next_free_position(p)
           IN  /\ fd \in Positions /\ fd \in Int /\ fd >= START_POSITION
               /\ Free(p) # {} => words[p][fd] = NULL
<1>b. /\ MAP_SIZE \in Nat /\ START_POSITION \in Nat /\ START_POSITION < MAP_SIZE
      /\ Positions = 0..(MAP_SIZE + START_POSITION)
  BY Bounds
<1> DEFINE free == Free(p)
           fd == CHOOSE i \in free : \A j \in free : i <= j
<1>1. \A i \in free : i \in Nat /\ i \in Positions /\ i >= START_POSITION /\ words[p][i] = NULL
  BY <1>b DEF Free
<1>2. CASE free # {}
  <2>1. \E n \in free : \A m \in free : n <= m
    BY <1>1, <1>2, LeastIn
  <2>2. fd \in free
    BY <2>1
  <2>3. flist_get_next_free_position(p) = fd
    BY <1>2 DEF flist_get_next_free_position
  <2> HIDE DEF fd
  <2>4. fd \in Int
    BY <1>1, <2>2
  <2> QED BY <1>1, <2>2, <2>3, <2>4
<1>3. CASE free = {}
  <2>1. flist_get_next_free_position(p) = START_POSITION + MAP_SIZE - 1
    BY <1>3 DEF flist_get_next_free_position
  <2> HIDE DEF free
  <2> QED BY <1>b, <1>3, <2>1 DEF free
<1> QED BY <1>2, <1>3

-----------------------------------------------------------------------------
(* The invariant.                                                          *)

LEMMA FilesInitInv == AboveConsole /\ FilesInit => FilesInv
<1> SUFFICES ASSUME AboveConsole, FilesInit PROVE FilesInv
  OBVIOUS
<1>1. Gone \in [Positions -> Word] /\ \A i \in Positions : Gone[i] = NULL
  BY DEF Gone, Word
<1>2. words \in [Process -> [Positions -> Word]] /\ \A p \in Process : words[p] = Gone
  BY <1>1 DEF FilesInit
<1>3. TableInv /\ OnceInv
  BY <1>1, <1>2, NoFile DEF TableInv, OnceInv
<1>4. open = {} /\ pos \in [open -> Nat]
  <2>1. DOMAIN <<>> = {}
    OBVIOUS
  <2> QED BY <2>1 DEF FilesInit, open
<1>5. eax \in [Process -> Int] /\ wild = FALSE
  BY DEF FilesInit
<1> QED BY <1>3, <1>4, <1>5 DEF FilesInv

\* A table with no file in it.
Empty(w) ==
    /\ w \in [Positions -> Word]
    /\ \A i \in Positions : w[i] \notin File /\ (w[i] # NULL => i \in Own)

LEMMA GoneEmpty == Empty(Gone)
BY NoFile DEF Empty, Gone, Word

\* The table of p becomes an empty one, and files that were in it are closed.
LEMMA EmptyTable ==
    ASSUME AboveConsole, FilesInv, NEW p \in Process, NEW w, Empty(w),
           NEW closed \in SUBSET {words[p][i] : i \in Positions},
           words' = [words EXCEPT ![p] = w],
           pos' = Restrict(pos, open \ closed),
           eax' = eax, wild' = wild
    PROVE  FilesInv'
<1>1. open' = open \ closed /\ pos' \in [open' -> Nat]
  <2>1. pos' = [f \in open \ closed |-> pos[f]]
    BY DEF Restrict
  <2>2. \A f \in open : pos[f] \in Nat
    BY DEF FilesInv
  <2> QED BY <2>1, <2>2 DEF open
<1>2. words' \in [Process -> [Positions -> Word]]
  BY DEF FilesInv, TableInv, Empty
<1>3. \A q \in Process : words'[q] = IF q = p THEN w ELSE words[q]
  BY DEF FilesInv, TableInv
<1>4. Positions' = Positions /\ Own' = Own
  BY DEF Positions, Own
<1>5. TableInv'
  <2> SUFFICES ASSUME NEW q \in Process, NEW i \in Positions
               PROVE  /\ words'[q][i] \in File => i >= START_POSITION /\ words'[q][i] \in open'
                      /\ words'[q][i] \notin File \cup {NULL} => i \in Own
    BY <1>2, <1>4 DEF TableInv
  <2>1. CASE q = p
    BY <1>3, <2>1 DEF Empty
  <2>2. CASE q # p
    <3>1. words'[q] = words[q]
      BY <1>3, <2>2
    <3>2. words[q][i] \in File => words[q][i] \notin closed
      BY <2>2 DEF FilesInv, OnceInv
    <3> QED BY <1>1, <3>1, <3>2 DEF FilesInv, TableInv
  <2> QED BY <2>1, <2>2
<1>6. OnceInv'
  <2> SUFFICES ASSUME NEW q \in Process, NEW r \in Process, NEW i \in Positions, NEW j \in Positions,
                      words'[q][i] \in File, words'[q][i] = words'[r][j]
               PROVE  q = r /\ i = j
    BY <1>4 DEF OnceInv
  <2>1. q # p /\ r # p
    BY <1>3 DEF Empty
  <2> QED BY <1>3, <2>1 DEF FilesInv, OnceInv
<1>7. open' \subseteq File /\ eax' \in [Process -> Int] /\ wild' = FALSE
  BY <1>1 DEF FilesInv
<1> QED BY <1>1, <1>5, <1>6, <1>7 DEF FilesInv

\* Only positions and results change.
LEMMA SameTable ==
    ASSUME FilesInv, words' = words, pos' \in [open -> Nat], eax' \in [Process -> Int],
           wild' = wild
    PROVE  FilesInv'
<1>1. open' = open
  BY DEF open
<1> QED BY <1>1 DEF FilesInv, TableInv, OnceInv, Positions, Own

\* A new table is right when the positions that are reset do not reach to magic.
LEMMA StartOK ==
    ASSUME AboveConsole, FilesInv, NEW p \in Process, Start(p)
    PROVE  (wild' <=> START_POSITION > 2) /\ (~wild' => FilesInv')
<1> DEFINE zeroed == [Gone EXCEPT ![MAP_SIZE + 2] = "magic"]
           reset == START_POSITION..(START_POSITION + MAP_SIZE - 1)
           w == [Cleared(zeroed, reset) EXCEPT ![MAP_SIZE] = "initiated",
                                               ![MAP_SIZE + 1] = "pagedir"]
           closed == {zeroed[i] : i \in reset} \ {NULL}
           taken == {i \in reset : zeroed[i] # NULL}
<1>1. /\ MAP_SIZE \in Nat /\ START_POSITION \in Nat /\ 2 <= START_POSITION /\ START_POSITION < MAP_SIZE
      /\ Positions = 0..(MAP_SIZE + START_POSITION)
  BY Bounds
<1>2. \A i \in Positions : zeroed[i] = IF i = MAP_SIZE + 2 THEN "magic" ELSE NULL
  BY <1>1 DEF Gone
<1>3. pos' = Restrict(pos, open \ closed)
      /\ wild' = (wild \/ ~(closed \subseteq open) \/ Cardinality(closed) # Cardinality(taken))
  <2> HIDE DEF zeroed, reset
  <2>1. Reset(zeroed, reset)
    BY DEF Start, zeroed, reset
  <2> QED BY <2>1 DEF Reset
<1>4. words[p] = Gone /\ words' = [words EXCEPT ![p] = w] /\ eax' = eax
  BY DEF Start
<1>5. CASE START_POSITION > 2
  <2>1. MAP_SIZE + 2 \in reset /\ MAP_SIZE + 2 \in Positions
    BY <1>1, <1>5
  <2>2. zeroed[MAP_SIZE + 2] = "magic"
    BY <1>2, <2>1
  <2> HIDE DEF zeroed, reset
  <2>3. "magic" \in closed
    BY <2>1, <2>2, NoFile
  <2>4. "magic" \notin open
    BY NoFile DEF FilesInv
  <2> HIDE DEF closed, taken
  <2>5. ~(closed \subseteq open)
    BY <2>3, <2>4
  <2>6. wild'
    BY <1>3, <2>5
  <2> QED BY <1>5, <2>6
<1>6. CASE ~(START_POSITION > 2)
  <2>1. START_POSITION = 2 /\ MAP_SIZE > 2 /\ Positions = 0..MAP_SIZE + 2
    BY <1>1, <1>6
  <2>2. \A i \in reset : i \in Positions /\ i # MAP_SIZE + 2
    BY <1>1, <2>1
  <2>3. closed = {} /\ taken = {}
    BY <1>2, <2>2
  <2>4. pos' = Restrict(pos, open \ {}) /\ wild' = wild
    <3> HIDE DEF closed, taken
    <3> QED BY <1>3, <2>3 DEF FilesInv
  <2>5. Empty(w)
    <3> DEFINE cleared == Cleared(zeroed, reset)
    <3>1. zeroed \in [Positions -> Word]
      BY DEF Gone, Word
    <3>2. cleared \in [Positions -> Word] /\ \A i \in Positions : cleared[i] = NULL \/ (i = MAP_SIZE + 2 /\ cleared[i] = "magic")
      <4> HIDE DEF zeroed, reset
      <4>1. cleared = [i \in Positions |-> IF i \in reset THEN NULL ELSE zeroed[i]]
        BY DEF Cleared
      <4>2. NULL \in Word
        BY DEF Word
      <4>3. cleared \in [Positions -> Word]
        BY <3>1, <4>1, <4>2
      <4>4. \A i \in Positions : cleared[i] = IF i \in reset THEN NULL ELSE zeroed[i]
        BY <4>1
      <4> HIDE DEF cleared
      <4>5. ASSUME NEW i \in Positions PROVE cleared[i] = NULL \/ (i = MAP_SIZE + 2 /\ cleared[i] = "magic")
        <5>1. zeroed[i] = IF i = MAP_SIZE + 2 THEN "magic" ELSE NULL
          BY <1>2
        <5> QED BY <4>4, <5>1
      <4> QED BY <4>3, <4>5
    <3> HIDE DEF cleared, zeroed, reset
    <3>3. w = [cleared EXCEPT ![MAP_SIZE] = "initiated", ![MAP_SIZE + 1] = "pagedir"]
      BY DEF cleared
    <3>4. {"initiated", "pagedir"} \subseteq Word
      BY DEF Word
    <3>5. Own = MAP_SIZE..MAP_SIZE + 2
      BY DEF Own
    <3> HIDE DEF w
    <3>6. w \in [Positions -> Word] /\ \A i \in Positions :
            \/ i = MAP_SIZE /\ w[i] = "initiated"
            \/ i = MAP_SIZE + 1 /\ w[i] = "pagedir"
            \/ i = MAP_SIZE + 2 /\ w[i] = "magic"
            \/ w[i] = NULL
      BY <1>1, <2>1, <3>2, <3>3, <3>4
    <3>7. \A i \in Positions : w[i] \notin File /\ (w[i] # NULL => i \in Own)
      BY <1>1, <3>5, <3>6, NoFile
    <3> QED BY <3>6, <3>7 DEF Empty
  <2> HIDE DEF w
  <2>6. {} \in SUBSET {words[p][i] : i \in Positions}
    OBVIOUS
  <2>7. FilesInv'
    BY <1>4, <2>4, <2>5, <2>6, EmptyTable
  <2> QED BY <1>6, <2>4, <2>7 DEF FilesInv
<1> QED BY <1>5, <1>6

\* The files a process has in the array are closed when it ends, each once.
LEMMA ExitInv ==
    ASSUME AboveConsole, FilesInv, NEW p \in Process, Exit(p)
    PROVE  /\ FilesInv' /\ ~wild'
           /\ pos' = Restrict(pos, open \ {words[p][i] : i \in DOMAIN FilesOf(p) \cap (0..MAP_SIZE - 1)})
<1> DEFINE taken == {i \in 0..MAP_SIZE - 1 : words[p][i] # NULL}
           closed == {words[p][i] : i \in 0..MAP_SIZE - 1} \ {NULL}
<1>1. Reset(words[p], 0..MAP_SIZE - 1) /\ words' = [words EXCEPT ![p] = Gone] /\ eax' = eax
  BY DEF Exit, flist_remove_all
<1>2. closed = {words[p][i] : i \in taken}
  OBVIOUS
<1>3. \A i \in taken : i \in Positions /\ words[p][i] \in File /\ words[p][i] \in open
  <2>1. \A i \in taken : i \in Positions /\ i \notin Own /\ words[p][i] # NULL
    BY Bounds
  <2>2. \A i \in taken : words[p][i] \in File \cup {NULL}
    BY <2>1 DEF FilesInv, TableInv
  <2> HIDE DEF taken
  <2> QED BY <2>1, <2>2 DEF FilesInv, TableInv
<1>4. taken = DOMAIN FilesOf(p) \cap (0..MAP_SIZE - 1)
  <2>1. \A i \in 0..MAP_SIZE - 1 : i \in Positions
    BY Bounds
  <2>2. DOMAIN FilesOf(p) = {i \in Positions : words[p][i] \in File}
    BY FilesOfIs
  <2> QED BY <1>3, <2>1, <2>2, NoFile
<1>5. closed \subseteq open
  BY <1>2, <1>3
<1>6. Cardinality(closed) = Cardinality(taken)
  <2> DEFINE g == [i \in taken |-> words[p][i]]
  <2>1. IsFiniteSet(taken)
    <3>1. IsFiniteSet(0..MAP_SIZE - 1)
      BY FS_Interval, Bounds
    <3>2. taken \subseteq 0..MAP_SIZE - 1
      OBVIOUS
    <3> QED BY <3>1, <3>2, FS_Subset
  <2>2. g \in Bijection(taken, closed)
    <3>1. \A i, j \in taken : words[p][i] = words[p][j] => i = j
      BY <1>3 DEF FilesInv, OnceInv
    <3> HIDE DEF closed, taken
    <3>2. g \in [taken -> closed] /\ \A c \in closed : \E i \in taken : g[i] = c
      BY <1>2
    <3>3. \A i, j \in taken : g[i] = g[j] => i = j
      BY <3>1
    <3> QED BY <3>2, <3>3 DEF Bijection, Injection, Surjection, IsInjective
  <2> QED BY <2>1, <2>2, FS_Bijection DEF ExistsBijection
<1>7. pos' = Restrict(pos, open \ closed) /\ wild' = wild
  <2> HIDE DEF closed, taken
  <2>2. /\ pos' = Restrict(pos, open \ closed)
        /\ wild' = (wild \/ ~(closed \subseteq open) \/ Cardinality(closed) # Cardinality(taken))
    BY <1>1 DEF Reset, closed, taken
  <2> QED BY <1>5, <1>6, <2>2 DEF FilesInv
<1>8. closed \in SUBSET {words[p][i] : i \in Positions}
  BY <1>2, <1>3
<1> HIDE DEF closed
<1>9. FilesInv'
  BY <1>1, <1>7, <1>8, GoneEmpty, EmptyTable
<1> QED BY <1>2, <1>4, <1>7, <1>9 DEF FilesInv

-----------------------------------------------------------------------------
(* What the calls on a descriptor do, and what is promised of them.        *)

\* A descriptor that is in the table.
Named(p, fd) == fd \in Positions /\ words[p][fd] \in File

LEMMA AtFd ==
    ASSUME AboveConsole, FilesInv, NEW p \in Process, NEW fd \in Fds
    PROVE  /\ fd \in DOMAIN FilesOf(p) <=> Named(p, fd)
           /\ Named(p, fd) => /\ words[p][fd] \in open /\ words[p][fd] # NULL
                              /\ FilesOf(p)[fd] = words[p][fd] /\ fd \notin {0, 1}
           /\ fd \in Positions /\ fd \notin Own /\ ~Named(p, fd) => words[p][fd] = NULL
           /\ flist_get_from_index(p, fd) = IF fd \in Positions THEN words[p][fd] ELSE NULL
           /\ fd \in Positions => flist_get_from_fd(p, fd) = {words[p][fd]}
           /\ NULL \notin open /\ fd \in Int
           /\ open \subseteq File
<1>1. fd \in DOMAIN FilesOf(p) <=> Named(p, fd)
  BY FilesOfIs DEF Named
<1>2. Named(p, fd) => words[p][fd] \in open /\ words[p][fd] # NULL /\ FilesOf(p)[fd] = words[p][fd]
  BY <1>1, FilesOfIs, NoFile DEF Named, FilesInv, TableInv
<1>3. fd \in Positions /\ fd \notin Own /\ ~Named(p, fd) => words[p][fd] = NULL
  BY DEF Named, FilesInv, TableInv
<1>4. fd \in Int
  BY Bounds
<1>5. Named(p, fd) => fd \notin {0, 1}
  <2>1. Named(p, fd) => fd >= START_POSITION
    BY DEF Named, FilesInv, TableInv
  <2> QED BY <1>4, <2>1, Bounds
<1>6. fd > MAP_SIZE + START_POSITION \/ fd < 0 <=> fd \notin Positions
  BY <1>4, Bounds DEF Positions
<1>7. flist_get_from_index(p, fd) = IF fd \in Positions THEN words[p][fd] ELSE NULL
  BY <1>6 DEF flist_get_from_index
<1>8. fd \in Positions => flist_get_from_fd(p, fd) = {words[p][fd]}
  BY DEF flist_get_from_fd
<1>9. NULL \notin open /\ open \subseteq File
  BY NoFile DEF FilesInv
<1> QED BY <1>1, <1>2, <1>3, <1>4, <1>5, <1>7, <1>8, <1>9

Files == [p \in Process |-> FilesOf(p)]

LEMMA SameFiles ==
    ASSUME words' = words PROVE Files' = Files
BY DEF Files, FilesOf, Positions

LEMMA Lookup ==
    ASSUME AboveConsole, FilesInv, NEW p \in Process, NEW fd \in Fds
    PROVE  /\ fd \in DOMAIN Files[p] <=> Named(p, fd)
           /\ Named(p, fd) => Files[p][fd] = words[p][fd]
BY AtFd DEF Files

LEMMA RefusedOK ==
    ASSUME AboveConsole, FilesInv, NEW p \in Process, NEW fd \in Fds, NEW n,
           ~Named(p, fd), eax' = [eax EXCEPT ![p] = -1], Files' = Files, pos' = pos
    PROVE  /\ Promised!Close(p, fd) /\ Promised!Tell(p, fd) /\ Promised!FileSize(p, fd)
           /\ Promised!Seek(p, fd, n) /\ Promised!Transfer(p, fd, n)
<1>1. ~Promised!Owns(p, fd)
  BY Lookup DEF Files, Promised!Owns
<1>2. Promised!Refused(p)
  BY DEF Files, Promised!Refused, Promised!Returns
<1> QED BY <1>1, <1>2 DEF Promised!Close, Promised!Tell, Promised!FileSize, Promised!Seek,
                          Promised!Transfer

\* The calls that leave the table alone.  Whatever word seek, tell and filesize find, either
\* nothing is known any more or the tables are right; and at a place of the table that is not the
\* kernel's they find the file of the descriptor, or none.
LEMMA SeekOK ==
    ASSUME AboveConsole, FilesInv, NEW p \in Process, NEW fd \in Fds, NEW n \in Offsets,
           Seek(p, fd, n)
    PROVE  /\ ~wild' => FilesInv'
           /\ fd \in Positions /\ fd \notin Own /\ n >= 0 => ~wild' /\ Promised!Seek(p, fd, n)
<1>1. PICK f \in flist_get_from_fd(p, fd) :
        /\ wild' = (wild \/ f \notin open \cup {NULL} \/ (f # NULL /\ n < 0))
        /\ eax' = [eax EXCEPT ![p] = IF f = NULL THEN -1 ELSE fd]
        /\ pos' = IF f \in open /\ n >= 0 THEN [pos EXCEPT ![f] = n] ELSE pos
  BY DEF Seek
<1>2. words' = words /\ Files' = Files
  BY SameFiles DEF Seek
<1>3. n \in Int /\ fd \in Int /\ NULL \notin open /\ wild = FALSE
  BY AtFd, NoFile DEF FilesInv
<1>4. CASE f = NULL
  <2>1. eax' = [eax EXCEPT ![p] = -1] /\ pos' = pos
    BY <1>1, <1>3, <1>4
  <2>2. wild' = wild
    BY <1>1, <1>3, <1>4
  <2>3. pos' \in [open -> Nat] /\ eax' \in [Process -> Int]
    BY <2>1 DEF FilesInv
  <2>4. FilesInv'
    BY <1>2, <2>2, <2>3, SameTable
  <2>5. fd \in Positions => ~Named(p, fd)
    BY <1>4, AtFd
  <2>6. fd \in Positions => Promised!Seek(p, fd, n)
    BY <1>2, <2>1, <2>5, RefusedOK
  <2> QED BY <1>3, <2>2, <2>4, <2>6
<1>5. CASE f \in open /\ n >= 0
  <2>1. f # NULL
    BY <1>3, <1>5
  <2>2. eax' = [eax EXCEPT ![p] = fd] /\ pos' = [pos EXCEPT ![f] = n]
    BY <1>1, <1>5, <2>1
  <2>3. wild' = wild
    <3>1. ~(n < 0)
      BY <1>3, <1>5
    <3> QED BY ZenonT(30), <1>1, <1>3, <1>5, <2>1, <3>1
  <2>4. pos' \in [open -> Nat] /\ eax' \in [Process -> Int]
    BY <1>3, <1>5, <2>2 DEF FilesInv
  <2>5. FilesInv'
    BY <1>2, <2>3, <2>4, SameTable
  <2>6. ASSUME fd \in Positions PROVE Promised!Seek(p, fd, n)
    <3>1. Named(p, fd) /\ f = words[p][fd]
      BY <1>5, <2>6, AtFd DEF Named
    <3>2. Promised!Owns(p, fd) /\ Files[p][fd] = f
      BY <3>1, Lookup DEF Files, Promised!Owns
    <3> QED BY <1>2, <2>2, <3>2 DEF Files, Promised!Seek, Promised!Moves, Promised!Returns
  <2> QED BY <1>3, <2>3, <2>5, <2>6
<1>6. CASE f # NULL /\ ~(f \in open /\ n >= 0)
  <2>1. wild'
    <3>1. n >= 0 \/ n < 0
      BY <1>3
    <3> QED BY ZenonT(30), <1>1, <1>3, <1>6, <3>1
  <2>2. ~(fd \in Positions /\ fd \notin Own /\ n >= 0)
    BY <1>6, AtFd
  <2> QED BY <2>1, <2>2
<1> QED BY <1>4, <1>5, <1>6

LEMMA TellOK ==
    ASSUME AboveConsole, FilesInv, NEW p \in Process, NEW fd \in Fds, Tell(p, fd)
    PROVE  /\ ~wild' => FilesInv'
           /\ fd \in Positions /\ fd \notin Own => ~wild' /\ Promised!Tell(p, fd)
<1>1. PICK f \in flist_get_from_fd(p, fd) :
        /\ wild' = (wild \/ f \notin open \cup {NULL})
        /\ eax' = [eax EXCEPT ![p] = IF f \in open THEN pos[f] ELSE -1]
  BY DEF Tell
<1>2. words' = words /\ pos' = pos /\ Files' = Files /\ pos' \in [open -> Nat]
  BY SameFiles DEF Tell, FilesInv
<1>3. NULL \notin open /\ wild = FALSE
  BY AtFd DEF FilesInv
<1>4. CASE f = NULL
  <2>1. eax' = [eax EXCEPT ![p] = -1] /\ wild' = wild
    BY <1>1, <1>3, <1>4
  <2>2. eax' \in [Process -> Int]
    BY <2>1 DEF FilesInv
  <2>3. FilesInv'
    BY <1>2, <2>1, <2>2, SameTable
  <2>4. fd \in Positions => ~Named(p, fd)
    BY <1>4, AtFd
  <2>5. fd \in Positions => Promised!Tell(p, fd)
    BY <1>2, <2>1, <2>4, RefusedOK
  <2> QED BY <1>3, <2>1, <2>3, <2>5
<1>5. CASE f \in open
  <2>1. eax' = [eax EXCEPT ![p] = pos[f]] /\ pos[f] \in Nat
    BY <1>1, <1>5 DEF FilesInv
  <2>2. wild' = wild
    BY <1>1, <1>3, <1>5
  <2>3. eax' \in [Process -> Int]
    BY <2>1 DEF FilesInv
  <2>4. FilesInv'
    BY <1>2, <2>2, <2>3, SameTable
  <2>5. ASSUME fd \in Positions PROVE Promised!Tell(p, fd)
    <3>1. Named(p, fd) /\ f = words[p][fd]
      BY <1>5, <2>5, AtFd DEF Named
    <3>2. Promised!Owns(p, fd) /\ Files[p][fd] = f
      BY <3>1, Lookup DEF Files, Promised!Owns
    <3> QED BY <1>2, <2>1, <3>2 DEF Files, Promised!Tell, Promised!Returns
  <2> QED BY <1>3, <2>2, <2>4, <2>5
<1>6. CASE f \notin open \cup {NULL}
  <2>1. wild'
    BY <1>1, <1>6
  <2>2. ~(fd \in Positions /\ fd \notin Own)
    BY <1>6, AtFd
  <2> QED BY <2>1, <2>2
<1> QED BY <1>4, <1>5, <1>6

LEMMA FileSizeOK ==
    ASSUME AboveConsole, FilesInv, NEW p \in Process, NEW fd \in Fds, FileSize(p, fd)
    PROVE  /\ ~wild' => FilesInv'
           /\ fd \in Positions /\ fd \notin Own => ~wild' /\ Promised!FileSize(p, fd)
<1>1. PICK f \in flist_get_from_fd(p, fd) :
        /\ wild' = (wild \/ f \notin open \cup {NULL})
        /\ eax' = [eax EXCEPT ![p] = IF f = NULL THEN -1 ELSE Length]
  BY DEF FileSize
<1>2. words' = words /\ pos' = pos /\ Files' = Files /\ pos' \in [open -> Nat]
  BY SameFiles DEF FileSize, FilesInv
<1>3. NULL \notin open /\ wild = FALSE /\ eax' \in [Process -> Int]
  BY <1>1, AtFd, NoFile DEF FilesInv
<1>4. CASE f = NULL
  <2>1. eax' = [eax EXCEPT ![p] = -1] /\ wild' = wild
    BY <1>1, <1>3, <1>4
  <2>3. FilesInv'
    BY <1>2, <1>3, <2>1, SameTable
  <2>4. fd \in Positions => ~Named(p, fd)
    BY <1>4, AtFd
  <2>5. fd \in Positions => Promised!FileSize(p, fd)
    BY <1>2, <2>1, <2>4, RefusedOK
  <2> QED BY <1>3, <2>1, <2>3, <2>5
<1>5. CASE f \in open
  <2>1. eax' = [eax EXCEPT ![p] = Length]
    BY <1>1, <1>3, <1>5
  <2>2. wild' = wild
    BY <1>1, <1>3, <1>5
  <2>4. FilesInv'
    BY <1>2, <1>3, <2>2, SameTable
  <2>5. ASSUME fd \in Positions PROVE Promised!FileSize(p, fd)
    <3>1. Named(p, fd)
      BY <1>5, <2>5, AtFd DEF Named
    <3>2. Promised!Owns(p, fd)
      BY <3>1, Lookup DEF Files, Promised!Owns
    <3> QED BY <1>2, <2>1, <3>2 DEF Files, Promised!FileSize, Promised!Returns
  <2> QED BY <1>3, <2>2, <2>4, <2>5
<1>6. CASE f \notin open \cup {NULL}
  <2>1. wild'
    BY <1>1, <1>6
  <2>2. ~(fd \in Positions /\ fd \notin Own)
    BY <1>6, AtFd
  <2> QED BY <2>1, <2>2
<1> QED BY <1>4, <1>5, <1>6

\* Reading and writing a file: the position moves by what was moved, which is all that
\* was asked for or what is left.
LEMMA TransferOK ==
    ASSUME AboveConsole, FilesInv, NEW p \in Process, NEW fd \in Fds, NEW n \in Sizes,
           Transfer(p, fd, n)
    PROVE  /\ ~wild' => FilesInv'
           /\ fd \notin Own => ~wild' /\ Promised!Transfer(p, fd, n)
<1> DEFINE f == flist_get_from_index(p, fd)
           left == IF f \in open /\ pos[f] < Length THEN Length - pos[f] ELSE 0
           bytes == IF n < left THEN n ELSE left
<1>1. /\ words' = words
      /\ wild' = (wild \/ f \notin open \cup {NULL})
      /\ eax' = [eax EXCEPT ![p] = IF f = NULL THEN -1 ELSE bytes]
      /\ pos' = IF f \in open THEN [pos EXCEPT ![f] = @ + bytes] ELSE pos
  BY DEF Transfer
<1>2. Files' = Files /\ wild = FALSE
  BY <1>1, SameFiles DEF FilesInv
<1>3. CASE f = NULL
  <2>0. NULL \notin open
    BY AtFd
  <2>1. ~Named(p, fd)
    BY <1>3, AtFd DEF Named
  <2> HIDE DEF f, bytes
  <2>2. eax' = [eax EXCEPT ![p] = -1] /\ pos' = pos /\ wild' = wild
    BY <1>1, <1>3, <2>0 DEF FilesInv
  <2>3. pos' \in [open -> Nat] /\ eax' \in [Process -> Int]
    BY <2>2 DEF FilesInv
  <2>4. FilesInv'
    BY <1>1, <2>2, <2>3, SameTable
  <2>5. Promised!Transfer(p, fd, n)
    BY <1>2, <2>1, <2>2, RefusedOK
  <2> QED BY <1>2, <2>2, <2>4, <2>5
<1>4. CASE f \in open
  <2>1. f # NULL /\ f = words[p][fd] /\ Named(p, fd)
    BY <1>4, AtFd DEF Named
  <2>2. pos[f] \in Nat /\ n \in Nat /\ Length \in Nat
    BY <1>4, NoFile DEF FilesInv
  <2>3. /\ bytes \in 0..n /\ bytes \in Nat /\ (bytes < n => pos[f] + bytes >= Length)
        /\ (bytes > 0 => pos[f] + bytes <= Length)
    <3> DEFINE from == pos[f]
    <3>1. from \in Nat /\ left = IF from < Length THEN Length - from ELSE 0
      BY <1>4, <2>2
    <3> HIDE DEF from, left
    <3>2. /\ bytes \in 0..n /\ bytes \in Nat /\ (bytes < n => from + bytes >= Length)
          /\ (bytes > 0 => from + bytes <= Length)
      BY <2>2, <3>1
    <3> QED BY <3>2 DEF from
  <2> HIDE DEF f, bytes
  <2>4. eax' = [eax EXCEPT ![p] = bytes] /\ pos' = [pos EXCEPT ![f] = pos[f] + bytes]
    BY <1>1, <1>4, <2>1
  <2>5. wild' = wild /\ eax' \in [Process -> Int] /\ eax'[p] = bytes
    <3>1. wild' = wild
      BY <1>1, <1>4 DEF FilesInv
    <3>2. bytes \in Int
      BY <2>3
    <3>3. eax \in [Process -> Int]
      BY DEF FilesInv
    <3> QED BY <2>4, <3>1, <3>2, <3>3
  <2>6. pos' \in [open -> Nat]
    BY <1>4, <2>2, <2>3, <2>4 DEF FilesInv
  <2>7. Promised!Owns(p, fd) /\ Files[p][fd] = f
    BY <2>1, Lookup DEF Files, Promised!Owns
  <2>8. Promised!Transfer(p, fd, n)
    BY <1>2, <2>3, <2>4, <2>5, <2>7 DEF Files, Promised!Transfer, Promised!Moves,
                                        Promised!Returns
  <2>9. FilesInv'
    BY <1>1, <2>5, <2>6, SameTable
  <2> QED BY <1>2, <2>5, <2>8, <2>9
<1>5. CASE f \notin open \cup {NULL}
  <2>1. wild'
    BY <1>1, <1>5
  <2>2. ~(fd \notin Own)
    BY <1>5, AtFd DEF Named
  <2> QED BY <2>1, <2>2
<1> QED BY <1>3, <1>4, <1>5

LEMMA ReadOK ==
    ASSUME AboveConsole, FilesInv, NEW p \in Process, NEW fd \in Fds, NEW n \in Sizes,
           Read(p, fd, n)
    PROVE  /\ ~wild' => FilesInv'
           /\ fd \notin Own => ~wild' /\ Promised!Read(p, fd, n)
<1>1. CASE fd \notin {0, 1}
  <2>1. Transfer(p, fd, n)
    BY <1>1 DEF Read, STDIN_FILENO, STDOUT_FILENO
  <2> QED BY <1>1, <2>1, TransferOK DEF Promised!Read
<1>2. CASE fd \in {0, 1}
  <2>1. /\ eax' = [eax EXCEPT ![p] = IF fd = 0 THEN n ELSE -1]
        /\ words' = words /\ pos' = pos /\ wild' = wild
    BY <1>2 DEF Read, STDIN_FILENO, STDOUT_FILENO
  <2>2. FilesInv' /\ Files' = Files /\ ~wild'
    <3>1. eax' \in [Process -> Int] /\ pos' \in [open -> Nat]
      BY <2>1, NoFile DEF FilesInv
    <3>2. ~wild'
      BY <2>1 DEF FilesInv
    <3> QED BY <2>1, <3>1, <3>2, SameTable, SameFiles
  <2>3. CASE fd = 0
    <3>1. eax' = [eax EXCEPT ![p] = n]
      BY <2>1, <2>3
    <3> QED BY <2>1, <2>2, <2>3, <3>1 DEF Promised!Read, Promised!Returns, Files
  <2>4. CASE fd = 1
    <3>1. eax' = [eax EXCEPT ![p] = -1] /\ ~Named(p, fd)
      BY <2>1, <2>4, AtFd
    <3>2. Promised!Transfer(p, fd, n)
      BY <2>1, <2>2, <3>1, RefusedOK
    <3> QED BY <2>2, <2>4, <3>2 DEF Promised!Read
  <2> QED BY <1>2, <2>3, <2>4
<1> QED BY <1>1, <1>2

LEMMA WriteOK ==
    ASSUME AboveConsole, FilesInv, NEW p \in Process, NEW fd \in Fds, NEW n \in Sizes,
           Write(p, fd, n)
    PROVE  /\ ~wild' => FilesInv'
           /\ fd \notin Own => ~wild' /\ Promised!Write(p, fd, n)
<1>1. CASE fd \notin {0, 1}
  <2>1. Transfer(p, fd, n)
    BY <1>1 DEF Write, STDIN_FILENO, STDOUT_FILENO
  <2> QED BY <1>1, <2>1, TransferOK DEF Promised!Write
<1>2. CASE fd \in {0, 1}
  <2>1. /\ eax' = [eax EXCEPT ![p] = IF fd = 1 THEN n ELSE -1]
        /\ words' = words /\ pos' = pos /\ wild' = wild
    BY <1>2 DEF Write, STDIN_FILENO, STDOUT_FILENO
  <2>2. FilesInv' /\ Files' = Files /\ ~wild'
    <3>1. eax' \in [Process -> Int] /\ pos' \in [open -> Nat]
      BY <2>1, NoFile DEF FilesInv
    <3>2. ~wild'
      BY <2>1 DEF FilesInv
    <3> QED BY <2>1, <3>1, <3>2, SameTable, SameFiles
  <2>3. CASE fd = 1
    <3>1. eax' = [eax EXCEPT ![p] = n]
      BY <2>1, <2>3
    <3> QED BY <2>1, <2>2, <2>3, <3>1 DEF Promised!Write, Promised!Returns, Files
  <2>4. CASE fd = 0
    <3>1. eax' = [eax EXCEPT ![p] = -1] /\ ~Named(p, fd)
      BY <2>1, <2>4, AtFd
    <3>2. Promised!Transfer(p, fd, n)
      BY <2>1, <2>2, <3>1, RefusedOK
    <3> QED BY <2>2, <2>4, <3>2 DEF Promised!Write
  <2> QED BY <1>2, <2>3, <2>4
<1> QED BY <1>1, <1>2

LEMMA NoFunction ==
    ASSUME NEW f, f = [x \in DOMAIN f |-> f[x]], DOMAIN f = {} PROVE f = <<>>
<1>1. DOMAIN <<>> = {} /\ <<>> = [x \in DOMAIN <<>> |-> <<>>[x]]
  OBVIOUS
<1> QED BY <1>1

-----------------------------------------------------------------------------
(* The calls that change the table.                                        *)

\* The table of p alone changes.
LEMMA OneTable ==
    ASSUME FilesInv, NEW p \in Process, NEW w, words' = [words EXCEPT ![p] = w]
    PROVE  Files' = [Files EXCEPT ![p] = [fd \in {i \in Positions : w[i] \in File} |-> w[fd]]]
<1>1. \A q \in Process : words'[q] = IF q = p THEN w ELSE words[q]
  BY DEF FilesInv, TableInv
<1>2. \A q \in Process : FilesOf(q) = [fd \in {i \in Positions : words[q][i] \in File} |-> words[q][fd]]
  BY DEF FilesOf
<1>3. \A q \in Process : FilesOf(q)' = [fd \in {i \in Positions : words'[q][i] \in File} |-> words'[q][fd]]
  BY DEF FilesOf, Positions
<1>4. Files' = [q \in Process |-> FilesOf(q)']
  BY DEF Files
<1>5. \A q \in Process \ {p} : FilesOf(q)' = FilesOf(q)
  <2> SUFFICES ASSUME NEW q \in Process \ {p} PROVE FilesOf(q)' = FilesOf(q)
    OBVIOUS
  <2> DEFINE g == words[q]
  <2>1. words'[q] = g
    BY <1>1
  <2>2. FilesOf(q) = [fd \in {i \in Positions : g[i] \in File} |-> g[fd]]
    BY <1>2
  <2>3. FilesOf(q)' = [fd \in {i \in Positions : words'[q][i] \in File} |-> words'[q][fd]]
    BY <1>3
  <2> HIDE DEF g
  <2> QED BY <2>1, <2>2, <2>3
<1>6. FilesOf(p)' = [fd \in {i \in Positions : w[i] \in File} |-> w[fd]]
  <2>1. words'[p] = w
    BY <1>1
  <2>2. FilesOf(p)' = [fd \in {i \in Positions : words'[p][i] \in File} |-> words'[p][fd]]
    BY <1>3
  <2> QED BY <2>1, <2>2
<1> QED BY <1>4, <1>5, <1>6 DEF Files

LEMMA FilesAre ==
    ASSUME NEW p \in Process
    PROVE  /\ DOMAIN Files[p] = {i \in Positions : words[p][i] \in File}
           /\ \A d \in DOMAIN Files[p] : Files[p][d] = words[p][d]
BY FilesOfIs DEF Files

\* An open that is refused, or the insertion of a file that is new.
Inserted(p, f, fd) ==
    /\ words' = [words EXCEPT ![p][fd] = f]
    /\ pos' = [g \in open \cup {f} |-> IF g = f THEN 0 ELSE pos[g]]
    /\ eax' = [eax EXCEPT ![p] = fd]
    /\ wild' = (wild \/ words[p][fd] \notin File \cup {NULL})

LEMMA OpenIs ==
    ASSUME NEW p, Open(p)
    PROVE  \/ UNCHANGED <<words, pos, wild>> /\ eax' = [eax EXCEPT ![p] = -1]
           \/ \E f \in File \ open : Inserted(p, f, flist_get_next_free_position(p))
BY DEF Open, Inserted

\* The table is right after an open, also one that loses a file it overwrites, unless the word it
\* overwrites is the kernel's.
LEMMA OpenInv ==
    ASSUME AboveConsole, FilesInv, NEW p \in Process, Open(p)
    PROVE  ~wild' => FilesInv'
<1>1. CASE UNCHANGED <<words, pos, wild>> /\ eax' = [eax EXCEPT ![p] = -1]
  <2>1. eax' \in [Process -> Int] /\ pos' \in [open -> Nat]
    BY <1>1 DEF FilesInv
  <2> QED BY <1>1, <2>1, SameTable
<1>2. ASSUME NEW f \in File \ open, Inserted(p, f, flist_get_next_free_position(p)), ~wild'
      PROVE  FilesInv'
  <2> DEFINE fd == flist_get_next_free_position(p)
  <2>1. fd \in Positions /\ fd \in Int /\ fd >= START_POSITION
    BY NextPosition
  <2>2. /\ words' = [words EXCEPT ![p][fd] = f] /\ eax' = [eax EXCEPT ![p] = fd]
        /\ pos' = [g \in open \cup {f} |-> IF g = f THEN 0 ELSE pos[g]]
    BY <1>2 DEF Inserted
  <2> HIDE DEF fd
  <2>3. open' = open \cup {f} /\ pos' \in [open' -> Nat]
    <3>1. \A g \in open : pos[g] \in Nat
      BY DEF FilesInv
    <3> QED BY <2>2, <3>1 DEF open
  <2>4. f \in Word /\ f \in File /\ f # NULL
    BY NoFile DEF Word
  <2>5. /\ words' \in [Process -> [Positions -> Word]]
        /\ \A q \in Process : \A i \in Positions :
             words'[q][i] = IF q = p /\ i = fd THEN f ELSE words[q][i]
    BY <2>1, <2>2, <2>4 DEF FilesInv, TableInv
  <2>6. Positions' = Positions /\ Own' = Own
    BY DEF Positions, Own
  <2>7. TableInv'
    <3> SUFFICES ASSUME NEW q \in Process, NEW i \in Positions
                 PROVE  /\ words'[q][i] \in File => i >= START_POSITION /\ words'[q][i] \in open'
                        /\ words'[q][i] \notin File \cup {NULL} => i \in Own
      BY <2>5, <2>6 DEF TableInv
    <3>1. CASE q = p /\ i = fd
      BY <2>1, <2>3, <2>4, <2>5, <3>1
    <3>2. CASE ~(q = p /\ i = fd)
      BY <2>3, <2>5, <3>2 DEF FilesInv, TableInv
    <3> QED BY <3>1, <3>2
  <2>8. OnceInv'
    <3>1. \A q \in Process : \A i \in Positions : words[q][i] # f
      BY DEF FilesInv, TableInv
    <3>2. SUFFICES ASSUME NEW q \in Process, NEW r \in Process, NEW i \in Positions, NEW j \in Positions,
                          words'[q][i] \in File, words'[q][i] = words'[r][j]
                   PROVE  q = r /\ i = j
      BY <2>6 DEF OnceInv
    <3> QED BY <2>5, <3>1, <3>2 DEF FilesInv, OnceInv
  <2>9. eax' \in [Process -> Int] /\ open' \subseteq File
    BY <2>1, <2>2, <2>3 DEF FilesInv
  <2>10. wild' = FALSE
    BY <1>2 DEF Inserted, FilesInv
  <2> QED BY <2>3, <2>7, <2>8, <2>9, <2>10 DEF FilesInv
<1> QED BY <1>1, <1>2, OpenIs

\* An open that finds a free position gives a descriptor that is new.
LEMMA OpenOK ==
    ASSUME AboveConsole, FilesInv, NEW p \in Process, Open(p), Free(p) # {}
    PROVE  ~wild' /\ Promised!Open(p)
<1>1. CASE UNCHANGED <<words, pos, wild>> /\ eax' = [eax EXCEPT ![p] = -1]
  <2>1. Files' = Files /\ ~wild'
    BY <1>1, SameFiles DEF FilesInv
  <2> QED BY <1>1, <2>1 DEF Files, Promised!Open, Promised!Refused, Promised!Returns
<1>2. ASSUME NEW f \in File \ open, Inserted(p, f, flist_get_next_free_position(p))
      PROVE  ~wild' /\ Promised!Open(p)
  <2> DEFINE fd == flist_get_next_free_position(p)
             w == [words[p] EXCEPT ![fd] = f]
  <2>1. fd \in Positions /\ words[p][fd] = NULL
    BY NextPosition
  <2>2. /\ words' = [words EXCEPT ![p] = w] /\ eax' = [eax EXCEPT ![p] = fd]
        /\ pos' = [g \in open \cup {f} |-> IF g = f THEN 0 ELSE pos[g]]
        /\ wild' = (wild \/ words[p][fd] \notin File \cup {NULL})
    BY <1>2 DEF Inserted, FilesInv, TableInv
  <2> HIDE DEF fd
  <2>3. ~wild'
    BY <2>1, <2>2 DEF FilesInv
  <2>4. \A i \in Positions : w[i] = IF i = fd THEN f ELSE words[p][i]
    BY <2>1 DEF FilesInv, TableInv
  <2> HIDE DEF w
  <2>6. Files' = [Files EXCEPT ![p] = [d \in {i \in Positions : w[i] \in File} |-> w[d]]]
    BY <2>2, OneTable
  <2>7. /\ DOMAIN Files[p] = {i \in Positions : words[p][i] \in File}
        /\ \A d \in DOMAIN Files[p] : Files[p][d] = words[p][d]
    BY FilesAre
  <2>8. {i \in Positions : w[i] \in File} = DOMAIN Files[p] \cup {fd}
    BY <2>1, <2>4, <2>7
  <2>9. \A d \in DOMAIN Files[p] \cup {fd} : w[d] = IF d = fd THEN f ELSE Files[p][d]
    BY <2>1, <2>4, <2>7
  <2>10. [d \in {i \in Positions : w[i] \in File} |-> w[d]]
           = [d \in DOMAIN Files[p] \cup {fd} |-> IF d = fd THEN f ELSE Files[p][d]]
    BY <2>8, <2>9
  <2>11. eax'[p] = fd
    BY <2>2 DEF FilesInv
  <2>12. fd \notin DOMAIN Files[p]
    BY <2>1, <2>7, NoFile
  <2>13. /\ fd \notin DOMAIN Files[p]
         /\ Files' = [Files EXCEPT ![p] = [d \in DOMAIN Files[p] \cup {fd} |->
                        IF d = fd THEN f ELSE Files[p][d]]]
         /\ pos' = [g \in DOMAIN pos \cup {f} |-> IF g = f THEN 0 ELSE pos[g]]
         /\ eax' = [eax EXCEPT ![p] = fd]
         /\ f \in File \ DOMAIN pos
    <3>1. Files' = [Files EXCEPT ![p] = [d \in DOMAIN Files[p] \cup {fd} |->
                      IF d = fd THEN f ELSE Files[p][d]]]
      BY <2>6, <2>10
    <3> QED BY <2>2, <2>12, <3>1 DEF open
  <2>14. eax'[p] \notin DOMAIN Files[p] /\ eax' = [eax EXCEPT ![p] = eax'[p]]
    BY <2>11, <2>13
  <2>15. Files' = [Files EXCEPT ![p] = [d \in DOMAIN Files[p] \cup {eax'[p]} |->
                     IF d = eax'[p] THEN f ELSE Files[p][d]]]
    BY ONLY <2>11, <2>13
  <2> QED BY <2>3, <2>13, <2>14, <2>15 DEF Files, Promised!Open, Promised!Owns, Promised!Returns
<1> QED BY <1>1, <1>2, OpenIs

\* A close empties one position and closes the file that was there, or nothing is known any more:
\* it was given a descriptor that is a word of the kernel's.
LEMMA CloseOK ==
    ASSUME AboveConsole, FilesInv, NEW p \in Process, NEW fd \in Fds, Close(p, fd)
    PROVE  /\ ~wild' => FilesInv'
           /\ fd \notin Own => ~wild' /\ Promised!Close(p, fd)
<1>1. CASE flist_get_from_index(p, fd) = NULL
  <2>1. eax' = [eax EXCEPT ![p] = -1] /\ words' = words /\ pos' = pos /\ wild' = wild
    BY <1>1 DEF Close
  <2>2. eax' \in [Process -> Int] /\ pos' \in [open -> Nat] /\ ~wild'
    BY <2>1 DEF FilesInv
  <2>3. ~Named(p, fd)
    BY <1>1, AtFd DEF Named
  <2> QED BY <2>1, <2>2, <2>3, SameTable, SameFiles, RefusedOK
<1>2. ASSUME flist_get_from_index(p, fd) # NULL
      PROVE  /\ fd \in Positions /\ words[p][fd] # NULL
             /\ words' = [words EXCEPT ![p] = Cleared(words[p], {fd})] /\ eax' = eax
             /\ pos' = Restrict(pos, open \ {words[p][fd]})
             /\ wild' = (wild \/ words[p][fd] \notin open)
  <2>1. fd \in Positions /\ words[p][fd] # NULL
    BY <1>2, AtFd
  <2>2. Reset(words[p], {fd}) /\ words' = [words EXCEPT ![p] = Cleared(words[p], {fd})] /\ eax' = eax
    BY <1>2 DEF Close
  <2>3. {words[p][i] : i \in {fd}} \ {NULL} = {words[p][fd]} /\ {i \in {fd} : words[p][i] # NULL} = {fd}
    BY <2>1
  <2>4. Cardinality({words[p][fd]}) = 1 /\ Cardinality({fd}) = 1
    BY FS_Singleton
  <2>5. /\ pos' = Restrict(pos, open \ ({words[p][i] : i \in {fd}} \ {NULL}))
        /\ wild' = (wild \/ ~(({words[p][i] : i \in {fd}} \ {NULL}) \subseteq open)
                         \/ Cardinality({words[p][i] : i \in {fd}} \ {NULL})
                              # Cardinality({i \in {fd} : words[p][i] # NULL}))
    BY <2>2 DEF Reset
  <2>6. /\ pos' = Restrict(pos, open \ {words[p][fd]})
        /\ wild' = (wild \/ ~({words[p][fd]} \subseteq open) \/ Cardinality({words[p][fd]}) # Cardinality({fd}))
    BY <2>3, <2>5
  <2>7. (~({words[p][fd]} \subseteq open) \/ Cardinality({words[p][fd]}) # Cardinality({fd}))
          = (words[p][fd] \notin open)
    BY <2>4
  <2> QED BY <2>1, <2>2, <2>6, <2>7
<1>3. CASE Named(p, fd)
  <2> DEFINE f == words[p][fd]
             w == Cleared(words[p], {fd})
  <2>1. f \in open /\ f # NULL /\ fd \in Positions /\ flist_get_from_index(p, fd) # NULL
    BY <1>3, AtFd DEF Named
  <2>2. words' = [words EXCEPT ![p] = w] /\ eax' = eax /\ pos' = Restrict(pos, open \ {f})
    BY <1>2, <2>1
  <2>3. wild' = wild /\ ~wild'
    BY <1>2, <2>1 DEF FilesInv
  <2>4. open' = open \ {f} /\ pos' \in [open' -> Nat]
    <3>1. pos' = [g \in open \ {f} |-> pos[g]] /\ \A g \in open : pos[g] \in Nat
      BY <2>2 DEF Restrict, FilesInv
    <3> QED BY <3>1 DEF open
  <2>5. w \in [Positions -> Word] /\ \A i \in Positions : w[i] = IF i = fd THEN NULL ELSE words[p][i]
    BY DEF Cleared, FilesInv, TableInv, Word
  <2> HIDE DEF w
  <2>6. /\ words' \in [Process -> [Positions -> Word]]
        /\ \A q \in Process : \A i \in Positions :
             words'[q][i] = IF q = p /\ i = fd THEN NULL ELSE words[q][i]
    BY <2>2, <2>5 DEF FilesInv, TableInv
  <2>7. Positions' = Positions /\ Own' = Own
    BY DEF Positions, Own
  <2>8. TableInv'
    <3>1. \A q \in Process : \A i \in Positions : words[q][i] = f => q = p /\ i = fd
      BY <1>3, <2>1 DEF FilesInv, OnceInv, Named
    <3> SUFFICES ASSUME NEW q \in Process, NEW i \in Positions
                 PROVE  /\ words'[q][i] \in File => i >= START_POSITION /\ words'[q][i] \in open'
                        /\ words'[q][i] \notin File \cup {NULL} => i \in Own
      BY <2>6, <2>7 DEF TableInv
    <3>2. CASE q = p /\ i = fd
      BY <2>6, <3>2, NoFile
    <3>3. CASE ~(q = p /\ i = fd)
      <4>1. words'[q][i] = words[q][i] /\ words[q][i] # f
        BY <2>6, <3>1, <3>3
      <4> QED BY <2>4, <4>1 DEF FilesInv, TableInv
    <3> QED BY <3>2, <3>3
  <2>9. OnceInv'
    <3>1. SUFFICES ASSUME NEW q \in Process, NEW r \in Process, NEW i \in Positions, NEW j \in Positions,
                          words'[q][i] \in File, words'[q][i] = words'[r][j]
                   PROVE  q = r /\ i = j
      BY <2>7 DEF OnceInv
    <3> QED BY <2>6, <3>1, NoFile DEF FilesInv, OnceInv
  <2>10. FilesInv'
    BY <2>2, <2>3, <2>4, <2>8, <2>9 DEF FilesInv
  <2>11. Files' = [Files EXCEPT ![p] = [d \in {i \in Positions : w[i] \in File} |-> w[d]]]
    BY <2>2, OneTable
  <2>12. /\ DOMAIN Files[p] = {i \in Positions : words[p][i] \in File}
         /\ \A d \in DOMAIN Files[p] : Files[p][d] = words[p][d]
    BY FilesAre
  <2>13. {i \in Positions : w[i] \in File} = DOMAIN Files[p] \ {fd}
    BY <2>5, <2>12, NoFile
  <2>14. \A d \in DOMAIN Files[p] \ {fd} : w[d] = Files[p][d]
    BY <2>5, <2>12
  <2>15. [d \in {i \in Positions : w[i] \in File} |-> w[d]]
          = Restrict(Files[p], DOMAIN Files[p] \ {fd})
    BY <2>13, <2>14 DEF Restrict
  <2>16. fd \in DOMAIN Files[p] /\ Files[p][fd] = words[p][fd]
    BY <1>3, Lookup
  <2>17. /\ fd \in DOMAIN Files[p]
         /\ Files' = [Files EXCEPT ![p] = Restrict(Files[p], DOMAIN Files[p] \ {fd})]
         /\ pos' = Restrict(pos, DOMAIN pos \ {Files[p][fd]})
         /\ eax' = eax
    BY <2>2, <2>11, <2>15, <2>16 DEF open
  <2>18. Promised!Close(p, fd)
    BY <2>17 DEF Files, Promised!Close, Promised!Owns, Restrict, Promised!Restrict
  <2> QED BY <2>3, <2>10, <2>18
<1>4. CASE flist_get_from_index(p, fd) # NULL /\ ~Named(p, fd)
  <2>1. fd \in Own
    BY <1>2, <1>4, AtFd
  <2>2. words[p][fd] \notin open
    BY <1>2, <1>4, AtFd DEF Named
  <2>3. wild'
    BY <1>2, <1>4, <2>2
  <2> QED BY <2>1, <2>3
<1> QED BY <1>1, <1>3, <1>4

LEMMA NoneOf ==
    [d \in {i \in Positions : Gone[i] \in File} |-> Gone[d]] = <<>>
<1> DEFINE S == {i \in Positions : Gone[i] \in File}
           g == [d \in S |-> Gone[d]]
<1>1. S = {}
  BY NoFile DEF Gone
<1> HIDE DEF S
<1>2. DOMAIN g = {} /\ g = [x \in DOMAIN g |-> g[x]]
  BY <1>1
<1> HIDE DEF g
<1>3. g = <<>>
  BY <1>2, NoFunction
<1> QED BY <1>3 DEF g, S

\* When the files of a process are in the array, its end closes them all.
LEMMA ExitOK ==
    ASSUME AboveConsole, FilesInv, NEW p \in Process, Exit(p), WithinArray(p)
    PROVE  Promised!Exit(p)
<1>1. words' = [words EXCEPT ![p] = Gone] /\ eax' = eax
  BY DEF Exit
<1>2. pos' = Restrict(pos, open \ {words[p][i] : i \in DOMAIN FilesOf(p) \cap (0..MAP_SIZE - 1)})
  BY ExitInv
<1>3. DOMAIN FilesOf(p) \cap (0..MAP_SIZE - 1) = DOMAIN FilesOf(p)
  BY DEF WithinArray
<1>4. Files' = [Files EXCEPT ![p] = <<>>]
  <2>1. Files' = [Files EXCEPT ![p] = [d \in {i \in Positions : Gone[i] \in File} |-> Gone[d]]]
    BY <1>1, OneTable
  <2> QED BY <2>1, NoneOf
<1>5. Files[p] = FilesOf(p) /\ \A d \in DOMAIN Files[p] : Files[p][d] = words[p][d]
  BY FilesAre DEF Files
<1>6. {words[p][i] : i \in DOMAIN FilesOf(p) \cap (0..MAP_SIZE - 1)} = {Files[p][d] : d \in DOMAIN Files[p]}
  BY <1>3, <1>5
<1>7. pos' = Restrict(pos, DOMAIN pos \ {Files[p][d] : d \in DOMAIN Files[p]})
  BY <1>2, <1>6 DEF open
<1> QED BY <1>1, <1>4, <1>7 DEF Files, Promised!Exit, Restrict, Promised!Restrict

LEMMA PromisedInit ==
    ASSUME FilesInit PROVE Promised!Init
<1>1. ASSUME NEW p \in Process PROVE FilesOf(p) = <<>>
  <2>1. words[p] = Gone
    BY DEF FilesInit
  <2> QED BY <2>1, NoneOf DEF FilesOf
<1> QED BY <1>1 DEF FilesInit, Promised!Init

-----------------------------------------------------------------------------
(* One step of one process, and runs.                                      *)

\* The tables stay right until nothing is known.
LEMMA StepOK ==
    ASSUME AboveConsole, FilesInv, FilesNext, ~wild'
    PROVE  FilesInv'
<1>1. PICK p \in Process :
        \/ Start(p) \/ Open(p) \/ Exit(p)
        \/ \E fd \in Fds :
              \/ Close(p, fd) \/ Tell(p, fd) \/ FileSize(p, fd)
              \/ \E n \in Sizes : Read(p, fd, n) \/ Write(p, fd, n)
              \/ \E n \in Offsets : Seek(p, fd, n)
  BY DEF FilesNext
<1>2. CASE Start(p) \/ Open(p) \/ Exit(p)
  BY <1>2, StartOK, OpenInv, ExitInv
<1>3. ASSUME NEW fd \in Fds, Close(p, fd) \/ Tell(p, fd) \/ FileSize(p, fd) PROVE FilesInv'
  BY <1>3, CloseOK, TellOK, FileSizeOK
<1>4. ASSUME NEW fd \in Fds, NEW n \in Sizes, Read(p, fd, n) \/ Write(p, fd, n) PROVE FilesInv'
  BY <1>4, ReadOK, WriteOK
<1>5. ASSUME NEW fd \in Fds, NEW n \in Offsets, Seek(p, fd, n) PROVE FilesInv'
  BY <1>5, SeekOK
<1> QED BY <1>1, <1>2, <1>3, <1>4, <1>5

\* From right tables every step is as promised.
LEMMA PromiseKept ==
    ASSUME AboveConsole, FilesInv PROVE AsPromised
<1>1. ASSUME NEW p \in Process
      PROVE  /\ Start(p) => (wild' <=> START_POSITION > 2)
             /\ Open(p) /\ Free(p) # {} => ~wild' /\ Promised!Open(p)
             /\ Exit(p) => ~wild' /\ (WithinArray(p) => Promised!Exit(p))
  BY StartOK, OpenOK, ExitInv, ExitOK
<1>2. ASSUME NEW p \in Process, NEW fd \in Fds \ Own, Close(p, fd)
      PROVE  ~wild' /\ Promised!Close(p, fd)
  BY <1>2, CloseOK
<1>3. ASSUME NEW p \in Process, NEW fd \in Fds \ Own, NEW n \in Sizes
      PROVE  /\ Read(p, fd, n) => ~wild' /\ Promised!Read(p, fd, n)
             /\ Write(p, fd, n) => ~wild' /\ Promised!Write(p, fd, n)
  BY ReadOK, WriteOK
<1>4. ASSUME NEW p \in Process, NEW fd \in Fds \ Own, fd \in Positions
      PROVE  /\ Tell(p, fd) => ~wild' /\ Promised!Tell(p, fd)
             /\ FileSize(p, fd) => ~wild' /\ Promised!FileSize(p, fd)
             /\ \A n \in Offsets : n >= 0 /\ Seek(p, fd, n) => ~wild' /\ Promised!Seek(p, fd, n)
  BY <1>4, TellOK, FileSizeOK, SeekOK
<1> QED BY <1>1, <1>2, <1>3, <1>4 DEF AsPromised

\* The tables are right for as long as anything is known.
Sound == wild \/ FilesInv

LEMMA SoundStep ==
    ASSUME AboveConsole, Sound, [FilesNext]_fileVars
    PROVE  Sound' /\ [AsPromised]_fileVars
<1>1. CASE UNCHANGED fileVars
  <2>1. FilesInv => FilesInv'
    BY <1>1 DEF fileVars, FilesInv, TableInv, OnceInv, open, Positions, Own
  <2> QED BY <1>1, <2>1 DEF Sound, fileVars
<1>2. CASE FilesNext
  <2>1. ~wild /\ FilesInv
    BY <1>2 DEF Sound, FilesNext
  <2> QED BY <1>2, <2>1, StepOK, PromiseKept DEF Sound
<1> QED BY <1>1, <1>2

\* The calls of flist.c with START_POSITION 50 and MAP_SIZE 128 as with any others: once the
\* tables are right they stay so until a step that AsPromised excepts is taken and faults, and every
\* other call on a descriptor does what flist.h asks of the table, whatever other processes open
\* and close at the same time.  Nothing is assumed of the descriptors a program uses or of how many
\* files it opens: what the code gets wrong there is excepted in AsPromised, case by case.
THEOREM CallsAsPromised ==
    AboveConsole => (/\ FilesInv
                     /\ [][FilesNext /\ \A p \in Process : ~Start(p)]_fileVars
                     => [](wild \/ FilesInv) /\ [][AsPromised]_fileVars)
<1> SUFFICES ASSUME AboveConsole
             PROVE  FilesInv /\ [][FilesNext /\ \A p \in Process : ~Start(p)]_fileVars
                    => [](wild \/ FilesInv) /\ [][AsPromised]_fileVars
  OBVIOUS
<1>1. FilesInv => Sound
  BY DEF Sound
<1>2. Sound /\ [FilesNext /\ \A p \in Process : ~Start(p)]_fileVars => Sound' /\ [AsPromised]_fileVars
  BY SoundStep
<1> QED BY <1>1, <1>2, PTL DEF Sound

\* The same of whole runs, with processes that start: their tables are reset past magic, and nothing
\* is known any more, exactly when START_POSITION is above 2; it is 50.  In every run up to
\* there a descriptor names the file it was handed out for until it is closed or the
\* process ends, and that file is closed once, with the exceptions of AsPromised.
THEOREM DescriptorsAreTracked ==
    AboveConsole => (FilesInit /\ [][FilesNext]_fileVars => FilesTracked)
<1> SUFFICES ASSUME AboveConsole
             PROVE  FilesInit /\ [][FilesNext]_fileVars => FilesTracked
  OBVIOUS
<1>1. FilesInit => Sound /\ Promised!Init
  BY FilesInitInv, PromisedInit DEF Sound
<1>2. Sound /\ [FilesNext]_fileVars => Sound' /\ [AsPromised]_fileVars
  BY SoundStep
<1> QED BY <1>1, <1>2, PTL DEF FilesTracked

-----------------------------------------------------------------------------
(* The links, and the sequences they are.                                  *)

\* Any links at all between the nodes.
Heaps == [next : [Nodes -> Nodes \cup {Null}], prev : [Nodes -> Nodes \cup {Null}]]

\* The i-th node of list l when it has the elements s: its head is the one before the first.
At(l, s, i) == IF i = 0 THEN Head1(l) ELSE IF i \in 1..Len(s) THEN s[i] ELSE Tail1(l)

\* The links of list l run forwards and backwards through exactly the elements of s.
Chain(h, l, s) == \A i \in 0..Len(s) : h.next[At(l, s, i)] = At(l, s, i + 1) /\ h.prev[At(l, s, i + 1)] = At(l, s, i)

\* Every element is in one list at most, and there once.
Once(S) == \A l, m \in List : \A i \in DOMAIN S[l], j \in DOMAIN S[m] : S[l][i] = S[m][j] => l = m /\ i = j

\* The heap h is the lists S: each list is a chain, and no element is in two places.
Holds(h, S) == h \in Heaps /\ S \in [List -> Seq(Elem)] /\ Once(S) /\ \A l \in List : Chain(h, l, S[l])

LEMMA NodesAre ==
    ASSUME NEW l \in List
    PROVE  /\ Head1(l) \in Nodes /\ Tail1(l) \in Nodes /\ Elem \subseteq Nodes
           /\ Head1(l) \notin Elem /\ Tail1(l) \notin Elem /\ Null \notin Elem /\ Null \notin Nodes
           /\ \A m \in List : Head1(l) # Tail1(m) /\ (Head1(l) = Head1(m) => l = m) /\ (Tail1(l) = Tail1(m) => l = m)
<1>1. \A m : Head1(l) # Tail1(m) /\ Null # Head1(m) /\ Null # Tail1(m) /\ (Head1(l) = Head1(m) => l = m) /\ (Tail1(l) = Tail1(m) => l = m)
  BY DEF Head1, Tail1, Null
<1>2. Head1(l) \notin Elem /\ Tail1(l) \notin Elem /\ Null \notin Elem
  BY ListsAssumption
<1> QED BY <1>1, <1>2 DEF Nodes

LEMMA AtIs ==
    ASSUME NEW l \in List, NEW s \in Seq(Elem)
    PROVE  /\ Len(s) \in Nat /\ DOMAIN s = 1..Len(s)
           /\ At(l, s, 0) = Head1(l) /\ At(l, s, Len(s) + 1) = Tail1(l)
           /\ \A i \in 1..Len(s) : At(l, s, i) = s[i] /\ s[i] \in Elem /\ s[i] \in Nodes
           /\ \A i \in 0..(Len(s) + 1) : At(l, s, i) \in Nodes
<1>1. Len(s) \in Nat /\ DOMAIN s = 1..Len(s) /\ \A i \in 1..Len(s) : s[i] \in Elem
  BY LenProperties, ElementOfSeq
<1>2. At(l, s, 0) = Head1(l) /\ At(l, s, Len(s) + 1) = Tail1(l) /\ \A i \in 1..Len(s) : At(l, s, i) = s[i]
  BY <1>1 DEF At
<1>3. ASSUME NEW i \in 0..(Len(s) + 1) PROVE At(l, s, i) \in Nodes
  <2>1. i = 0 \/ i \in 1..Len(s) \/ i = Len(s) + 1
    BY <1>1
  <2> QED BY <1>1, <1>2, <2>1, NodesAre
<1> QED BY <1>1, <1>2, <1>3, NodesAre

\* No node is in two places.
LEMMA AtOnce ==
    ASSUME NEW S \in [List -> Seq(Elem)], Once(S), NEW l \in List, NEW m \in List,
           NEW i \in 0..(Len(S[l]) + 1), NEW j \in 0..(Len(S[m]) + 1), At(l, S[l], i) = At(m, S[m], j)
    PROVE  l = m /\ i = j
<1>1. /\ Len(S[l]) \in Nat /\ DOMAIN S[l] = 1..Len(S[l]) /\ At(l, S[l], 0) = Head1(l) /\ At(l, S[l], Len(S[l]) + 1) = Tail1(l)
      /\ \A x \in 1..Len(S[l]) : At(l, S[l], x) = S[l][x] /\ S[l][x] \in Elem
  BY AtIs
<1>2. /\ Len(S[m]) \in Nat /\ DOMAIN S[m] = 1..Len(S[m]) /\ At(m, S[m], 0) = Head1(m) /\ At(m, S[m], Len(S[m]) + 1) = Tail1(m)
      /\ \A x \in 1..Len(S[m]) : At(m, S[m], x) = S[m][x] /\ S[m][x] \in Elem
  BY AtIs
<1>3. /\ Head1(l) \notin Elem /\ Tail1(l) \notin Elem /\ Head1(m) \notin Elem /\ Tail1(m) \notin Elem
      /\ Head1(l) # Tail1(m) /\ Head1(m) # Tail1(l) /\ (Head1(l) = Head1(m) => l = m) /\ (Tail1(l) = Tail1(m) => l = m)
  BY NodesAre
<1>4. i = 0 \/ i \in 1..Len(S[l]) \/ i = Len(S[l]) + 1
  BY <1>1
<1>5. j = 0 \/ j \in 1..Len(S[m]) \/ j = Len(S[m]) + 1
  BY <1>2
<1>6. CASE i = 0
  <2>1. j = 0 /\ l = m
    BY <1>1, <1>2, <1>3, <1>5, <1>6
  <2> QED BY <1>6, <2>1
<1>7. CASE i = Len(S[l]) + 1
  <2>1. j = Len(S[m]) + 1 /\ l = m
    BY <1>1, <1>2, <1>3, <1>5, <1>7
  <2> QED BY <1>7, <2>1
<1>8. CASE i \in 1..Len(S[l])
  <2>1. j \in 1..Len(S[m]) /\ S[l][i] = S[m][j]
    BY <1>1, <1>2, <1>3, <1>5, <1>8
  <2> QED BY <1>1, <1>2, <1>8, <2>1 DEF Once
<1> QED BY <1>4, <1>6, <1>7, <1>8

-----------------------------------------------------------------------------
(* Parts that are taken out and put in.                                    *)

Without(s, i, j) == [x \in 1..(Len(s) - (j - i)) |-> IF x < i THEN s[x] ELSE s[x + (j - i)]]
With(s, k, q) == [x \in 1..(Len(s) + Len(q)) |-> IF x < k THEN s[x] ELSE IF x < k + Len(q) THEN q[x - k + 1] ELSE s[x - Len(q)]]
Part(s, i, j) == [x \in 1..(j - i) |-> s[i + x - 1]]

LEMMA WithoutIs ==
    ASSUME NEW l \in List, NEW s \in Seq(Elem), NEW i \in 1..(Len(s) + 1), NEW j \in i..(Len(s) + 1), NEW t, t = Without(s, i, j)
    PROVE  /\ t \in Seq(Elem) /\ Len(t) = Len(s) - (j - i) /\ Len(t) \in Nat /\ i <= Len(t) + 1
           /\ \A x \in 0..(Len(t) + 1) : At(l, t, x) = IF x < i THEN At(l, s, x) ELSE At(l, s, x + (j - i))
           /\ \A x \in 1..Len(t) : t[x] = IF x < i THEN s[x] ELSE s[x + (j - i)]
<1>1. Len(s) \in Nat /\ i \in Nat /\ j \in Nat /\ i <= j /\ j <= Len(s) + 1 /\ i >= 1 /\ \A x \in 1..Len(s) : s[x] \in Elem
  BY AtIs
<1> DEFINE n == Len(s) - (j - i)
<1>2. n \in Nat /\ i <= n + 1
  BY <1>1
<1>3. /\ t = [x \in 1..n |-> IF x < i THEN s[x] ELSE s[x + (j - i)]]
  BY DEF Without
<1>4. ASSUME NEW x \in 1..n PROVE t[x] = (IF x < i THEN s[x] ELSE s[x + (j - i)]) /\ t[x] \in Elem
  <2>1. t[x] = IF x < i THEN s[x] ELSE s[x + (j - i)]
    BY <1>3
  <2>2. x < i => x \in 1..Len(s)
    BY <1>1
  <2>3. ~(x < i) => x + (j - i) \in 1..Len(s)
    BY <1>1
  <2> QED BY <1>1, <2>1, <2>2, <2>3
<1> HIDE DEF n
<1>5. t \in [1..n -> Elem]
  BY <1>3, <1>4
<1>6. t \in Seq(Elem) /\ Len(t) = n
  BY <1>2, <1>5
<1>7. ASSUME NEW x \in 0..(n + 1) PROVE At(l, t, x) = IF x < i THEN At(l, s, x) ELSE At(l, s, x + (j - i))
  <2>1. CASE x = 0
    BY <1>1, <2>1 DEF At
  <2>2. CASE x \in 1..n
    <3>1. At(l, t, x) = IF x < i THEN s[x] ELSE s[x + (j - i)]
      BY <1>2, <1>4, <1>6, <2>2 DEF At
    <3>2. x < i => x \in 1..Len(s) /\ x # 0
      BY <1>1, <2>2
    <3>3. ~(x < i) => x + (j - i) \in 1..Len(s) /\ x + (j - i) # 0
      BY <1>1, <2>2 DEF n
    <3> QED BY <3>1, <3>2, <3>3 DEF At
  <2>3. CASE x = n + 1
    <3>1. ~(x < i) /\ x + (j - i) = Len(s) + 1
      BY <1>1, <1>2, <2>3 DEF n
    <3>2. At(l, t, x) = Tail1(l)
      BY <1>2, <1>6, <2>3 DEF At
    <3>3. At(l, s, Len(s) + 1) = Tail1(l)
      BY <1>1 DEF At
    <3> QED BY <3>1, <3>2, <3>3
  <2> QED BY <1>2, <2>1, <2>2, <2>3
<1> QED BY <1>2, <1>4, <1>6, <1>7 DEF n

LEMMA WithIs ==
    ASSUME NEW l \in List, NEW s \in Seq(Elem), NEW q \in Seq(Elem), NEW k \in 1..(Len(s) + 1), NEW t, t = With(s, k, q)
    PROVE  /\ t \in Seq(Elem) /\ Len(t) = Len(s) + Len(q) /\ Len(t) \in Nat /\ Len(q) \in Nat /\ Len(s) \in Nat
           /\ \A x \in 0..(Len(t) + 1) : At(l, t, x) = IF x < k THEN At(l, s, x) ELSE IF x < k + Len(q) THEN q[x - k + 1] ELSE At(l, s, x - Len(q))
           /\ \A x \in 1..Len(t) : t[x] = IF x < k THEN s[x] ELSE IF x < k + Len(q) THEN q[x - k + 1] ELSE s[x - Len(q)]
<1> DEFINE d == Len(q)
           n == Len(s) + d
<1>1. Len(s) \in Nat /\ d \in Nat /\ k \in Nat /\ k >= 1 /\ k <= Len(s) + 1 /\ (\A x \in 1..Len(s) : s[x] \in Elem) /\ \A x \in 1..d : q[x] \in Elem
  BY AtIs
<1>2. n \in Nat
  BY <1>1
<1>3. t = [x \in 1..n |-> IF x < k THEN s[x] ELSE IF x < k + d THEN q[x - k + 1] ELSE s[x - d]]
  BY DEF With
<1> HIDE DEF d
<1>4. ASSUME NEW x \in 1..n PROVE t[x] = (IF x < k THEN s[x] ELSE IF x < k + d THEN q[x - k + 1] ELSE s[x - d]) /\ t[x] \in Elem
  <2>1. t[x] = IF x < k THEN s[x] ELSE IF x < k + d THEN q[x - k + 1] ELSE s[x - d]
    BY <1>3
  <2>2. x < k => x \in 1..Len(s)
    BY <1>1
  <2>3. ~(x < k) /\ x < k + d => x - k + 1 \in 1..d
    BY <1>1
  <2>4. ~(x < k) /\ ~(x < k + d) => x - d \in 1..Len(s)
    BY <1>1
  <2> QED BY <1>1, <2>1, <2>2, <2>3, <2>4
<1> HIDE DEF n
<1>5. t \in [1..n -> Elem]
  BY <1>3, <1>4
<1>6. t \in Seq(Elem) /\ Len(t) = n
  BY <1>2, <1>5
<1>7. ASSUME NEW x \in 0..(n + 1)
      PROVE  At(l, t, x) = IF x < k THEN At(l, s, x) ELSE IF x < k + d THEN q[x - k + 1] ELSE At(l, s, x - d)
  <2>1. CASE x = 0
    BY <1>1, <2>1 DEF At
  <2>2. CASE x \in 1..n
    <3>1. At(l, t, x) = IF x < k THEN s[x] ELSE IF x < k + d THEN q[x - k + 1] ELSE s[x - d]
      BY <1>2, <1>4, <1>6, <2>2 DEF At
    <3>2. x < k => x \in 1..Len(s) /\ x # 0
      BY <1>1, <2>2
    <3>3. ~(x < k) /\ ~(x < k + d) => x - d \in 1..Len(s) /\ x - d # 0
      BY <1>1, <2>2 DEF n
    <3> QED BY <3>1, <3>2, <3>3 DEF At
  <2>3. CASE x = n + 1
    <3>1. ~(x < k) /\ ~(x < k + d) /\ x - d = Len(s) + 1
      BY <1>1, <1>2, <2>3 DEF n
    <3>2. At(l, t, x) = Tail1(l)
      BY <1>2, <1>6, <2>3 DEF At
    <3>3. At(l, s, Len(s) + 1) = Tail1(l)
      BY <1>1 DEF At
    <3> QED BY <3>1, <3>2, <3>3
  <2> QED BY <1>2, <2>1, <2>2, <2>3
<1> QED BY <1>1, <1>2, <1>4, <1>6, <1>7 DEF n, d

LEMMA PartIs ==
    ASSUME NEW s \in Seq(Elem), NEW i \in 1..(Len(s) + 1), NEW j \in i..(Len(s) + 1), NEW q, q = Part(s, i, j)
    PROVE  /\ q \in Seq(Elem) /\ Len(q) = j - i
           /\ \A x \in 1..Len(q) : q[x] = s[i + x - 1] /\ i + x - 1 \in 1..Len(s) /\ i + x - 1 < j
<1>1. Len(s) \in Nat /\ i \in Nat /\ j \in Nat /\ i <= j /\ j <= Len(s) + 1 /\ i >= 1 /\ \A x \in 1..Len(s) : s[x] \in Elem
  BY LenProperties, ElementOfSeq
<1> DEFINE n == j - i
<1>2. n \in Nat
  BY <1>1
<1>3. q = [x \in 1..n |-> s[i + x - 1]]
  BY DEF Part
<1>4. ASSUME NEW x \in 1..n PROVE q[x] = s[i + x - 1] /\ i + x - 1 \in 1..Len(s) /\ i + x - 1 < j /\ q[x] \in Elem
  <2>1. i + x - 1 \in 1..Len(s) /\ i + x - 1 < j
    BY <1>1
  <2> QED BY <1>1, <1>3, <2>1
<1> HIDE DEF n
<1>5. q \in [1..n -> Elem]
  BY <1>3, <1>4
<1>6. q \in Seq(Elem) /\ Len(q) = n
  BY <1>2, <1>5
<1> QED BY <1>4, <1>6 DEF n

Cut(h, first, end) ==
    [next |-> [h.next EXCEPT ![h.prev[first]] = end], prev |-> [h.prev EXCEPT ![end] = h.prev[first]]]
Paste(h, before, first, last) ==
    [next |-> [h.next EXCEPT ![last] = before, ![h.prev[before]] = first],
     prev |-> [h.prev EXCEPT ![first] = h.prev[before], ![before] = last]]

CutOf(S, m, i, j) == [S EXCEPT ![m] = Without(@, i, j)]
PasteOf(S, l, k, q) == [S EXCEPT ![l] = With(@, k, q)]

\* The elements q are linked with each other, and in no list.
InRow(h, q) == \A x \in 1..(Len(q) - 1) : h.next[q[x]] = q[x + 1] /\ h.prev[q[x + 1]] = q[x]
Apart(S, q) ==
    /\ \A x, y \in 1..Len(q) : q[x] = q[y] => x = y
    /\ \A l \in List : \A i \in DOMAIN S[l], x \in 1..Len(q) : S[l][i] # q[x]

LEMMA CutLinks ==
    ASSUME NEW h \in Heaps, NEW first \in Nodes, NEW end \in Nodes, h.prev[first] \in Nodes
    PROVE  LET g == Cut(h, first, end) IN
           /\ g \in Heaps
           /\ \A n \in Nodes : g.next[n] = IF n = h.prev[first] THEN end ELSE h.next[n]
           /\ \A n \in Nodes : g.prev[n] = IF n = end THEN h.prev[first] ELSE h.prev[n]
BY DEF Heaps, Cut

LEMMA PasteLinks ==
    ASSUME NEW h \in Heaps, NEW before \in Nodes, NEW first \in Nodes, NEW last \in Nodes, h.prev[before] \in Nodes
    PROVE  LET g == Paste(h, before, first, last) IN
           /\ g \in Heaps
           /\ \A n \in Nodes : g.next[n] = IF n = h.prev[before] THEN first ELSE IF n = last THEN before ELSE h.next[n]
           /\ \A n \in Nodes : g.prev[n] = IF n = before THEN last ELSE IF n = first THEN h.prev[before] ELSE h.prev[n]
BY DEF Heaps, Paste

LEMMA CutKeeps ==
    ASSUME NEW h, NEW S, Holds(h, S), NEW m \in List,
           NEW i \in 1..(Len(S[m]) + 1), NEW j \in i..(Len(S[m]) + 1), i < j
    PROVE  LET g == Cut(h, At(m, S[m], i), At(m, S[m], j))
               q == Part(S[m], i, j)
           IN  /\ Holds(g, CutOf(S, m, i, j)) /\ InRow(g, q) /\ Apart(CutOf(S, m, i, j), q)
               /\ q \in Seq(Elem) /\ Len(q) = j - i
               /\ At(m, S[m], i) = q[1] /\ h.prev[At(m, S[m], j)] = q[Len(q)]
<1> DEFINE s == S[m]
           first == At(m, s, i)
           end == At(m, s, j)
           a == At(m, s, i - 1)
           g == Cut(h, first, end)
           T == CutOf(S, m, i, j)
           t == Without(s, i, j)
           q == Part(s, i, j)
           d == j - i
<1>1. /\ h \in Heaps /\ S \in [List -> Seq(Elem)] /\ Once(S)
      /\ \A l \in List : \A x \in 0..Len(S[l]) :
            h.next[At(l, S[l], x)] = At(l, S[l], x + 1) /\ h.prev[At(l, S[l], x + 1)] = At(l, S[l], x)
  BY DEF Holds, Chain
<1>2. s \in Seq(Elem)
  BY <1>1
<1>3. /\ Len(s) \in Nat /\ DOMAIN s = 1..Len(s)
      /\ \A x \in 1..Len(s) : At(m, s, x) = s[x] /\ s[x] \in Elem
      /\ \A x \in 0..(Len(s) + 1) : At(m, s, x) \in Nodes
  BY <1>2, AtIs
<1>4. /\ i \in Nat /\ j \in Nat /\ 1 <= i /\ i < j /\ j <= Len(s) + 1 /\ d \in Nat
      /\ i - 1 \in 0..Len(s) /\ j - 1 \in 0..Len(s) /\ i \in 1..Len(s) /\ j - 1 \in 1..Len(s)
  BY <1>3
<1>5. /\ h.prev[first] = a /\ h.prev[end] = At(m, s, j - 1)
      /\ a \in Nodes /\ first \in Nodes /\ end \in Nodes
  <2>1. h.prev[At(m, s, (i - 1) + 1)] = At(m, s, i - 1) /\ h.prev[At(m, s, (j - 1) + 1)] = At(m, s, j - 1)
    BY <1>1, <1>4
  <2>2. (i - 1) + 1 = i /\ (j - 1) + 1 = j /\ i - 1 \in 0..(Len(s) + 1) /\ i \in 0..(Len(s) + 1) /\ j \in 0..(Len(s) + 1)
    BY <1>3, <1>4
  <2> QED BY <1>3, <2>1, <2>2
<1>6. /\ g \in Heaps
      /\ \A n \in Nodes : g.next[n] = IF n = a THEN end ELSE h.next[n]
      /\ \A n \in Nodes : g.prev[n] = IF n = end THEN a ELSE h.prev[n]
  BY <1>1, <1>5, CutLinks
<1>7. /\ t \in Seq(Elem) /\ Len(t) = Len(s) - d /\ Len(t) \in Nat /\ i <= Len(t) + 1
      /\ \A x \in 0..(Len(t) + 1) : At(m, t, x) = IF x < i THEN At(m, s, x) ELSE At(m, s, x + d)
      /\ \A x \in 1..Len(t) : t[x] = IF x < i THEN s[x] ELSE s[x + d]
  BY <1>2, WithoutIs
<1>8. q \in Seq(Elem) /\ Len(q) = d /\ \A x \in 1..Len(q) : q[x] = s[i + x - 1] /\ i + x - 1 \in 1..Len(s) /\ i + x - 1 < j
  BY <1>2, PartIs
<1>9. T \in [List -> Seq(Elem)] /\ T[m] = t /\ \A l \in List : l # m => T[l] = S[l]
  BY <1>1, <1>7 DEF CutOf
<1>10. \A x, y \in 0..(Len(s) + 1) : At(m, s, x) = At(m, s, y) => x = y
  BY <1>1, AtOnce
<1> HIDE DEF s, first, end, a, g, T, t, q, d
<1>11. ASSUME NEW l \in List, l # m PROVE Chain(g, l, T[l])
  <2>1. ASSUME NEW x \in 0..(Len(S[l]) + 1) PROVE At(l, S[l], x) # a /\ At(l, S[l], x) # end /\ At(l, S[l], x) \in Nodes
    <3>1. \A y \in 0..(Len(S[m]) + 1) : At(l, S[l], x) # At(m, S[m], y)
      BY <1>1, <1>11, AtOnce
    <3>2. i - 1 \in 0..(Len(S[m]) + 1) /\ j \in 0..(Len(S[m]) + 1)
      BY <1>3, <1>4 DEF s
    <3>3. S[l] \in Seq(Elem)
      BY <1>1
    <3>4. At(l, S[l], x) \in Nodes
      BY <3>3, AtIs
    <3> QED BY <3>1, <3>2, <3>4 DEF a, end, s
  <2>2. ASSUME NEW x \in 0..Len(S[l])
        PROVE  g.next[At(l, S[l], x)] = At(l, S[l], x + 1) /\ g.prev[At(l, S[l], x + 1)] = At(l, S[l], x)
    <3>1. Len(S[l]) \in Nat
      BY <1>1, AtIs
    <3>2. x \in 0..(Len(S[l]) + 1) /\ x + 1 \in 0..(Len(S[l]) + 1)
      BY <3>1
    <3> QED BY <1>1, <1>6, <2>1, <3>2
  <2> QED BY <1>9, <1>11, <2>2 DEF Chain
<1>12. Chain(g, m, t)
  <2> SUFFICES ASSUME NEW x \in 0..Len(t)
               PROVE  g.next[At(m, t, x)] = At(m, t, x + 1) /\ g.prev[At(m, t, x + 1)] = At(m, t, x)
    BY DEF Chain
  <2>1. x \in 0..(Len(t) + 1) /\ x + 1 \in 0..(Len(t) + 1)
    BY <1>7
  <2>2. \A y \in 0..Len(s) : h.next[At(m, s, y)] = At(m, s, y + 1) /\ h.prev[At(m, s, y + 1)] = At(m, s, y)
    BY <1>1 DEF s
  <2>3. CASE x < i - 1
    <3>1. x \in 0..Len(s) /\ x \in 0..(Len(s) + 1) /\ x + 1 \in 0..(Len(s) + 1) /\ x < i /\ x + 1 < i /\ x # i - 1 /\ x + 1 # j
          /\ i - 1 \in 0..(Len(s) + 1) /\ j \in 0..(Len(s) + 1)
      BY <1>3, <1>4, <1>7, <2>3 DEF d
    <3>2. At(m, t, x) = At(m, s, x) /\ At(m, t, x + 1) = At(m, s, x + 1)
      BY <1>7, <2>1, <3>1
    <3>3. At(m, s, x) # a /\ At(m, s, x + 1) # end /\ At(m, s, x) \in Nodes /\ At(m, s, x + 1) \in Nodes
      BY <1>3, <1>10, <3>1 DEF a, end
    <3> QED BY <1>6, <2>2, <3>1, <3>2, <3>3
  <2>4. CASE x = i - 1
    <3>1. x < i /\ ~(x + 1 < i) /\ (x + 1) + d = j
      BY <1>4, <2>4 DEF d
    <3>2. At(m, t, x) = a /\ At(m, t, x + 1) = end
      BY <1>7, <2>1, <2>4, <3>1 DEF a, end
    <3> QED BY <1>5, <1>6, <3>2
  <2>5. CASE x >= i
    <3>1. x + d \in 0..Len(s) /\ x + d \in 0..(Len(s) + 1) /\ (x + 1) + d \in 0..(Len(s) + 1) /\ ~(x < i) /\ ~(x + 1 < i) /\ x + d # i - 1 /\ (x + 1) + d # j
          /\ i - 1 \in 0..(Len(s) + 1) /\ j \in 0..(Len(s) + 1) /\ (x + d) + 1 = (x + 1) + d
      BY <1>3, <1>4, <1>7, <2>5 DEF d
    <3>2. At(m, t, x) = At(m, s, x + d) /\ At(m, t, x + 1) = At(m, s, (x + 1) + d)
      BY <1>7, <2>1, <3>1
    <3>3. At(m, s, x + d) # a /\ At(m, s, (x + 1) + d) # end /\ At(m, s, x + d) \in Nodes /\ At(m, s, (x + 1) + d) \in Nodes
      BY <1>3, <1>10, <3>1 DEF a, end
    <3>4. h.next[At(m, s, x + d)] = At(m, s, (x + 1) + d) /\ h.prev[At(m, s, (x + 1) + d)] = At(m, s, x + d)
      BY <2>2, <3>1
    <3> QED BY <1>6, <3>2, <3>3, <3>4
  <2> QED BY <1>4, <1>7, <2>3, <2>4, <2>5
<1>13. Once(T)
  <2>1. ASSUME NEW l \in List, NEW x \in DOMAIN T[l]
        PROVE  \E y \in DOMAIN S[l] : T[l][x] = S[l][y] /\ (l = m => y = IF x < i THEN x ELSE x + d)
    <3>1. CASE l # m
      BY <1>9, <3>1
    <3>2. CASE l = m
      <4>1. x \in 1..Len(t)
        BY <1>7, <1>9, <3>2, AtIs
      <4>2. (IF x < i THEN x ELSE x + d) \in 1..Len(s)
        BY <1>3, <1>4, <1>7, <4>1
      <4>3. T[l][x] = s[IF x < i THEN x ELSE x + d]
        BY <1>7, <1>9, <3>2, <4>1
      <4> QED BY <1>3, <3>2, <4>2, <4>3 DEF s
    <3> QED BY <3>1, <3>2
  <2>2. ASSUME NEW l \in List, NEW k \in List, NEW x \in DOMAIN T[l], NEW y \in DOMAIN T[k], T[l][x] = T[k][y]
        PROVE  l = k /\ x = y
    <3>1. PICK x2 \in DOMAIN S[l] : T[l][x] = S[l][x2] /\ (l = m => x2 = IF x < i THEN x ELSE x + d)
      BY <2>1
    <3>2. PICK y2 \in DOMAIN S[k] : T[k][y] = S[k][y2] /\ (k = m => y2 = IF y < i THEN y ELSE y + d)
      BY <2>1
    <3>3. l = k /\ x2 = y2
      <4>1. S[l][x2] = S[k][y2]
        BY <2>2, <3>1, <3>2
      <4> QED BY <1>1, <4>1 DEF Once
    <3>4. CASE l # m
      <4>1. T[l] = S[l] /\ DOMAIN T[l] = DOMAIN S[l]
        BY <1>9, <3>4
      <4> QED BY <1>1, <2>2, <3>3, <4>1 DEF Once
    <3>5. CASE l = m
      <4>1. x \in 1..Len(t) /\ y \in 1..Len(t)
        BY <1>7, <1>9, <3>3, <3>5, AtIs
      <4>2. (IF x < i THEN x ELSE x + d) = (IF y < i THEN y ELSE y + d)
        BY <3>1, <3>2, <3>3, <3>5
      <4>3. x = y
        BY <1>4, <1>7, <4>1, <4>2
      <4> QED BY <3>3, <4>3
    <3> QED BY <3>4, <3>5
  <2> QED BY <2>2 DEF Once
<1>14. InRow(g, q)
  <2> SUFFICES ASSUME NEW x \in 1..(Len(q) - 1) PROVE g.next[q[x]] = q[x + 1] /\ g.prev[q[x + 1]] = q[x]
    BY DEF InRow
  <2> DEFINE y == i + x - 1
  <2>1. x \in 1..Len(q) /\ x + 1 \in 1..Len(q) /\ i + (x + 1) - 1 = y + 1 /\ y \in 1..Len(s) /\ y \in 0..Len(s) /\ y + 1 \in 1..Len(s)
        /\ y # i - 1 /\ y + 1 # j /\ y \in 0..(Len(s) + 1) /\ y + 1 \in 0..(Len(s) + 1) /\ i - 1 \in 0..(Len(s) + 1) /\ j \in 0..(Len(s) + 1)
    BY <1>3, <1>4, <1>8 DEF d
  <2>2. q[x] = At(m, s, y) /\ q[x + 1] = At(m, s, y + 1)
    BY <1>3, <1>8, <2>1
  <2>3. h.next[At(m, s, y)] = At(m, s, y + 1) /\ h.prev[At(m, s, y + 1)] = At(m, s, y)
    BY <1>1, <2>1 DEF s
  <2>4. At(m, s, y) # a /\ At(m, s, y + 1) # end /\ At(m, s, y) \in Nodes /\ At(m, s, y + 1) \in Nodes
    BY <1>3, <1>10, <2>1 DEF a, end
  <2> QED BY <1>6, <2>2, <2>3, <2>4
<1>15. Apart(T, q)
  <2>1. ASSUME NEW x \in 1..Len(q), NEW y \in 1..Len(q), q[x] = q[y] PROVE x = y
    <3>1. s[i + x - 1] = s[i + y - 1] /\ i + x - 1 \in 1..Len(s) /\ i + y - 1 \in 1..Len(s)
      BY <1>8, <2>1
    <3>2. i + x - 1 = i + y - 1
      <4>1. i + x - 1 \in DOMAIN S[m] /\ i + y - 1 \in DOMAIN S[m] /\ S[m][i + x - 1] = S[m][i + y - 1]
        BY <1>3, <3>1 DEF s
      <4> QED BY <1>1, <4>1 DEF Once
    <3>3. x \in Nat /\ y \in Nat
      BY <1>4, <1>8
    <3> QED BY <1>4, <3>2, <3>3
  <2>2. ASSUME NEW l \in List, NEW y \in DOMAIN T[l], NEW x \in 1..Len(q), T[l][y] = q[x] PROVE FALSE
    <3>1. q[x] = s[i + x - 1] /\ i + x - 1 \in 1..Len(s) /\ i + x - 1 < j /\ x \in Nat /\ x >= 1
      BY <1>4, <1>8
    <3>2. CASE l # m
      <4>1. S[l][y] = S[m][i + x - 1] /\ y \in DOMAIN S[l] /\ i + x - 1 \in DOMAIN S[m]
        BY <1>3, <1>9, <2>2, <3>1, <3>2 DEF s
      <4> QED BY <1>1, <3>2, <4>1 DEF Once
    <3>3. CASE l = m
      <4>1. y \in 1..Len(t)
        BY <1>7, <1>9, <3>3, AtIs
      <4>2. (IF y < i THEN y ELSE y + d) \in 1..Len(s) /\ (IF y < i THEN y ELSE y + d) # i + x - 1
        <5>1. Len(t) = Len(s) - (j - i) /\ Len(s) \in Nat /\ y \in Nat /\ 1 <= y /\ y <= Len(t) /\ d = j - i
          BY <1>3, <1>7, <4>1 DEF d
        <5>2. CASE y < i
          <6>1. y \in 1..Len(s) /\ y # i + x - 1
            BY <1>4, <3>1, <5>1, <5>2
          <6> QED BY <5>2, <6>1
        <5>3. CASE ~(y < i)
          <6>1. y + d \in 1..Len(s) /\ y + d # i + x - 1
            BY <1>4, <3>1, <5>1, <5>3
          <6> QED BY <5>3, <6>1
        <5> QED BY <5>2, <5>3
      <4>3. s[IF y < i THEN y ELSE y + d] = s[i + x - 1]
        BY <1>7, <1>9, <2>2, <3>1, <3>3, <4>1
      <4>4. PICK z \in 1..Len(s) : z = IF y < i THEN y ELSE y + d
        BY <4>2
      <4>5. z \in DOMAIN S[m] /\ i + x - 1 \in DOMAIN S[m] /\ S[m][z] = S[m][i + x - 1] /\ z # i + x - 1
        BY <1>3, <3>1, <4>2, <4>3, <4>4 DEF s
      <4> QED BY <1>1, <4>5 DEF Once
    <3> QED BY <3>2, <3>3
  <2> QED BY <2>1, <2>2 DEF Apart
<1>16. first = q[1] /\ h.prev[end] = q[Len(q)]
  <2>1. 1 \in 1..Len(q) /\ i + 1 - 1 = i /\ Len(q) \in 1..Len(q) /\ i + Len(q) - 1 = j - 1
    <3>1. Len(q) = j - i
      BY <1>8 DEF d
    <3> QED BY <1>4, <3>1
  <2> QED BY <1>3, <1>4, <1>5, <1>8, <2>1 DEF first
<1>17. Holds(g, T)
  <2>1. \A l \in List : Chain(g, l, T[l])
    BY <1>9, <1>11, <1>12
  <2> QED BY <1>6, <1>9, <1>13, <2>1 DEF Holds
<1> QED BY <1>8, <1>14, <1>15, <1>16, <1>17 DEF g, T, q, s, first, end, d

LEMMA PasteKeeps ==
    ASSUME NEW h, NEW S, Holds(h, S), NEW l \in List, NEW k \in 1..(Len(S[l]) + 1),
           NEW q \in Seq(Elem), Len(q) > 0, InRow(h, q), Apart(S, q)
    PROVE  Holds(Paste(h, At(l, S[l], k), q[1], q[Len(q)]), PasteOf(S, l, k, q))
<1> DEFINE s == S[l]
           before == At(l, s, k)
           a == At(l, s, k - 1)
           first == q[1]
           last == q[Len(q)]
           g == Paste(h, before, first, last)
           T == PasteOf(S, l, k, q)
           t == With(s, k, q)
           d == Len(q)
<1>1. /\ h \in Heaps /\ S \in [List -> Seq(Elem)] /\ Once(S)
      /\ \A m \in List : \A x \in 0..Len(S[m]) :
            h.next[At(m, S[m], x)] = At(m, S[m], x + 1) /\ h.prev[At(m, S[m], x + 1)] = At(m, S[m], x)
  BY DEF Holds, Chain
<1>2. s \in Seq(Elem)
  BY <1>1
<1>3. /\ Len(s) \in Nat /\ DOMAIN s = 1..Len(s)
      /\ \A x \in 1..Len(s) : At(l, s, x) = s[x] /\ s[x] \in Elem
      /\ \A x \in 0..(Len(s) + 1) : At(l, s, x) \in Nodes
  BY <1>2, AtIs
<1>4. d \in Nat /\ d >= 1 /\ 1 \in 1..d /\ d \in 1..d /\ \A x \in 1..d : q[x] \in Elem /\ q[x] \in Nodes
  <2>1. Len(q) \in Nat /\ \A x \in 1..Len(q) : q[x] \in Elem
    BY LenProperties, ElementOfSeq
  <2> QED BY <2>1, NodesAre
<1>5. /\ k \in Nat /\ 1 <= k /\ k <= Len(s) + 1 /\ k - 1 \in 0..Len(s)
      /\ k - 1 \in 0..(Len(s) + 1) /\ k \in 0..(Len(s) + 1) /\ (k - 1) + 1 = k
  BY <1>3
<1>6. h.prev[before] = a /\ a \in Nodes /\ before \in Nodes /\ first \in Nodes /\ last \in Nodes
  <2>1. h.prev[At(l, s, (k - 1) + 1)] = At(l, s, k - 1)
    BY <1>1, <1>5
  <2> QED BY <1>3, <1>4, <1>5, <2>1
<1>7. /\ g \in Heaps
      /\ \A n \in Nodes : g.next[n] = IF n = a THEN first ELSE IF n = last THEN before ELSE h.next[n]
      /\ \A n \in Nodes : g.prev[n] = IF n = before THEN last ELSE IF n = first THEN a ELSE h.prev[n]
  BY <1>1, <1>6, PasteLinks
<1>8. /\ t \in Seq(Elem) /\ Len(t) = Len(s) + d /\ Len(t) \in Nat
      /\ \A x \in 0..(Len(t) + 1) : At(l, t, x) = IF x < k THEN At(l, s, x) ELSE IF x < k + d THEN q[x - k + 1] ELSE At(l, s, x - d)
      /\ \A x \in 1..Len(t) : t[x] = IF x < k THEN s[x] ELSE IF x < k + d THEN q[x - k + 1] ELSE s[x - d]
  <2>1. l \in List /\ s \in Seq(Elem) /\ q \in Seq(Elem) /\ k \in 1..(Len(s) + 1) /\ t = With(s, k, q)
    BY <1>2
  <2> HIDE DEF s, t
  <2>2. /\ t \in Seq(Elem) /\ Len(t) = Len(s) + Len(q) /\ Len(t) \in Nat
        /\ \A x \in 0..(Len(t) + 1) : At(l, t, x) = IF x < k THEN At(l, s, x) ELSE IF x < k + Len(q) THEN q[x - k + 1] ELSE At(l, s, x - Len(q))
        /\ \A x \in 1..Len(t) : t[x] = IF x < k THEN s[x] ELSE IF x < k + Len(q) THEN q[x - k + 1] ELSE s[x - Len(q)]
    BY ONLY <2>1, WithIs
  <2> QED BY <2>2
<1>9. T \in [List -> Seq(Elem)] /\ T[l] = t /\ \A m \in List : m # l => T[m] = S[m]
  BY <1>1, <1>8 DEF PasteOf
<1>10. \A x, y \in 0..(Len(s) + 1) : At(l, s, x) = At(l, s, y) => x = y
  BY <1>1, AtOnce
<1>11. ASSUME NEW m \in List, NEW x \in 0..(Len(S[m]) + 1), NEW y \in 1..d PROVE At(m, S[m], x) # q[y]
  <2>1. S[m] \in Seq(Elem)
    BY <1>1
  <2>2. /\ Len(S[m]) \in Nat /\ DOMAIN S[m] = 1..Len(S[m]) /\ At(m, S[m], 0) = Head1(m) /\ At(m, S[m], Len(S[m]) + 1) = Tail1(m)
        /\ \A i \in 1..Len(S[m]) : At(m, S[m], i) = S[m][i]
    BY <2>1, AtIs
  <2>3. x = 0 \/ x \in 1..Len(S[m]) \/ x = Len(S[m]) + 1
    BY <2>2
  <2>4. \A i \in 1..Len(S[m]) : S[m][i] # q[y]
    BY <2>2 DEF Apart
  <2> QED BY <1>4, <2>2, <2>3, <2>4, NodesAre
<1>12. \A x, y \in 1..d : q[x] = q[y] => x = y
  BY DEF Apart
<1>13. \A m \in List : \A i \in DOMAIN S[m], x \in 1..d : S[m][i] # q[x]
  BY DEF Apart
<1>14. \A x \in 1..(d - 1) : h.next[q[x]] = q[x + 1] /\ h.prev[q[x + 1]] = q[x]
  BY DEF InRow
<1>15. first = q[1] /\ last = q[d]
  OBVIOUS
<1>16. \A x \in 0..(Len(s) + 1), y \in 1..d : At(l, s, x) # q[y]
  BY <1>11
<1> HIDE DEF s, first, last, before, a, g, T, t, d
<1>17. ASSUME NEW m \in List, m # l PROVE Chain(g, m, T[m])
  <2>1. ASSUME NEW x \in 0..(Len(S[m]) + 1)
        PROVE  At(m, S[m], x) \in Nodes /\ At(m, S[m], x) \notin {a, before, first, last}
    <3>1. \A y \in 0..(Len(S[l]) + 1) : At(m, S[m], x) # At(l, S[l], y)
      BY <1>1, <1>17, AtOnce
    <3>2. At(m, S[m], x) # a /\ At(m, S[m], x) # before
      BY <1>5, <3>1 DEF a, before, s
    <3>3. S[m] \in Seq(Elem)
      BY <1>1
    <3>4. At(m, S[m], x) \in Nodes
      BY <3>3, AtIs
    <3> QED BY <1>4, <1>11, <1>15, <3>2, <3>4
  <2>2. ASSUME NEW x \in 0..Len(S[m])
        PROVE  g.next[At(m, S[m], x)] = At(m, S[m], x + 1) /\ g.prev[At(m, S[m], x + 1)] = At(m, S[m], x)
    <3>1. Len(S[m]) \in Nat
      BY <1>1, AtIs
    <3>2. x \in 0..(Len(S[m]) + 1) /\ x + 1 \in 0..(Len(S[m]) + 1)
      BY <3>1
    <3> QED BY <1>1, <1>7, <2>1, <3>2
  <2> QED BY <1>9, <1>17, <2>2 DEF Chain
<1>18. Chain(g, l, t)
  <2> SUFFICES ASSUME NEW x \in 0..Len(t)
               PROVE  g.next[At(l, t, x)] = At(l, t, x + 1) /\ g.prev[At(l, t, x + 1)] = At(l, t, x)
    BY DEF Chain
  <2>1. x \in 0..(Len(t) + 1) /\ x + 1 \in 0..(Len(t) + 1) /\ x \in Nat
    BY <1>8
  <2>2. \A y \in 0..Len(s) : h.next[At(l, s, y)] = At(l, s, y + 1) /\ h.prev[At(l, s, y + 1)] = At(l, s, y)
    BY <1>1 DEF s
  \* Two places of s that stay neighbours.
  <2>3. ASSUME NEW y \in 0..Len(s), y # k - 1
        PROVE  g.next[At(l, s, y)] = At(l, s, y + 1) /\ g.prev[At(l, s, y + 1)] = At(l, s, y)
    <3>1. y \in 0..(Len(s) + 1) /\ y + 1 \in 0..(Len(s) + 1) /\ y + 1 # k
      BY <1>3, <1>5, <2>3
    <3>2. At(l, s, y) # a /\ At(l, s, y + 1) # before /\ At(l, s, y) \in Nodes /\ At(l, s, y + 1) \in Nodes
      BY <1>3, <1>5, <1>10, <2>3, <3>1 DEF a, before
    <3>3. At(l, s, y) # last /\ At(l, s, y + 1) # first
      BY <1>4, <1>15, <1>16, <3>1
    <3> QED BY <1>7, <2>2, <3>2, <3>3
  <2>4. CASE x < k - 1
    <3>1. x < k /\ x + 1 < k /\ x \in 0..Len(s) /\ x # k - 1
      BY <1>3, <1>5, <2>1, <2>4
    <3>2. At(l, t, x) = At(l, s, x) /\ At(l, t, x + 1) = At(l, s, x + 1)
      BY <1>8, <2>1, <3>1
    <3> QED BY <2>3, <3>1, <3>2
  <2>5. CASE x = k - 1
    <3>1. x < k /\ ~(x + 1 < k) /\ x + 1 < k + d /\ (x + 1) - k + 1 = 1
      BY <1>4, <1>5, <2>1, <2>5
    <3>2. At(l, t, x) = a /\ At(l, t, x + 1) = first
      BY <1>8, <1>15, <2>1, <2>5, <3>1 DEF a
    <3>3. first # before
      BY <1>4, <1>5, <1>15, <1>16 DEF before
    <3> QED BY <1>6, <1>7, <3>2, <3>3
  <2>6. CASE x >= k /\ x < k + d - 1
    <3> DEFINE y == x - k + 1
    <3>1. ~(x < k) /\ ~(x + 1 < k) /\ x < k + d /\ x + 1 < k + d /\ (x + 1) - k + 1 = y + 1
          /\ y \in 1..(d - 1) /\ y \in 1..d /\ y + 1 \in 1..d /\ y # d /\ y + 1 # 1
      BY <1>4, <1>5, <2>1, <2>6
    <3>2. At(l, t, x) = q[y] /\ At(l, t, x + 1) = q[y + 1]
      BY <1>8, <2>1, <3>1
    <3> HIDE DEF y
    <3>3. q[y] # last /\ q[y + 1] # first /\ q[y] # a /\ q[y + 1] # before /\ q[y] \in Nodes /\ q[y + 1] \in Nodes
      BY <1>4, <1>5, <1>12, <1>15, <1>16, <3>1 DEF a, before
    <3> QED BY <1>7, <1>14, <3>1, <3>2, <3>3
  <2>7. CASE x = k + d - 1
    <3>1. ~(x < k) /\ ~(x + 1 < k) /\ x < k + d /\ ~(x + 1 < k + d) /\ x - k + 1 = d /\ (x + 1) - d = k
      BY <1>4, <1>5, <2>1, <2>7
    <3>2. At(l, t, x) = last /\ At(l, t, x + 1) = before
      BY <1>8, <1>15, <2>1, <3>1 DEF before
    <3>3. last # a
      BY <1>4, <1>5, <1>15, <1>16 DEF a
    <3> QED BY <1>6, <1>7, <3>2, <3>3
  <2>8. CASE x >= k + d
    <3>1. ~(x < k) /\ ~(x + 1 < k) /\ ~(x < k + d) /\ ~(x + 1 < k + d) /\ (x + 1) - d = (x - d) + 1 /\ x - d \in 0..Len(s) /\ x - d # k - 1
      BY <1>3, <1>4, <1>5, <1>8, <2>1, <2>8
    <3>2. At(l, t, x) = At(l, s, x - d) /\ At(l, t, x + 1) = At(l, s, (x - d) + 1)
      BY <1>8, <2>1, <3>1
    <3> QED BY <2>3, <3>1, <3>2
  <2> QED BY <1>4, <1>5, <2>1, <2>4, <2>5, <2>6, <2>7, <2>8
<1>19. Once(T)
  \* Where an element of T comes from.
  <2> DEFINE Old(m, x) == IF m = l /\ x >= k THEN x - d ELSE x
             New(m, x) == m = l /\ x >= k /\ x < k + d
  <2>1. ASSUME NEW m \in List, NEW x \in DOMAIN T[m], ~New(m, x)
        PROVE  Old(m, x) \in DOMAIN S[m] /\ T[m][x] = S[m][Old(m, x)]
    <3>1. CASE m # l
      BY <1>9, <3>1
    <3>2. CASE m = l
      <4>1. x \in 1..Len(t)
        BY <1>8, <1>9, <3>2, AtIs
      <4>2. x < k \/ x >= k + d
        BY <1>4, <1>5, <2>1, <3>2, <4>1
      <4>3. CASE x < k
        <5>1. x \in 1..Len(s) /\ Old(m, x) = x
          BY <1>3, <1>5, <4>1, <4>3
        <5> QED BY <1>3, <1>8, <1>9, <3>2, <4>1, <4>3, <5>1 DEF s
      <4>4. CASE x >= k + d
        <5>1. x - d \in 1..Len(s) /\ Old(m, x) = x - d /\ ~(x < k) /\ ~(x < k + d)
          BY <1>3, <1>4, <1>5, <1>8, <3>2, <4>1, <4>4
        <5> QED BY <1>3, <1>8, <1>9, <3>2, <4>1, <5>1 DEF s
      <4> QED BY <4>2, <4>3, <4>4
    <3> QED BY <3>1, <3>2
  <2>2. ASSUME NEW m \in List, NEW x \in DOMAIN T[m], New(m, x)
        PROVE  m = l /\ x - k + 1 \in 1..d /\ T[m][x] = q[x - k + 1] /\ x \in Nat
    <3>1. x \in 1..Len(t) /\ m = l
      BY <1>8, <1>9, <2>2, AtIs
    <3>2. ~(x < k) /\ x < k + d /\ x - k + 1 \in 1..d /\ x \in Nat
      BY <1>4, <1>5, <2>2, <3>1
    <3> QED BY <1>8, <1>9, <3>1, <3>2
  <2>3. ASSUME NEW m \in List, NEW x \in DOMAIN T[m] PROVE x \in Nat
    <3>1. T[m] \in Seq(Elem)
      BY <1>9
    <3>2. DOMAIN T[m] = 1..Len(T[m]) /\ Len(T[m]) \in Nat
      BY <3>1, AtIs
    <3> QED BY <3>2
  <2> HIDE DEF Old, New
  <2>4. ASSUME NEW m \in List, NEW n \in List, NEW x \in DOMAIN T[m], NEW y \in DOMAIN T[n], T[m][x] = T[n][y]
        PROVE  m = n /\ x = y
    <3>1. CASE New(m, x) /\ New(n, y)
      <4>1. m = l /\ n = l /\ x - k + 1 = y - k + 1 /\ x \in Nat /\ y \in Nat
        BY <1>12, <2>2, <2>4, <3>1
      <4> QED BY <1>5, <4>1
    <3>2. CASE ~New(m, x) /\ New(n, y)
      BY <1>13, <2>1, <2>2, <2>4, <3>2
    <3>3. CASE New(m, x) /\ ~New(n, y)
      BY <1>13, <2>1, <2>2, <2>4, <3>3
    <3>4. CASE ~New(m, x) /\ ~New(n, y)
      <4>1. Old(m, x) \in DOMAIN S[m] /\ Old(n, y) \in DOMAIN S[n] /\ S[m][Old(m, x)] = S[n][Old(n, y)]
        BY <2>1, <2>4, <3>4
      <4>2. m = n /\ Old(m, x) = Old(n, y)
        BY <1>1, <4>1 DEF Once
      <4>3. x \in Nat /\ y \in Nat
        BY <2>3
      <4>4. CASE m # l
        BY <4>2, <4>4 DEF Old
      <4>5. CASE m = l
        <5>1. (IF x >= k THEN x - d ELSE x) = (IF y >= k THEN y - d ELSE y) /\ ~(x >= k /\ x < k + d) /\ ~(y >= k /\ y < k + d)
          BY <3>4, <4>2, <4>5 DEF Old, New
        <5> QED BY <1>4, <1>5, <4>2, <4>3, <5>1
      <4> QED BY <4>4, <4>5
    <3> QED BY <3>1, <3>2, <3>3, <3>4
  <2> QED BY <2>4 DEF Once
<1>20. Holds(g, T)
  <2>1. \A m \in List : Chain(g, m, T[m])
    BY <1>9, <1>17, <1>18
  <2> QED BY <1>7, <1>9, <1>19, <2>1 DEF Holds
<1> QED BY <1>20 DEF g, T, before, first, last, s, d

\* A list of s that ends at z.
Meets(s, z, i) == IF i \in 1..Len(s) THEN s[i] ELSE z

Walk(f, g, l) ==
    f = [i \in 0..Cardinality(Elem) |->
            IF i = 0 THEN g.next[Head1(l)] ELSE IF f[i - 1] \in Elem THEN g.next[f[i - 1]] ELSE f[i - 1]]

LEMMA ElemIsFinite == IsFiniteSet(Elem) /\ Cardinality(Elem) \in Nat
BY ListsAssumption, FS_CardinalityType

LEMMA NoMoreThanElem ==
    ASSUME NEW s \in Seq(Elem), \A i, j \in 1..Len(s) : s[i] = s[j] => i = j
    PROVE  Len(s) \in Nat /\ Len(s) <= Cardinality(Elem)
<1>1. Len(s) \in Nat /\ s \in [1..Len(s) -> Elem]
  BY LenProperties
<1>2. s \in Injection(1..Len(s), Elem)
  BY <1>1 DEF Injection, IsInjective
<1>3. Cardinality(1..Len(s)) <= Cardinality(Elem)
  BY <1>2, ElemIsFinite, FS_Injection
<1>4. Cardinality(1..Len(s)) = IF 1 > Len(s) THEN 0 ELSE Len(s) - 1 + 1
  BY <1>1, FS_Interval
<1> QED BY <1>1, <1>3, <1>4, ElemIsFinite

LEMMA WalkIs ==
    ASSUME NEW g, NEW l \in List, NEW s \in Seq(Elem), \A i, j \in 1..Len(s) : s[i] = s[j] => i = j,
           NEW z, z \notin Elem, g.next[Head1(l)] = Meets(s, z, 1),
           \A i \in 1..Len(s) : g.next[s[i]] = Meets(s, z, i + 1)
    PROVE  Visited(g, l) = s
<1> DEFINE N == Cardinality(Elem)
           at[i \in 0..N] == IF i = 0 THEN g.next[Head1(l)] ELSE IF at[i - 1] \in Elem THEN g.next[at[i - 1]] ELSE at[i - 1]
           met == {i \in 0..N : at[i] \in Elem}
           f == [i \in 0..N |-> Meets(s, z, i + 1)]
<1>1. Visited(g, l) = [i \in 1..Cardinality(met) |-> at[i - 1]]
  BY DEF Visited
<1>2. N \in Nat /\ Len(s) \in Nat /\ Len(s) <= N /\ \A i \in 1..Len(s) : s[i] \in Elem
  BY ElemIsFinite, NoMoreThanElem, ElementOfSeq
<1>3. at = CHOOSE h : Walk(h, g, l)
  BY DEF Walk
<1> HIDE DEF at, met, N
<1>4. \A i \in 0..N : f[i] = IF i = 0 THEN g.next[Head1(l)] ELSE IF f[i - 1] \in Elem THEN g.next[f[i - 1]] ELSE f[i - 1]
  <2> SUFFICES ASSUME NEW i \in 0..N, i # 0
               PROVE  f[i] = IF f[i - 1] \in Elem THEN g.next[f[i - 1]] ELSE f[i - 1]
    <3>1. f[0] = g.next[Head1(l)]
      <4>1. 0 \in 0..N /\ 0 + 1 = 1
        BY <1>2
      <4> QED BY <4>1
    <3> QED BY <3>1
  <2>1. i \in Nat /\ i \in 1..N /\ i - 1 \in 0..N /\ f[i] = Meets(s, z, i + 1) /\ f[i - 1] = Meets(s, z, i)
    BY <1>2
  <2>2. CASE i \in 1..Len(s)
    <3>1. f[i - 1] = s[i] /\ s[i] \in Elem
      BY <1>2, <2>1, <2>2 DEF Meets
    <3> QED BY <2>1, <2>2, <3>1
  <2>3. CASE i \notin 1..Len(s)
    <3>1. f[i - 1] = z
      BY <2>1, <2>3 DEF Meets
    <3>2. i + 1 \notin 1..Len(s)
      BY <1>2, <2>1, <2>3
    <3>3. f[i] = z
      BY <2>1, <3>2 DEF Meets
    <3> QED BY <3>1, <3>3
  <2> QED BY <2>2, <2>3
<1>5. f = [i \in 0..N |-> f[i]]
  OBVIOUS
<1>6. \A i \in 0..N : f[i] = Meets(s, z, i + 1)
  OBVIOUS
<1> HIDE DEF f
<1>7. Walk(f, g, l)
  BY <1>4, <1>5 DEF Walk, N
<1>8. Walk(at, g, l)
  BY <1>3, <1>7
<1>9. \A i \in 0..N : at[i] = IF i = 0 THEN g.next[Head1(l)] ELSE IF at[i - 1] \in Elem THEN g.next[at[i - 1]] ELSE at[i - 1]
  BY <1>8 DEF Walk, N
<1>10. \A i \in 0..N : at[i] = f[i]
  <2> DEFINE B == {i \in 0..N : at[i] # f[i]}
  <2>1. SUFFICES ASSUME B # {} PROVE FALSE
    OBVIOUS
  <2>2. B \in SUBSET Nat
    BY <1>2
  <2>3. PICK k \in B : \A j \in B : k <= j
    BY <2>1, <2>2, LeastIn
  <2>4. k \in 0..N /\ at[k] # f[k]
    BY <2>3
  <2>5. k # 0
    BY <1>4, <1>9, <2>4
  <2>6. k - 1 \in 0..N /\ ~(k <= k - 1)
    BY <1>2, <2>4, <2>5
  <2>7. at[k - 1] = f[k - 1]
    BY <2>3, <2>6
  <2> QED BY <1>4, <1>9, <2>4, <2>5, <2>7
<1>11. \A i \in 0..N : at[i] = Meets(s, z, i + 1)
  BY <1>6, <1>10
<1>12. met = 0..(Len(s) - 1)
  <2>1. ASSUME NEW i \in 0..N PROVE at[i] \in Elem <=> i \in 0..(Len(s) - 1)
    <3>1. i + 1 \in 1..Len(s) <=> i \in 0..(Len(s) - 1)
      BY <1>2
    <3>2. i + 1 \in 1..Len(s) => at[i] = s[i + 1] /\ s[i + 1] \in Elem
      BY <1>2, <1>11 DEF Meets
    <3>3. ~(i + 1 \in 1..Len(s)) => at[i] = z
      BY <1>11 DEF Meets
    <3> QED BY <3>1, <3>2, <3>3
  <2>2. 0..(Len(s) - 1) \subseteq 0..N
    BY <1>2
  <2> QED BY <2>1, <2>2 DEF met
<1>13. Cardinality(met) = Len(s)
  <2>1. Cardinality(0..(Len(s) - 1)) = IF 0 > Len(s) - 1 THEN 0 ELSE (Len(s) - 1) - 0 + 1
    <3>1. 0 \in Int /\ Len(s) - 1 \in Int
      BY <1>2
    <3> QED BY ONLY <3>1, FS_Interval
  <2> QED BY <1>2, <1>12, <2>1
<1>14. ASSUME NEW i \in 1..Len(s) PROVE at[i - 1] = s[i]
  <2>1. i - 1 \in 0..N /\ (i - 1) + 1 = i
    BY <1>2
  <2>2. at[i - 1] = Meets(s, z, i)
    BY <1>11, <2>1
  <2> QED BY <2>2 DEF Meets
<1>15. s = [i \in 1..Len(s) |-> s[i]]
  BY LenProperties
<1> QED BY <1>1, <1>13, <1>14, <1>15

LEMMA OnceIn ==
    ASSUME NEW S \in [List -> Seq(Elem)], Once(S), NEW l \in List
    PROVE  S[l] \in Seq(Elem) /\ \A i, j \in 1..Len(S[l]) : S[l][i] = S[l][j] => i = j
<1>1. S[l] \in Seq(Elem)
  OBVIOUS
<1>2. DOMAIN S[l] = 1..Len(S[l])
  BY <1>1, AtIs
<1> QED BY <1>1, <1>2 DEF Once

LEMMA VisitedIs ==
    ASSUME NEW h, NEW S, Holds(h, S), NEW l \in List
    PROVE  Visited(h, l) = S[l]
<1> DEFINE s == S[l]
           z == Tail1(l)
<1>1. s \in Seq(Elem) /\ \A i, j \in 1..Len(s) : s[i] = s[j] => i = j
  BY OnceIn DEF Holds
<1>2. \A i \in 0..Len(s) : h.next[At(l, s, i)] = At(l, s, i + 1)
  BY DEF Holds, Chain
<1> HIDE DEF s
<1>3. Len(s) \in Nat /\ z \notin Elem
  BY <1>1, LenProperties, NodesAre
<1>4. \A i \in 1..(Len(s) + 1) : At(l, s, i) = Meets(s, z, i)
  BY <1>3 DEF At, Meets
<1>5. h.next[Head1(l)] = Meets(s, z, 1)
  <2>1. h.next[At(l, s, 0)] = At(l, s, 0 + 1) /\ 1 \in 1..(Len(s) + 1)
    BY <1>2, <1>3
  <2> QED BY <1>4, <2>1 DEF At
<1>6. ASSUME NEW i \in 1..Len(s) PROVE h.next[s[i]] = Meets(s, z, i + 1)
  <2>1. i \in 0..Len(s) /\ i # 0 /\ i + 1 \in 1..(Len(s) + 1)
    BY <1>3
  <2>2. At(l, s, i) = s[i]
    BY <2>1 DEF At
  <2> QED BY <1>2, <1>4, <2>1, <2>2
<1>7. Visited(h, l) = s
  BY <1>1, <1>3, <1>5, <1>6, WalkIs
<1> QED BY <1>7 DEF s

LEMMA ReverseIs ==
    ASSUME NEW s \in Seq(Elem)
    PROVE  /\ Reverse(s) \in Seq(Elem) /\ Len(Reverse(s)) = Len(s) /\ Len(s) \in Nat
           /\ \A i \in 1..Len(s) : Reverse(s)[i] = s[Len(s) - i + 1] /\ Len(s) - i + 1 \in 1..Len(s)
<1>1. Len(s) \in Nat /\ \A i \in 1..Len(s) : s[i] \in Elem
  BY LenProperties, ElementOfSeq
<1>2. Reverse(s) = [i \in 1..Len(s) |-> s[Len(s) - i + 1]]
  BY DEF Reverse
<1>3. ASSUME NEW i \in 1..Len(s) PROVE Reverse(s)[i] = s[Len(s) - i + 1] /\ Len(s) - i + 1 \in 1..Len(s)
  BY <1>1, <1>2
<1>4. Reverse(s) \in [1..Len(s) -> Elem]
  BY <1>1, <1>2, <1>3
<1> QED BY <1>1, <1>3, <1>4

LEMMA BackwardIs ==
    ASSUME NEW h, NEW S, Holds(h, S), NEW l \in List
    PROVE  Backward(h, l) = Reverse(S[l])
<1> DEFINE s == S[l]
           t == Reverse(s)
           z == Head1(l)
           g == [next |-> [h.prev EXCEPT ![Head1(l)] = h.prev[Tail1(l)]], prev |-> h.next]
           n == Len(s)
<1>1. s \in Seq(Elem) /\ \A i, j \in 1..Len(s) : s[i] = s[j] => i = j
  BY OnceIn DEF Holds
<1>2. \A i \in 0..n : h.prev[At(l, s, i + 1)] = At(l, s, i)
  BY DEF Holds, Chain
<1>3. h.prev \in [Nodes -> Nodes \cup {Null}]
  BY DEF Holds, Heaps
<1>4. g.next = [h.prev EXCEPT ![Head1(l)] = h.prev[Tail1(l)]]
  OBVIOUS
<1>5. Backward(h, l) = Visited(g, l)
  BY DEF Backward
<1> HIDE DEF s, g
<1>6. /\ n \in Nat /\ z \notin Elem /\ z \in Nodes /\ Elem \subseteq Nodes /\ z # Tail1(l)
      /\ At(l, s, 0) = z /\ At(l, s, n + 1) = Tail1(l) /\ \A i \in 1..n : At(l, s, i) = s[i] /\ s[i] \in Elem
  BY <1>1, AtIs, NodesAre
<1>7. t \in Seq(Elem) /\ Len(t) = n /\ \A i \in 1..n : t[i] = s[n - i + 1] /\ n - i + 1 \in 1..n
  BY <1>1, ReverseIs
<1> HIDE DEF t, z, n
<1>8. \A i, j \in 1..Len(t) : t[i] = t[j] => i = j
  <2> SUFFICES ASSUME NEW i \in 1..n, NEW j \in 1..n, t[i] = t[j] PROVE i = j
    BY <1>7
  <2>1. s[n - i + 1] = s[n - j + 1] /\ n - i + 1 \in 1..n /\ n - j + 1 \in 1..n
    BY <1>7
  <2>2. n - i + 1 = n - j + 1
    BY <1>1, <2>1 DEF n
  <2> QED BY <1>6, <2>2
<1>9. \A i \in 1..(n + 1) : Meets(t, z, i) = At(l, s, n - i + 1)
  <2> SUFFICES ASSUME NEW i \in 1..(n + 1) PROVE Meets(t, z, i) = At(l, s, n - i + 1)
    OBVIOUS
  <2>1. CASE i = n + 1
    <3>1. n - i + 1 = 0 /\ i \notin 1..n
      BY <1>6, <2>1
    <3> QED BY <1>6, <1>7, <3>1 DEF Meets
  <2>2. CASE i # n + 1
    <3>1. i \in 1..n
      BY <1>6, <2>2
    <3> QED BY <1>6, <1>7, <3>1 DEF Meets
  <2> QED BY <2>1, <2>2
<1>10. g.next[Head1(l)] = Meets(t, z, 1)
  <2>1. g.next[Head1(l)] = h.prev[Tail1(l)]
    BY <1>3, <1>4, <1>6 DEF z
  <2>2. h.prev[Tail1(l)] = At(l, s, n)
    BY <1>2, <1>6
  <2>3. Meets(t, z, 1) = At(l, s, n - 1 + 1) /\ n - 1 + 1 = n
    BY <1>6, <1>9
  <2> QED BY <2>1, <2>2, <2>3
<1>11. ASSUME NEW i \in 1..Len(t) PROVE g.next[t[i]] = Meets(t, z, i + 1)
  <2>1. i \in 1..n /\ i + 1 \in 1..(n + 1) /\ n - i \in 0..n /\ n - (i + 1) + 1 = n - i /\ n - i + 1 = (n - i) + 1 /\ n - i + 1 \in 1..n
    BY <1>6, <1>7
  <2>2. t[i] = At(l, s, (n - i) + 1) /\ t[i] \in Elem /\ t[i] # z
    BY <1>6, <1>7, <2>1
  <2>3. g.next[t[i]] = h.prev[t[i]]
    BY <1>3, <1>4, <1>6, <2>2 DEF z
  <2>4. h.prev[t[i]] = At(l, s, n - i)
    BY <1>2, <2>1, <2>2
  <2>5. Meets(t, z, i + 1) = At(l, s, n - i)
    BY <1>9, <2>1
  <2> QED BY <2>3, <2>4, <2>5
<1>12. Visited(g, l) = t
  <2>1. /\ l \in List /\ t \in Seq(Elem) /\ (\A i, j \in 1..Len(t) : t[i] = t[j] => i = j) /\ z \notin Elem
        /\ g.next[Head1(l)] = Meets(t, z, 1) /\ \A i \in 1..Len(t) : g.next[t[i]] = Meets(t, z, i + 1)
    BY <1>6, <1>7, <1>8, <1>10, <1>11
  <2> QED BY ONLY <2>1, WalkIs
<1> QED BY <1>5, <1>12 DEF t, s

LEMMA HoldsGives ==
    ASSUME NEW h, NEW S, Holds(h, S)
    PROVE  Seqs(h) = S /\ Linked(h) /\ Gives(h, S)
<1>1. S = [l \in List |-> S[l]]
  BY DEF Holds
<1>2. Seqs(h) = S
  BY <1>1, VisitedIs DEF Seqs
<1>3. Linked(h)
  BY VisitedIs, BackwardIs DEF Linked
<1> QED BY <1>2, <1>3 DEF Gives

LEMMA InsertKeeps ==
    ASSUME NEW h, NEW S, Holds(h, S), NEW l \in List, NEW k \in 1..(Len(S[l]) + 1),
           NEW e \in Elem, \A m \in List : \A i \in DOMAIN S[m] : S[m][i] # e
    PROVE  Holds(insert(h, At(l, S[l], k), e), PasteOf(S, l, k, <<e>>))
<1> DEFINE q == <<e>>
<1>1. q \in Seq(Elem) /\ Len(q) = 1 /\ q[1] = e
  OBVIOUS
<1> HIDE DEF q
<1>2. Apart(S, q)
  BY <1>1 DEF Apart
<1>3. InRow(h, q)
  BY <1>1 DEF InRow
<1>4. Holds(Paste(h, At(l, S[l], k), q[1], q[Len(q)]), PasteOf(S, l, k, q))
  <2>1. /\ Holds(h, S) /\ l \in List /\ k \in 1..(Len(S[l]) + 1) /\ q \in Seq(Elem) /\ Len(q) > 0
        /\ InRow(h, q) /\ Apart(S, q)
    BY <1>1, <1>2, <1>3
  <2> QED BY ONLY <2>1, PasteKeeps
<1>5. Paste(h, At(l, S[l], k), e, e) = insert(h, At(l, S[l], k), e)
  BY DEF Paste, insert
<1> QED BY <1>1, <1>4, <1>5 DEF q

LEMMA RemoveKeeps ==
    ASSUME NEW h, NEW S, Holds(h, S), NEW m \in List, NEW i \in 1..Len(S[m])
    PROVE  /\ Holds(remove(h, S[m][i]), CutOf(S, m, i, i + 1))
           /\ \A l \in List : \A x \in DOMAIN CutOf(S, m, i, i + 1)[l] : CutOf(S, m, i, i + 1)[l][x] # S[m][i]
<1> DEFINE s == S[m]
           e == s[i]
           end == At(m, s, i + 1)
           q == Part(s, i, i + 1)
           T == CutOf(S, m, i, i + 1)
<1>1. s \in Seq(Elem) /\ \A x \in 0..Len(s) : h.next[At(m, s, x)] = At(m, s, x + 1)
  BY DEF Holds, Chain
<1>2. Len(s) \in Nat /\ At(m, s, i) = e
  BY <1>1, AtIs
<1>3. i \in 0..Len(s) /\ i \in 1..(Len(s) + 1) /\ i + 1 \in i..(Len(s) + 1) /\ i < i + 1 /\ (i + 1) - i = 1
  <2>1. Len(s) \in Nat /\ i \in 1..Len(s)
    BY <1>2
  <2> HIDE DEF s
  <2> QED BY ONLY <2>1
<1>4. h.next[e] = end
  BY <1>1, <1>2, <1>3
<1>5. /\ Holds(Cut(h, At(m, s, i), At(m, s, i + 1)), T) /\ Apart(T, q) /\ Len(q) = (i + 1) - i /\ At(m, s, i) = q[1]
  <2>1. /\ Holds(h, S) /\ m \in List /\ i \in 1..(Len(S[m]) + 1)
        /\ i + 1 \in i..(Len(S[m]) + 1) /\ i < i + 1
    BY <1>3
  <2> DEFINE j == i + 1
  <2>2. j \in i..(Len(S[m]) + 1) /\ i < j
    BY <2>1
  <2> HIDE DEF j
  <2>3. /\ Holds(Cut(h, At(m, S[m], i), At(m, S[m], j)), CutOf(S, m, i, j)) /\ Apart(CutOf(S, m, i, j), Part(S[m], i, j))
        /\ Len(Part(S[m], i, j)) = j - i /\ At(m, S[m], i) = Part(S[m], i, j)[1]
    BY ONLY <2>1, <2>2, CutKeeps
  <2> QED BY <2>3 DEF j
<1>6. Cut(h, e, end) = remove(h, e)
  BY <1>4 DEF Cut, remove
<1>7. 1 \in 1..Len(q) /\ q[1] = e
  BY <1>2, <1>3, <1>5
<1> HIDE DEF q
<1>8. \A l \in List : \A x \in DOMAIN T[l] : T[l][x] # e
  BY <1>5, <1>7 DEF Apart
<1> QED BY <1>2, <1>5, <1>6, <1>8

\* Where a place of l is when part i..j - 1 of m is out.
Moved(l, m, i, j, k) == IF l = m /\ k >= j THEN k - (j - i) ELSE k

LEMMA SpliceKeeps ==
    ASSUME NEW h, NEW S, Holds(h, S), NEW l \in List, NEW m \in List, NEW k \in 1..(Len(S[l]) + 1),
           NEW i \in 1..(Len(S[m]) + 1), NEW j \in i..(Len(S[m]) + 1), i < j, l = m => k \notin i..(j - 1)
    PROVE  LET T == CutOf(S, m, i, j) IN
           /\ Moved(l, m, i, j, k) \in 1..(Len(T[l]) + 1)
           /\ Holds(splice(h, At(l, S[l], k), At(m, S[m], i), At(m, S[m], j)),
                    PasteOf(T, l, Moved(l, m, i, j, k), Part(S[m], i, j)))
<1> DEFINE first == At(m, S[m], i)
           end == At(m, S[m], j)
           before == At(l, S[l], k)
           T == CutOf(S, m, i, j)
           q == Part(S[m], i, j)
           at == Moved(l, m, i, j, k)
           g == Cut(h, first, end)
<1>1. S \in [List -> Seq(Elem)] /\ Once(S)
  BY DEF Holds
<1>2. S[m] \in Seq(Elem) /\ S[l] \in Seq(Elem)
  BY <1>1
<1>3. Len(S[m]) \in Nat /\ Len(S[l]) \in Nat /\ i \in Nat /\ j \in Nat /\ k \in Nat /\ 1 <= i /\ j <= Len(S[m]) + 1 /\ 1 <= k /\ k <= Len(S[l]) + 1
  BY <1>2, AtIs
<1>4. /\ Holds(g, T) /\ InRow(g, q) /\ Apart(T, q) /\ q \in Seq(Elem) /\ Len(q) = j - i
      /\ first = q[1] /\ h.prev[end] = q[Len(q)]
  BY CutKeeps
<1>5. Len(q) > 0
  BY <1>3, <1>4
<1>6. /\ Without(S[m], i, j) \in Seq(Elem) /\ Len(Without(S[m], i, j)) = Len(S[m]) - (j - i)
      /\ \A x \in 0..(Len(Without(S[m], i, j)) + 1) :
            At(m, Without(S[m], i, j), x) = IF x < i THEN At(m, S[m], x) ELSE At(m, S[m], x + (j - i))
  <2>1. m \in List /\ S[m] \in Seq(Elem) /\ i \in 1..(Len(S[m]) + 1) /\ j \in i..(Len(S[m]) + 1)
    BY <1>2
  <2> DEFINE s == S[m]
  <2>2. m \in List /\ s \in Seq(Elem) /\ i \in 1..(Len(s) + 1) /\ j \in i..(Len(s) + 1)
    BY <2>1
  <2> HIDE DEF s
  <2>3. /\ Without(s, i, j) \in Seq(Elem) /\ Len(Without(s, i, j)) = Len(s) - (j - i)
        /\ \A x \in 0..(Len(Without(s, i, j)) + 1) :
              At(m, Without(s, i, j), x) = IF x < i THEN At(m, s, x) ELSE At(m, s, x + (j - i))
    BY ONLY <2>2, WithoutIs
  <2> QED BY <2>3 DEF s
<1>7. T[m] = Without(S[m], i, j) /\ \A n \in List : n # m => T[n] = S[n]
  BY <1>1 DEF CutOf
<1> HIDE DEF T, q
<1>8. at \in 1..(Len(T[l]) + 1) /\ At(l, T[l], at) = before
  <2>1. CASE l # m
    <3>1. at = k /\ T[l] = S[l]
      BY <1>7, <2>1 DEF Moved
    <3> QED BY <3>1
  <2>2. CASE l = m /\ k >= j
    <3>1. at = k - (j - i)
      BY <2>2 DEF Moved
    <3>2. at \in 1..(Len(S[m]) - (j - i) + 1) /\ at \in 0..(Len(S[m]) - (j - i) + 1) /\ ~(at < i) /\ at + (j - i) = k
      BY <1>3, <2>2, <3>1
    <3> HIDE DEF at
    <3> QED BY <1>6, <1>7, <2>2, <3>2
  <2>3. CASE l = m /\ k < i
    <3>1. at = k
      BY <1>3, <2>3 DEF Moved
    <3>2. at \in 1..(Len(S[m]) - (j - i) + 1) /\ at \in 0..(Len(S[m]) - (j - i) + 1) /\ at < i
      BY <1>3, <2>3, <3>1
    <3> HIDE DEF at
    <3> QED BY <1>6, <1>7, <2>3, <3>1, <3>2
  <2> QED BY <1>3, <2>1, <2>2, <2>3
<1> HIDE DEF at
<1>9. Holds(Paste(g, before, q[1], q[Len(q)]), PasteOf(T, l, at, q))
  BY <1>4, <1>5, <1>8, PasteKeeps
<1>10. first # end
  <2>1. i \in 0..(Len(S[m]) + 1) /\ j \in 0..(Len(S[m]) + 1) /\ i # j
    BY <1>3
  <2> QED BY <1>1, <2>1, AtOnce
<1>11. splice(h, before, first, end) = Paste(g, before, first, h.prev[end])
  BY <1>10 DEF splice, Paste, Cut
<1> QED BY <1>4, <1>8, <1>9, <1>11 DEF T, q, at

LEMMA ReverseKeeps ==
    ASSUME NEW h, NEW S, Holds(h, S), NEW l \in List
    PROVE  Holds(reverse(h, l), [S EXCEPT ![l] = Reverse(@)])
<1> DEFINE s == S[l]
           t == Reverse(s)
           n == Len(s)
           T == [S EXCEPT ![l] = Reverse(@)]
           g == reverse(h, l)
           head == Head1(l)
           tail == Tail1(l)
<1>1. /\ h \in Heaps /\ S \in [List -> Seq(Elem)] /\ Once(S)
      /\ \A m \in List : \A x \in 0..Len(S[m]) :
            h.next[At(m, S[m], x)] = At(m, S[m], x + 1) /\ h.prev[At(m, S[m], x + 1)] = At(m, S[m], x)
  BY DEF Holds, Chain
<1>2. s \in Seq(Elem) /\ \A i, j \in 1..n : s[i] = s[j] => i = j
  BY <1>1, OnceIn
<1>3. /\ n \in Nat /\ DOMAIN s = 1..n
      /\ At(l, s, 0) = head /\ At(l, s, n + 1) = tail
      /\ \A x \in 1..n : At(l, s, x) = s[x] /\ s[x] \in Elem /\ s[x] \in Nodes
      /\ \A x \in 0..(n + 1) : At(l, s, x) \in Nodes
  BY <1>2, AtIs
<1>4. /\ head \in Nodes /\ tail \in Nodes /\ head \notin Elem /\ tail \notin Elem /\ head # tail /\ Null \notin Elem
  BY NodesAre
<1>5. Visited(h, l) = s
  BY VisitedIs
<1>6. t \in Seq(Elem) /\ Len(t) = n /\ \A i \in 1..n : t[i] = s[n - i + 1] /\ n - i + 1 \in 1..n
  BY <1>2, ReverseIs
<1>7. T \in [List -> Seq(Elem)] /\ T[l] = t /\ \A m \in List : m # l => T[m] = S[m]
  BY <1>1, <1>6
<1>8. \A x \in 0..n : h.next[At(l, s, x)] = At(l, s, x + 1) /\ h.prev[At(l, s, x + 1)] = At(l, s, x)
  BY <1>1
<1>9. CASE n = 0
  <2>1. ToSet(s) = {}
    BY <1>3, <1>9 DEF ToSet
  <2>2. g = h
    BY <1>5, <2>1 DEF reverse
  <2>3. s = <<>> /\ t = <<>>
    BY <1>2, <1>6, <1>9, EmptySeq
  <2>4. T = S
    BY <1>1, <1>7, <2>3
  <2> QED BY <2>2, <2>4
<1>10. CASE n # 0
  <2> DEFINE first == s[1]
             last == s[n]
             swapped == ToSet(s)
             turned == [next |-> [x \in Nodes |-> IF x \in swapped THEN h.prev[x] ELSE h.next[x]],
                        prev |-> [x \in Nodes |-> IF x \in swapped THEN h.next[x] ELSE h.prev[x]]]
  <2>1. 1 \in 1..n /\ n \in 1..n /\ 0 \in 0..n /\ n \in 0..n /\ n > 0 /\ 0 + 1 = 1
    BY <1>3, <1>10
  <2>2. h.next[head] = first /\ h.prev[tail] = last /\ h.prev[first] = head /\ h.next[last] = tail
    <3>1. At(l, s, 0 + 1) = first /\ At(l, s, n) = last
      BY <1>3, <2>1
    <3> QED BY <1>3, <1>8, <2>1, <3>1
  <2>3. swapped # {} /\ (\A x \in 1..n : s[x] \in swapped) /\ head \notin swapped /\ tail \notin swapped /\ \A x \in swapped : x \in Elem /\ \E i \in 1..n : x = s[i]
    BY <1>3, <1>4, <2>1 DEF ToSet
  <2>4. g = [next |-> [turned.next EXCEPT ![head] = last, ![first] = turned.prev[last]],
             prev |-> [turned.prev EXCEPT ![tail] = first, ![last] = turned.next[first]]]
    BY <1>5, <2>2, <2>3 DEF reverse
  <2> HIDE DEF s, n, head, tail, swapped, T, t, g
  <2>5. turned.prev[last] = tail /\ turned.next[first] = head
    BY <1>3, <2>1, <2>2, <2>3
  <2>6. turned.next \in [Nodes -> Nodes \cup {Null}] /\ turned.prev \in [Nodes -> Nodes \cup {Null}]
    BY <1>1 DEF Heaps
  <2>7. /\ \A x \in Nodes : turned.next[x] = IF x \in swapped THEN h.prev[x] ELSE h.next[x]
        /\ \A x \in Nodes : turned.prev[x] = IF x \in swapped THEN h.next[x] ELSE h.prev[x]
    OBVIOUS
  <2> HIDE DEF turned
  <2>8. g \in Heaps
    BY <1>3, <1>4, <2>1, <2>4, <2>5, <2>6 DEF Heaps
  <2>9. /\ \A x \in Nodes : g.next[x] = IF x = first THEN tail ELSE IF x = head THEN last ELSE turned.next[x]
        /\ \A x \in Nodes : g.prev[x] = IF x = last THEN head ELSE IF x = tail THEN first ELSE turned.prev[x]
    BY <1>3, <1>4, <2>1, <2>4, <2>5, <2>6
  <2>10. ASSUME NEW m \in List, m # l PROVE Chain(g, m, T[m])
    <3>1. ASSUME NEW x \in 0..(Len(S[m]) + 1)
          PROVE  At(m, S[m], x) \in Nodes /\ At(m, S[m], x) \notin swapped \cup {head, tail, first, last}
      <4>1. \A y \in 0..(Len(S[l]) + 1) : At(m, S[m], x) # At(l, S[l], y)
        BY <1>1, <2>10, AtOnce
      <4>2. \A y \in 0..(n + 1) : At(m, S[m], x) # At(l, s, y)
        BY <4>1 DEF s, n
      <4>3. At(m, S[m], x) # head /\ At(m, S[m], x) # tail /\ \A y \in 1..n : At(m, S[m], x) # s[y]
        <5>1. 0 \in 0..(n + 1) /\ n + 1 \in 0..(n + 1) /\ \A y \in 1..n : y \in 0..(n + 1)
          BY <1>3
        <5> QED BY <1>3, <4>2, <5>1
      <4>4. S[m] \in Seq(Elem)
        BY <1>1
      <4>5. At(m, S[m], x) \in Nodes
        BY <4>4, AtIs
      <4> QED BY <2>1, <2>3, <4>3, <4>5
    <3>2. ASSUME NEW x \in 0..Len(S[m])
          PROVE  g.next[At(m, S[m], x)] = At(m, S[m], x + 1) /\ g.prev[At(m, S[m], x + 1)] = At(m, S[m], x)
      <4>1. Len(S[m]) \in Nat
        BY <1>1, AtIs
      <4>2. x \in 0..(Len(S[m]) + 1) /\ x + 1 \in 0..(Len(S[m]) + 1)
        BY <4>1
      <4>3. At(m, S[m], x) \in Nodes /\ At(m, S[m], x) \notin swapped \cup {head, tail, first, last}
        BY <3>1, <4>2
      <4>4. At(m, S[m], x + 1) \in Nodes /\ At(m, S[m], x + 1) \notin swapped \cup {head, tail, first, last}
        BY <3>1, <4>2
      <4> QED BY <1>1, <2>7, <2>9, <4>3, <4>4
    <3> QED BY <1>7, <2>10, <3>2 DEF Chain
  <2>11. Chain(g, l, t)
    <3> SUFFICES ASSUME NEW x \in 0..n
                 PROVE  g.next[At(l, t, x)] = At(l, t, x + 1) /\ g.prev[At(l, t, x + 1)] = At(l, t, x)
      BY <1>6 DEF Chain
    <3>1. At(l, t, 0) = head /\ At(l, t, n + 1) = tail /\ \A i \in 1..n : At(l, t, i) = s[n - i + 1] /\ n - i + 1 \in 1..n
      <4>1. At(l, t, 0) = Head1(l) /\ At(l, t, Len(t) + 1) = Tail1(l) /\ \A i \in 1..Len(t) : At(l, t, i) = t[i]
        BY <1>6, AtIs
      <4> QED BY <1>6, <4>1 DEF head, tail
    <3>2. g.next[head] = last /\ g.next[first] = tail /\ g.prev[tail] = first /\ g.prev[last] = head
      BY <1>3, <1>4, <2>1, <2>9
    \* The nodes of the list from the far end.
    <3>3. CASE x = 0 /\ x = n
      BY <1>10, <3>3
    <3>4. CASE x = 0 /\ x # n
      <4>1. x + 1 \in 1..n /\ n - (x + 1) + 1 = n
        BY <1>3, <3>4
      <4>2. At(l, t, x + 1) = last /\ At(l, t, x) = head
        BY <3>1, <3>4, <4>1
      <4> QED BY <3>2, <4>2
    <3>5. CASE x # 0 /\ x = n
      <4>1. x \in 1..n /\ n - x + 1 = 1
        BY <1>3, <3>5
      <4>2. At(l, t, x) = first /\ At(l, t, x + 1) = tail
        BY <3>1, <3>5, <4>1
      <4> QED BY <3>2, <4>2
    <3>6. CASE x # 0 /\ x # n
      <4> DEFINE y == n - x
      <4>1. x \in 1..n /\ x + 1 \in 1..n /\ n - x + 1 = y + 1 /\ n - (x + 1) + 1 = y /\ y \in 1..n /\ y + 1 \in 1..n /\ y \in 0..n /\ y # n /\ y + 1 # 1
        BY <1>3, <3>6
      <4> HIDE DEF y
      <4>2. At(l, t, x) = s[y + 1] /\ At(l, t, x + 1) = s[y]
        BY <3>1, <4>1
      <4>3. h.next[s[y]] = s[y + 1] /\ h.prev[s[y + 1]] = s[y]
        BY <1>3, <1>8, <4>1
      <4>4. s[y] # last /\ s[y + 1] # first
        BY <1>2, <2>1, <4>1
      <4>5. /\ s[y] \in Nodes /\ s[y + 1] \in Nodes /\ s[y] \in swapped /\ s[y + 1] \in swapped
            /\ s[y + 1] # head /\ s[y] # tail
        BY <1>3, <1>4, <2>3, <4>1
      <4> QED BY <2>7, <2>9, <4>2, <4>3, <4>4, <4>5
    <3> QED BY <3>3, <3>4, <3>5, <3>6
  <2>12. Once(T)
    <3> DEFINE Old(m, x) == IF m = l THEN n - x + 1 ELSE x
    <3>1. ASSUME NEW m \in List, NEW x \in DOMAIN T[m]
          PROVE  Old(m, x) \in DOMAIN S[m] /\ T[m][x] = S[m][Old(m, x)] /\ (m = l => x \in 1..n)
      <4>1. CASE m # l
        BY <1>7, <4>1
      <4>2. CASE m = l
        <5>1. x \in 1..n
          BY <1>6, <1>7, <4>2, AtIs
        <5> QED BY <1>3, <1>6, <1>7, <4>2, <5>1 DEF s
      <4> QED BY <4>1, <4>2
    <3> HIDE DEF Old
    <3>2. ASSUME NEW m \in List, NEW k \in List, NEW x \in DOMAIN T[m], NEW y \in DOMAIN T[k], T[m][x] = T[k][y]
          PROVE  m = k /\ x = y
      <4>1. Old(m, x) \in DOMAIN S[m] /\ Old(k, y) \in DOMAIN S[k] /\ S[m][Old(m, x)] = S[k][Old(k, y)]
        BY <3>1, <3>2
      <4>2. m = k /\ Old(m, x) = Old(k, y)
        BY <1>1, <4>1 DEF Once
      <4>3. CASE m # l
        BY <4>2, <4>3 DEF Old
      <4>4. CASE m = l
        <5>1. x \in 1..n /\ y \in 1..n /\ n - x + 1 = n - y + 1
          BY <3>1, <4>2, <4>4 DEF Old
        <5> QED BY <1>3, <4>2, <5>1
      <4> QED BY <4>3, <4>4
    <3> QED BY <3>2 DEF Once
  <2>13. \A m \in List : Chain(g, m, T[m])
    BY <1>7, <2>10, <2>11
  <2>14. Holds(g, T)
    BY <1>7, <2>8, <2>12, <2>13 DEF Holds
  <2> QED BY <2>14 DEF g, T
<1> QED BY <1>9, <1>10

LEMMA SameSequence ==
    ASSUME NEW s \in Seq(Elem), NEW t \in Seq(Elem), Len(s) = Len(t), \A x \in 1..Len(s) : s[x] = t[x]
    PROVE  s = t
BY LenProperties

LEMMA CutOut ==
    ASSUME NEW s \in Seq(Elem), NEW i \in 1..(Len(s) + 1), NEW j \in (i - 1)..Len(s)
    PROVE  /\ SubSeq(s, i, j) \in Seq(Elem) /\ Len(SubSeq(s, i, j)) = j - i + 1
           /\ \A x \in 1..(j - i + 1) : SubSeq(s, i, j)[x] = s[i + x - 1]
<1>1. Len(s) \in Nat /\ i \in Nat /\ j \in Int /\ 1 <= i /\ i - 1 <= j /\ j <= Len(s) /\ \A x \in 1..Len(s) : s[x] \in Elem
  BY LenProperties, ElementOfSeq
<1> DEFINE n == j - i + 1
<1>2. n \in Nat
  BY <1>1
<1>3. \A x \in 1..n : i + x - 1 \in 1..Len(s)
  BY <1>1
<1>4. SubSeq(s, i, j) = [x \in 1..n |-> s[i + x - 1]]
  OBVIOUS
<1> HIDE DEF n
<1>5. SubSeq(s, i, j) \in [1..n -> Elem]
  BY <1>1, <1>3, <1>4
<1>6. SubSeq(s, i, j) \in Seq(Elem) /\ Len(SubSeq(s, i, j)) = n
  BY <1>2, <1>5
<1>7. \A x \in 1..n : SubSeq(s, i, j)[x] = s[i + x - 1]
  BY <1>4
<1> QED BY <1>6, <1>7 DEF n

LEMMA PartForm ==
    ASSUME NEW s \in Seq(Elem), NEW i \in 1..(Len(s) + 1), NEW j \in i..(Len(s) + 1)
    PROVE  Part(s, i, j) = SubSeq(s, i, j - 1)
<1>1. Len(s) \in Nat /\ i \in Nat /\ j \in Nat /\ i <= j /\ j <= Len(s) + 1
  BY LenProperties
<1>2. j - 1 \in (i - 1)..Len(s) /\ (j - 1) - i + 1 = j - i
  BY <1>1
<1>3. /\ SubSeq(s, i, j - 1) \in Seq(Elem) /\ Len(SubSeq(s, i, j - 1)) = j - i
      /\ \A x \in 1..(j - i) : SubSeq(s, i, j - 1)[x] = s[i + x - 1]
  BY <1>2, CutOut
<1>4. Part(s, i, j) \in Seq(Elem) /\ Len(Part(s, i, j)) = j - i /\ \A x \in 1..(j - i) : Part(s, i, j)[x] = s[i + x - 1]
  BY PartIs
<1> QED BY <1>3, <1>4, SameSequence

LEMMA WithoutForm ==
    ASSUME NEW s \in Seq(Elem), NEW i \in 1..(Len(s) + 1), NEW j \in i..(Len(s) + 1), List # {}
    PROVE  Without(s, i, j) = SubSeq(s, 1, i - 1) \o SubSeq(s, j, Len(s))
<1> DEFINE a == SubSeq(s, 1, i - 1)
           c == SubSeq(s, j, Len(s))
           t == Without(s, i, j)
<1>0. PICK l \in List : TRUE
  OBVIOUS
<1>1. Len(s) \in Nat /\ i \in Nat /\ j \in Nat /\ 1 <= i /\ i <= j /\ j <= Len(s) + 1
  BY LenProperties
<1>2. a \in Seq(Elem) /\ Len(a) = i - 1 /\ \A x \in 1..(i - 1) : a[x] = s[x]
  <2>1. 1 \in 1..(Len(s) + 1) /\ i - 1 \in (1 - 1)..Len(s) /\ (i - 1) - 1 + 1 = i - 1
    BY <1>1
  <2>2. a \in Seq(Elem) /\ Len(a) = i - 1 /\ \A x \in 1..(i - 1) : a[x] = s[1 + x - 1]
    BY <2>1, CutOut
  <2>3. \A x \in 1..(i - 1) : 1 + x - 1 = x
    BY <1>1
  <2> QED BY <2>2, <2>3
<1>3. c \in Seq(Elem) /\ Len(c) = Len(s) - j + 1 /\ \A x \in 1..(Len(s) - j + 1) : c[x] = s[j + x - 1]
  <2>1. j \in 1..(Len(s) + 1) /\ Len(s) \in (j - 1)..Len(s)
    BY <1>1
  <2> QED BY <2>1, CutOut
<1>4. t \in Seq(Elem) /\ Len(t) = Len(s) - (j - i) /\ \A x \in 1..Len(t) : t[x] = IF x < i THEN s[x] ELSE s[x + (j - i)]
  BY <1>0, WithoutIs
<1> HIDE DEF a, c, t
<1>5. /\ a \o c \in Seq(Elem) /\ Len(a \o c) = Len(a) + Len(c)
      /\ \A x \in 1..(Len(a) + Len(c)) : (a \o c)[x] = IF x <= Len(a) THEN a[x] ELSE c[x - Len(a)]
  BY <1>2, <1>3, ConcatProperties
<1>6. Len(a \o c) = Len(t) /\ Len(t) \in Nat
  BY <1>1, <1>2, <1>3, <1>4, <1>5
<1>7. ASSUME NEW x \in 1..Len(t) PROVE t[x] = (a \o c)[x]
  <2>1. x \in Nat /\ x \in 1..(Len(a) + Len(c)) /\ 1 <= x /\ x <= Len(s) - (j - i)
    BY <1>4, <1>5, <1>6
  <2>2. CASE x < i
    <3>1. x <= Len(a) /\ x \in 1..(i - 1)
      BY <1>1, <1>2, <2>1, <2>2
    <3> QED BY <1>2, <1>4, <1>5, <2>1, <2>2, <3>1
  <2>3. CASE ~(x < i)
    <3>1. ~(x <= Len(a)) /\ x - Len(a) = x - i + 1 /\ x - i + 1 \in 1..(Len(s) - j + 1) /\ j + (x - i + 1) - 1 = x + (j - i)
      BY <1>1, <1>2, <2>1, <2>3
    <3>2. (a \o c)[x] = c[x - i + 1]
      BY <1>5, <2>1, <3>1
    <3>3. c[x - i + 1] = s[x + (j - i)]
      BY <1>3, <3>1
    <3> QED BY <1>4, <2>3, <3>2, <3>3
  <2> QED BY <2>2, <2>3
<1>8. t = a \o c
  BY <1>4, <1>5, <1>6, <1>7, SameSequence
<1> QED BY <1>8 DEF t, a, c

LEMMA WithForm ==
    ASSUME NEW s \in Seq(Elem), NEW q \in Seq(Elem), NEW k \in 1..(Len(s) + 1), List # {}
    PROVE  With(s, k, q) = SubSeq(s, 1, k - 1) \o q \o SubSeq(s, k, Len(s))
<1> DEFINE a == SubSeq(s, 1, k - 1)
           c == SubSeq(s, k, Len(s))
           p == a \o q
           t == With(s, k, q)
           d == Len(q)
<1>0. PICK l \in List : TRUE
  OBVIOUS
<1>1. Len(s) \in Nat /\ d \in Nat /\ k \in Nat /\ 1 <= k /\ k <= Len(s) + 1
  BY LenProperties
<1>2. a \in Seq(Elem) /\ Len(a) = k - 1 /\ \A x \in 1..(k - 1) : a[x] = s[x]
  <2>1. 1 \in 1..(Len(s) + 1) /\ k - 1 \in (1 - 1)..Len(s) /\ (k - 1) - 1 + 1 = k - 1
    BY <1>1
  <2>2. a \in Seq(Elem) /\ Len(a) = k - 1 /\ \A x \in 1..(k - 1) : a[x] = s[1 + x - 1]
    BY <2>1, CutOut
  <2>3. \A x \in 1..(k - 1) : 1 + x - 1 = x
    BY <1>1
  <2> QED BY <2>2, <2>3
<1>3. c \in Seq(Elem) /\ Len(c) = Len(s) - k + 1 /\ \A x \in 1..(Len(s) - k + 1) : c[x] = s[k + x - 1]
  <2>1. k \in 1..(Len(s) + 1) /\ Len(s) \in (k - 1)..Len(s)
    BY <1>1
  <2> QED BY <2>1, CutOut
<1>4. /\ t \in Seq(Elem) /\ Len(t) = Len(s) + d
      /\ \A x \in 1..Len(t) : t[x] = IF x < k THEN s[x] ELSE IF x < k + d THEN q[x - k + 1] ELSE s[x - d]
  BY <1>0, WithIs
<1> HIDE DEF a, c, t, p
<1>5. p \in Seq(Elem) /\ Len(p) = Len(a) + Len(q) /\ \A x \in 1..(Len(a) + Len(q)) : p[x] = IF x <= Len(a) THEN a[x] ELSE q[x - Len(a)]
  BY <1>2, ConcatProperties DEF p
<1>6. /\ p \o c \in Seq(Elem) /\ Len(p \o c) = Len(p) + Len(c)
      /\ \A x \in 1..(Len(p) + Len(c)) : (p \o c)[x] = IF x <= Len(p) THEN p[x] ELSE c[x - Len(p)]
  <2>1. p \in Seq(Elem) /\ c \in Seq(Elem)
    BY <1>3, <1>5
  <2> QED BY ONLY <2>1, ConcatProperties
<1>7. Len(p) = k - 1 + d
  BY <1>2, <1>5
<1> HIDE DEF d
<1>8. Len(p \o c) = Len(t) /\ Len(t) \in Nat
  BY <1>1, <1>3, <1>4, <1>6, <1>7
<1>9. ASSUME NEW x \in 1..Len(t) PROVE t[x] = (p \o c)[x]
  <2>1. x \in Nat /\ x \in 1..(Len(p) + Len(c)) /\ 1 <= x /\ x <= Len(s) + d
    BY <1>4, <1>6, <1>8
  <2>2. CASE x < k
    <3>1. x <= Len(a) /\ x \in 1..(k - 1) /\ x <= Len(p) /\ x \in 1..(Len(a) + Len(q))
      BY <1>1, <1>2, <1>7, <2>1, <2>2 DEF d
    <3>2. (p \o c)[x] = a[x]
      BY <1>5, <1>6, <2>1, <3>1
    <3> QED BY <1>2, <1>4, <2>2, <3>1, <3>2
  <2>3. CASE ~(x < k) /\ x < k + d
    <3>1. x <= Len(p) /\ ~(x <= Len(a)) /\ x \in 1..(Len(a) + Len(q)) /\ x - Len(a) = x - k + 1
      BY <1>1, <1>2, <1>7, <2>1, <2>3 DEF d
    <3>2. (p \o c)[x] = q[x - k + 1]
      BY <1>5, <1>6, <2>1, <3>1
    <3> QED BY <1>4, <2>3, <3>2
  <2>4. CASE ~(x < k) /\ ~(x < k + d)
    <3>1. ~(x <= Len(p)) /\ x - Len(p) = x - k - d + 1 /\ x - k - d + 1 \in 1..(Len(s) - k + 1) /\ k + (x - k - d + 1) - 1 = x - d
      BY <1>1, <1>7, <2>1, <2>4
    <3>2. (p \o c)[x] = c[x - k - d + 1]
      BY <1>6, <2>1, <3>1
    <3>3. c[x - k - d + 1] = s[x - d]
      BY <1>3, <3>1
    <3> QED BY <1>4, <2>4, <3>2, <3>3
  <2> QED BY <2>2, <2>3, <2>4
<1>10. t = p \o c
  BY <1>4, <1>6, <1>8, <1>9, SameSequence
<1> QED BY <1>10 DEF t, p, a, c

\* Nothing taken out, nothing put in.
LEMMA NothingMoved ==
    ASSUME NEW s \in Seq(Elem), NEW i \in 1..(Len(s) + 1), NEW k \in 1..(Len(s) + 1), NEW l \in List
    PROVE  Without(s, i, i) = s /\ Part(s, i, i) = <<>> /\ With(s, k, <<>>) = s
<1>1. Len(s) \in Nat /\ i \in i..(Len(s) + 1) /\ i - i = 0 /\ k \in Nat /\ i \in Nat
  BY LenProperties
<1>2. Without(s, i, i) = s
  <2>1. /\ Without(s, i, i) \in Seq(Elem) /\ Len(Without(s, i, i)) = Len(s) - (i - i)
        /\ \A x \in 1..Len(Without(s, i, i)) : Without(s, i, i)[x] = IF x < i THEN s[x] ELSE s[x + (i - i)]
    BY <1>1, WithoutIs
  <2>2. \A x \in 1..Len(s) : x + (i - i) = x
    BY <1>1
  <2> QED BY <1>1, <2>1, <2>2, SameSequence
<1>3. Part(s, i, i) = <<>>
  BY <1>1, PartIs, EmptySeq
<1>4. With(s, k, <<>>) = s
  <2>1. <<>> \in Seq(Elem) /\ Len(<<>>) = 0
    OBVIOUS
  <2> DEFINE e == <<>>
  <2>2. e \in Seq(Elem) /\ Len(e) = 0
    BY <2>1
  <2> HIDE DEF e
  <2>3. /\ With(s, k, e) \in Seq(Elem) /\ Len(With(s, k, e)) = Len(s) + Len(e)
        /\ \A x \in 1..Len(With(s, k, e)) : With(s, k, e)[x] = IF x < k THEN s[x] ELSE IF x < k + Len(e) THEN e[x - k + 1] ELSE s[x - Len(e)]
    <3>1. l \in List /\ s \in Seq(Elem) /\ e \in Seq(Elem) /\ k \in 1..(Len(s) + 1)
      BY <2>2
    <3> QED BY ONLY <3>1, WithIs
  <2>4. \A x \in 1..Len(s) : x - 0 = x /\ (x < k + 0 <=> x < k)
    BY <1>1
  <2>5. With(s, k, e) = s
    BY <1>1, <2>2, <2>3, <2>4, SameSequence
  <2> QED BY <2>5 DEF e
<1> QED BY <1>2, <1>3, <1>4

\* The links of all nodes are those of the sequences that loops over them meet.
HeapInv == Holds(heap, seq)

\* A list with its tail, as the places one can insert before.
LEMMA PlaceIs ==
    ASSUME NEW l \in List, NEW s \in Seq(Elem)
    PROVE  /\ DOMAIN (s \o <<Tail1(l)>>) = 1..(Len(s) + 1)
           /\ \A i \in 1..(Len(s) + 1) : (s \o <<Tail1(l)>>)[i] = At(l, s, i)
<1> DEFINE q == <<Tail1(l)>>
<1>1. Len(s) \in Nat /\ Tail1(l) \in Nodes /\ (\A i \in 1..Len(s) : At(l, s, i) = s[i]) /\ At(l, s, Len(s) + 1) = Tail1(l)
  BY AtIs, NodesAre
<1>2. s \in Seq(Nodes)
  <2>1. s \in [1..Len(s) -> Nodes]
    BY LenProperties, ElementOfSeq, NodesAre
  <2> QED BY <1>1, <2>1
<1>3. q \in Seq(Nodes) /\ Len(q) = 1 /\ q[1] = Tail1(l)
  BY <1>1
<1> HIDE DEF q
<1>4. /\ s \o q \in Seq(Nodes) /\ Len(s \o q) = Len(s) + Len(q)
      /\ \A i \in 1..(Len(s) + Len(q)) : (s \o q)[i] = IF i <= Len(s) THEN s[i] ELSE q[i - Len(s)]
  BY <1>2, <1>3, ConcatProperties
<1>5. DOMAIN (s \o q) = 1..(Len(s) + 1)
  BY <1>3, <1>4, LenProperties
<1>6. ASSUME NEW i \in 1..(Len(s) + 1) PROVE (s \o q)[i] = At(l, s, i)
  <2>1. CASE i = Len(s) + 1
    <3>1. ~(i <= Len(s)) /\ i - Len(s) = 1 /\ i \in 1..(Len(s) + Len(q))
      BY <1>1, <1>3, <2>1
    <3> QED BY <1>1, <1>3, <1>4, <2>1, <3>1
  <2>2. CASE i # Len(s) + 1
    <3>1. i <= Len(s) /\ i \in 1..Len(s) /\ i \in 1..(Len(s) + Len(q))
      BY <1>1, <1>3, <2>2
    <3> QED BY <1>1, <1>4, <3>1
  <2> QED BY <2>1, <2>2
<1> QED BY <1>5, <1>6 DEF q

LEMMA SeqIs ==
    ASSUME HeapInv
    PROVE  /\ seq \in [List -> Seq(Elem)] /\ Once(seq)
           /\ \A l \in List : seq[l] \in Seq(Elem) /\ Len(seq[l]) \in Nat /\ DOMAIN seq[l] = 1..Len(seq[l]) /\ Visited(heap, l) = seq[l]
           /\ \A l \in List : \A i \in Indices(l) : Place(l, i) = At(l, seq[l], i) /\ i \in 1..(Len(seq[l]) + 1)
<1>1. seq \in [List -> Seq(Elem)] /\ Once(seq)
  BY DEF HeapInv, Holds
<1>2. ASSUME NEW l \in List
      PROVE  seq[l] \in Seq(Elem) /\ Len(seq[l]) \in Nat /\ DOMAIN seq[l] = 1..Len(seq[l]) /\ Visited(heap, l) = seq[l]
  <2>1. seq[l] \in Seq(Elem)
    BY <1>1
  <2> QED BY <2>1, AtIs, VisitedIs DEF HeapInv
<1>3. ASSUME NEW l \in List, NEW i \in Indices(l) PROVE Place(l, i) = At(l, seq[l], i) /\ i \in 1..(Len(seq[l]) + 1)
  BY <1>2, PlaceIs DEF Place, Indices
<1> QED BY <1>1, <1>2, <1>3

LEMMA MemberIs ==
    ASSUME HeapInv, NEW e
    PROVE  Member(e) <=> \E l \in List : \E i \in 1..Len(seq[l]) : seq[l][i] = e
BY SeqIs DEF Member, ToSet

LEMMA CallsAreRight ==
    ASSUME HeapInv
    PROVE  InsertedRight /\ RemovedRight /\ SplicedRight /\ ReversedRight
<1>1. /\ seq \in [List -> Seq(Elem)]
      /\ \A l \in List : seq[l] \in Seq(Elem) /\ Len(seq[l]) \in Nat /\ DOMAIN seq[l] = 1..Len(seq[l])
      /\ \A l \in List : \A i \in Indices(l) : Place(l, i) = At(l, seq[l], i) /\ i \in 1..(Len(seq[l]) + 1)
  BY SeqIs
<1>2. ASSUME NEW l \in List, NEW e \in Elem, ~Member(e), NEW i \in Indices(l)
      PROVE  Gives(insert(heap, Place(l, i), e), [seq EXCEPT ![l] = InsertAt(@, i, e)])
  <2>1. \A m \in List : \A x \in DOMAIN seq[m] : seq[m][x] # e
    BY <1>1, <1>2, MemberIs
  <2>2. i \in 1..(Len(seq[l]) + 1) /\ Place(l, i) = At(l, seq[l], i)
    BY <1>1
  <2>3. Holds(insert(heap, At(l, seq[l], i), e), PasteOf(seq, l, i, <<e>>))
    BY <2>1, <2>2, InsertKeeps DEF HeapInv
  <2>4. With(seq[l], i, <<e>>) = InsertAt(seq[l], i, e)
    <3>1. <<e>> \in Seq(Elem)
      OBVIOUS
    <3> QED BY <1>1, <2>2, <3>1, WithForm DEF InsertAt
  <2>5. PasteOf(seq, l, i, <<e>>) = [seq EXCEPT ![l] = InsertAt(@, i, e)]
    BY <2>4 DEF PasteOf
  <2>6. Gives(insert(heap, At(l, seq[l], i), e), PasteOf(seq, l, i, <<e>>))
    BY <2>3, HoldsGives
  <2> QED BY <2>2, <2>5, <2>6
<1>3. ASSUME NEW l \in List, NEW i \in DOMAIN seq[l]
      PROVE  Gives(remove(heap, seq[l][i]), [seq EXCEPT ![l] = RemoveAt(@, i)])
  <2>1. i \in 1..Len(seq[l]) /\ Len(seq[l]) \in Nat /\ seq[l] \in Seq(Elem)
    BY <1>1
  <2>2. Holds(remove(heap, seq[l][i]), CutOf(seq, l, i, i + 1))
    BY <2>1, RemoveKeeps DEF HeapInv
  <2>3. Without(seq[l], i, i + 1) = RemoveAt(seq[l], i)
    <3>1. i \in 1..(Len(seq[l]) + 1) /\ i + 1 \in i..(Len(seq[l]) + 1)
      BY <2>1
    <3> DEFINE j == i + 1
               s == seq[l]
    <3>2. j \in i..(Len(s) + 1) /\ i \in 1..(Len(s) + 1) /\ s \in Seq(Elem) /\ List # {}
      BY <2>1, <3>1
    <3> HIDE DEF j, s
    <3>3. Without(s, i, j) = SubSeq(s, 1, i - 1) \o SubSeq(s, j, Len(s))
      BY ONLY <3>2, WithoutForm
    <3> QED BY <3>3 DEF RemoveAt, j, s
  <2>4. CutOf(seq, l, i, i + 1) = [seq EXCEPT ![l] = RemoveAt(@, i)]
    BY <2>3 DEF CutOf
  <2> QED BY <2>2, <2>4, HoldsGives
<1>4. ASSUME NEW l \in List PROVE Gives(reverse(heap, l), [seq EXCEPT ![l] = Reverse(@)])
  <2>1. Holds(reverse(heap, l), [seq EXCEPT ![l] = Reverse(@)])
    BY ReverseKeeps DEF HeapInv
  <2> QED BY <2>1, HoldsGives
<1>5. ASSUME NEW l \in List, NEW m \in List, NEW i \in Indices(m), NEW j \in Indices(m), NEW k \in Indices(l),
             i <= j, l = m => k \notin i..(j - 1)
      PROVE  PartMoves(l, m, i, j, k)
  <2> DEFINE moved == SubSeq(seq[m], i, j - 1)
             others == [seq EXCEPT ![m] = SubSeq(@, 1, i - 1) \o SubSeq(@, j, Len(@))]
             at == IF l = m /\ k >= j THEN k - Len(moved) ELSE k
             T == CutOf(seq, m, i, j)
             q == Part(seq[m], i, j)
  <2>1. /\ i \in 1..(Len(seq[m]) + 1) /\ j \in 1..(Len(seq[m]) + 1) /\ k \in 1..(Len(seq[l]) + 1)
        /\ Place(m, i) = At(m, seq[m], i) /\ Place(m, j) = At(m, seq[m], j) /\ Place(l, k) = At(l, seq[l], k)
        /\ seq[m] \in Seq(Elem) /\ seq[l] \in Seq(Elem) /\ Len(seq[m]) \in Nat /\ Len(seq[l]) \in Nat /\ List # {}
    BY <1>1
  <2>2. j \in i..(Len(seq[m]) + 1)
    BY <1>5, <2>1
  <2>3. Without(seq[m], i, j) = SubSeq(seq[m], 1, i - 1) \o SubSeq(seq[m], j, Len(seq[m])) /\ q = moved
    BY <2>1, <2>2, WithoutForm, PartForm
  <2>4. others = T
    BY <2>3 DEF CutOf
  <2>5. q \in Seq(Elem) /\ Len(q) = j - i
    BY <2>1, <2>2, PartIs
  <2>6. at = Moved(l, m, i, j, k)
    BY <2>3, <2>5 DEF Moved
  <2> HIDE DEF q, T, moved, others, at
  <2>7. CASE i = j
    <3>1. Without(seq[m], i, i) = seq[m] /\ Part(seq[m], i, i) = <<>> /\ With(seq[l], k, <<>>) = seq[l]
      BY <2>1, NothingMoved
    <3>2. T = seq
      BY <1>1, <2>7, <3>1 DEF CutOf, T
    <3>3. at = k
      <4>1. k - 0 = k /\ Len(q) = 0
        BY <2>1, <2>5, <2>7
      <4> QED BY <2>3, <4>1 DEF at
    <3>4. SubSeq(seq[l], 1, k - 1) \o q \o SubSeq(seq[l], k, Len(seq[l])) = With(seq[l], k, q)
      BY <2>1, <2>5, WithForm
    <3>5. q = <<>>
      BY <2>7, <3>1 DEF q
    <3>6. [others EXCEPT ![l] = SubSeq(@, 1, at - 1) \o moved \o SubSeq(@, at, Len(@))] = seq
      BY <1>1, <2>3, <2>4, <3>1, <3>2, <3>3, <3>4, <3>5
    <3>7. splice(heap, Place(l, k), Place(m, i), Place(m, j)) = heap
      BY <2>7 DEF splice
    <3>8. Gives(heap, seq)
      BY HoldsGives DEF HeapInv
    <3> QED BY <3>6, <3>7, <3>8 DEF others, at, moved, PartMoves
  <2>8. CASE i # j
    <3>1. i < j
      BY <1>5, <2>1, <2>8
    <3>2. /\ at \in 1..(Len(T[l]) + 1)
          /\ Holds(splice(heap, At(l, seq[l], k), At(m, seq[m], i), At(m, seq[m], j)), PasteOf(T, l, at, q))
      <4>1. /\ Holds(heap, seq) /\ l \in List /\ m \in List /\ k \in 1..(Len(seq[l]) + 1) /\ i \in 1..(Len(seq[m]) + 1)
            /\ j \in i..(Len(seq[m]) + 1) /\ i < j /\ (l = m => k \notin i..(j - 1))
        BY <1>5, <2>1, <2>2, <3>1 DEF HeapInv
      <4>2. /\ Moved(l, m, i, j, k) \in 1..(Len(CutOf(seq, m, i, j)[l]) + 1)
            /\ Holds(splice(heap, At(l, seq[l], k), At(m, seq[m], i), At(m, seq[m], j)),
                     PasteOf(CutOf(seq, m, i, j), l, Moved(l, m, i, j, k), Part(seq[m], i, j)))
        BY ONLY <4>1, SpliceKeeps
      <4> QED BY <2>6, <4>2 DEF T, q
    <3>3. T[l] \in Seq(Elem)
      <4>1. Without(seq[m], i, j) \in Seq(Elem)
        BY <2>1, <2>2, WithoutIs
      <4> QED BY <1>1, <4>1 DEF T, CutOf
    <3>4. With(T[l], at, q) = SubSeq(T[l], 1, at - 1) \o q \o SubSeq(T[l], at, Len(T[l]))
      BY <2>1, <2>5, <3>2, <3>3, WithForm
    <3>5. [others EXCEPT ![l] = SubSeq(@, 1, at - 1) \o moved \o SubSeq(@, at, Len(@))] = PasteOf(T, l, at, q)
      BY <2>3, <2>4, <3>4 DEF PasteOf
    <3>6. Gives(splice(heap, At(l, seq[l], k), At(m, seq[m], i), At(m, seq[m], j)), PasteOf(T, l, at, q))
      BY <3>2, HoldsGives
    <3> QED BY <2>1, <3>5, <3>6 DEF others, at, moved, PartMoves
  <2> QED BY <2>7, <2>8
<1>6. InsertedRight
  BY <1>2 DEF InsertedRight
<1>7. RemovedRight
  BY <1>3 DEF RemovedRight
<1>8. ReversedRight
  BY <1>4 DEF ReversedRight
<1>9. SplicedRight
  BY <1>5 DEF SplicedRight
<1> QED BY <1>6, <1>7, <1>8, <1>9

\* The elements of s stay in their order when one of them is out.
LEMMA OthersStay ==
    ASSUME NEW l \in List, NEW s \in Seq(Elem), NEW p \in 1..Len(s), NEW y \in 1..Len(s), p # y
    PROVE  \E x \in 1..Len(Without(s, p, p + 1)) : Without(s, p, p + 1)[x] = s[y]
<1> DEFINE j == p + 1
           t == Without(s, p, j)
           x == IF y < p THEN y ELSE y - 1
<1>1. Len(s) \in Nat /\ p \in 1..(Len(s) + 1) /\ j \in p..(Len(s) + 1) /\ j - p = 1
  BY LenProperties
<1>2. /\ t \in Seq(Elem) /\ Len(t) = Len(s) - (j - p)
      /\ \A i \in 1..Len(t) : t[i] = IF i < p THEN s[i] ELSE s[i + (j - p)]
  <2> HIDE DEF j
  <2> QED BY <1>1, WithoutIs
<1> HIDE DEF t, j
<1>3. x \in 1..Len(t) /\ (y < p => x = y /\ x < p) /\ (~(y < p) => ~(x < p) /\ x + 1 = y)
  BY <1>1, <1>2
<1> HIDE DEF x
<1>4. t[x] = s[y]
  BY <1>1, <1>2, <1>3
<1> QED BY <1>3, <1>4 DEF t, j

\* An element of l goes to the end of dups.
LEMMA OneGoes ==
    ASSUME NEW h, NEW S, Holds(h, S), NEW l \in List, NEW dups \in List, l # dups, NEW p \in 1..Len(S[l])
    PROVE  \E T : /\ Holds(insert(remove(h, S[l][p]), Tail1(dups), S[l][p]), T)
                  /\ \A y \in 1..Len(S[l]) : y # p => \E x \in 1..Len(T[l]) : T[l][x] = S[l][y]
<1> DEFINE e == S[l][p]
           C == CutOf(S, l, p, p + 1)
           g == remove(h, e)
           k == Len(C[dups]) + 1
           T == PasteOf(C, dups, k, <<e>>)
<1>1. Holds(g, C) /\ \A m \in List : \A x \in DOMAIN C[m] : C[m][x] # e
  BY RemoveKeeps
<1>2. S \in [List -> Seq(Elem)] /\ C \in [List -> Seq(Elem)]
  BY <1>1 DEF Holds
<1>3. /\ S[l] \in Seq(Elem) /\ e \in Elem
      /\ C[dups] \in Seq(Elem) /\ Len(C[dups]) \in Nat /\ At(dups, C[dups], k) = Tail1(dups)
  <2>1. S[l] \in Seq(Elem) /\ C[dups] \in Seq(Elem)
    BY <1>2
  <2> QED BY <2>1, AtIs
<1>4. C[l] = Without(S[l], p, p + 1)
  BY <1>2 DEF CutOf
<1> HIDE DEF C, g, e
<1>5. k \in 1..(Len(C[dups]) + 1)
  BY <1>3
<1> HIDE DEF k
<1>6. Holds(insert(g, Tail1(dups), e), T)
  BY <1>1, <1>3, <1>5, InsertKeeps
<1>7. T[l] = C[l]
  BY <1>2 DEF PasteOf
<1> HIDE DEF T
<1>8. ASSUME NEW y \in 1..Len(S[l]), y # p PROVE \E x \in 1..Len(T[l]) : T[l][x] = S[l][y]
  BY <1>3, <1>4, <1>7, <1>8, OthersStay
<1> QED BY <1>6, <1>8 DEF g, e

-----------------------------------------------------------------------------
(* list_unique                                                             *)

Compared(s, dups, n) ==
    IF ~less(s.elem, n) /\ ~less(n, s.elem)
    THEN [s EXCEPT !.heap = insert(remove(@, n), Tail1(dups), n)]
    ELSE [s EXCEPT !.elem = n]

ComparedFrom(f, h, all, dups, k) ==
    f = [i \in 1..k |-> IF i = 1 THEN [heap |-> h, elem |-> all[1]] ELSE Compared(f[i - 1], dups, all[i])]

LEMMA ComparedExists ==
    ASSUME NEW h, NEW all, NEW dups, NEW n \in Nat
    PROVE  \E f : ComparedFrom(f, h, all, dups, n)
<1> DEFINE B == {k \in Nat : ~\E f : ComparedFrom(f, h, all, dups, k)}
<1>1. SUFFICES ASSUME B # {} PROVE FALSE
  OBVIOUS
<1>2. PICK k \in B : \A j \in B : k <= j
  <2>1. B \in SUBSET Nat
    OBVIOUS
  <2> QED BY <1>1, <2>1, LeastIn
<1>3. CASE k = 0
  <2> DEFINE f == [i \in 1..0 |-> h]
  <2>1. ComparedFrom(f, h, all, dups, 0)
    BY DEF ComparedFrom
  <2> QED BY <1>2, <1>3, <2>1
<1>4. CASE k # 0
  <2>1. k - 1 \in Nat /\ k - 1 \notin B
    BY <1>2, <1>4
  <2>2. PICK g : ComparedFrom(g, h, all, dups, k - 1)
    BY <2>1
  <2> DEFINE new == IF k = 1 THEN [heap |-> h, elem |-> all[1]] ELSE Compared(g[k - 1], dups, all[k])
             f == [i \in 1..k |-> IF i = k THEN new ELSE g[i]]
  <2>3. \A i \in 1..(k - 1) : g[i] = IF i = 1 THEN [heap |-> h, elem |-> all[1]] ELSE Compared(g[i - 1], dups, all[i])
    BY <2>2 DEF ComparedFrom
  <2>4. /\ k \in Nat /\ f[k] = new /\ \A i \in 1..(k - 1) : f[i] = g[i]
        /\ f = [i \in 1..k |-> f[i]]
    BY <1>2, <2>1
  <2> HIDE DEF f
  <2>5. ASSUME NEW i \in 1..k
        PROVE  f[i] = IF i = 1 THEN [heap |-> h, elem |-> all[1]] ELSE Compared(f[i - 1], dups, all[i])
    <3>1. CASE i = k
      <4>1. k # 1 => f[k - 1] = g[k - 1]
        <5>1. k # 1 => k - 1 \in 1..(k - 1)
          BY <2>1, <2>4
        <5> QED BY <2>4, <5>1
      <4> QED BY <2>4, <3>1, <4>1
    <3>2. CASE i # k
      <4>1. i \in 1..(k - 1) /\ (i # 1 => i - 1 \in 1..(k - 1))
        BY <2>1, <2>4, <3>2
      <4>2. f[i] = g[i] /\ (i # 1 => f[i - 1] = g[i - 1])
        BY <2>4, <4>1
      <4> QED BY <2>3, <4>1, <4>2
    <3> QED BY <3>1, <3>2
  <2>6. ComparedFrom(f, h, all, dups, k)
    BY <2>4, <2>5 DEF ComparedFrom
  <2> QED BY <1>2, <2>6
<1> QED BY <1>3, <1>4

LEMMA UniqueKeeps ==
    ASSUME NEW h, NEW S, Holds(h, S), NEW l \in List, NEW dups \in List, l # dups
    PROVE  \E T : Holds(unique(h, l, dups), T)
<1> DEFINE all == Visited(h, l)
           step(s, n) == IF ~less(s.elem, n) /\ ~less(n, s.elem)
                         THEN [s EXCEPT !.heap = insert(remove(@, n), Tail1(dups), n)]
                         ELSE [s EXCEPT !.elem = n]
           after[i \in 1..Len(all)] == IF i = 1 THEN [heap |-> h, elem |-> all[1]] ELSE step(after[i - 1], all[i])
           N == Len(all)
<1>1. unique(h, l, dups) = IF all = <<>> THEN h ELSE after[Len(all)].heap
  BY DEF unique
<1>2. after = CHOOSE f : ComparedFrom(f, h, all, dups, N)
  BY DEF ComparedFrom, Compared
<1>3. all = S[l]
  BY VisitedIs
<1> HIDE DEF after, all
<1>4. all \in Seq(Elem) /\ \A i, j \in 1..Len(all) : all[i] = all[j] => i = j
  BY <1>3, OnceIn DEF Holds
<1>5. N \in Nat /\ (N = 0 => all = <<>>)
  BY <1>4, LenProperties, EmptySeq
<1> HIDE DEF N
<1>6. ComparedFrom(after, h, all, dups, N)
  BY <1>2, <1>5, ComparedExists
<1>7. \A i \in 1..N : after[i] = IF i = 1 THEN [heap |-> h, elem |-> all[1]] ELSE Compared(after[i - 1], dups, all[i])
  BY <1>6 DEF ComparedFrom
<1> DEFINE InList(T, i) == \A x \in (i + 1)..N : \E p \in 1..Len(T[l]) : T[l][p] = all[x]
           Good(i) == /\ after[i] = [heap |-> after[i].heap, elem |-> after[i].elem]
                      /\ \E T : Holds(after[i].heap, T) /\ InList(T, i)
           B == {i \in 1..N : ~Good(i)}
<1>8. B = {}
  <2> SUFFICES ASSUME B # {} PROVE FALSE
    OBVIOUS
  <2>1. B \in SUBSET Nat
    BY <1>5
  <2>2. PICK k \in B : \A j \in B : k <= j
    <3> HIDE DEF B
    <3> QED BY <2>1, LeastIn
  <2>3. k \in 1..N /\ ~Good(k) /\ k \in Nat
    BY <1>5, <2>2
  <2>4. CASE k = 1
    <3>1. after[k] = [heap |-> h, elem |-> all[1]]
      BY <1>7, <2>3, <2>4
    <3>2. InList(S, k)
      <4>1. \A x \in (k + 1)..N : x \in 1..Len(S[l])
        BY <1>3, <1>5, <2>3 DEF N
      <4> QED BY <1>3, <4>1
    <3>3. after[k] = [heap |-> after[k].heap, elem |-> after[k].elem] /\ after[k].heap = h
      BY <3>1
    <3>4. Good(k)
      BY <3>2, <3>3
    <3> QED BY <2>3, <3>4
  <2>5. CASE k # 1
    <3> DEFINE i == k - 1
               a == after[i]
               n == all[k]
    <3>1. i \in 1..N /\ ~(k <= i) /\ i + 1 = k
      BY <1>5, <2>3, <2>5
    <3>2. Good(i)
      BY <2>2, <3>1
    <3>3. a = [heap |-> a.heap, elem |-> a.elem]
      BY <3>2
    <3>4. PICK T : Holds(a.heap, T) /\ InList(T, i)
      BY <3>2
    <3>5. after[k] = Compared(a, dups, n)
      BY <1>7, <2>3, <2>5
    <3>6. ASSUME NEW x \in (k + 1)..N PROVE x \in (i + 1)..N /\ x \in 1..N /\ x # k
      BY <1>5, <2>3, <3>1
    <3>7. PICK p \in 1..Len(T[l]) : T[l][p] = n
      <4>1. k \in (i + 1)..N
        BY <1>5, <2>3, <3>1
      <4> QED BY <3>4, <4>1
    <3> HIDE DEF i, a, n
    <3>8. CASE ~less(a.elem, n) /\ ~less(n, a.elem)
      <4>1. after[k] = [a EXCEPT !.heap = insert(remove(@, n), Tail1(dups), n)]
        BY <3>5, <3>8 DEF Compared
      <4>2. after[k].heap = insert(remove(a.heap, n), Tail1(dups), n) /\ after[k] = [heap |-> after[k].heap, elem |-> after[k].elem]
        BY <3>3, <4>1
      <4>3. PICK U : /\ Holds(insert(remove(a.heap, n), Tail1(dups), n), U)
                     /\ \A y \in 1..Len(T[l]) : y # p => \E x \in 1..Len(U[l]) : U[l][x] = T[l][y]
        <5>1. /\ Holds(a.heap, T) /\ p \in 1..Len(T[l]) /\ l \in List /\ dups \in List /\ l # dups /\ T[l][p] = n
          BY <3>4, <3>7
        <5>2. \E U : /\ Holds(insert(remove(a.heap, T[l][p]), Tail1(dups), T[l][p]), U)
                     /\ \A y \in 1..Len(T[l]) : y # p => \E x \in 1..Len(U[l]) : U[l][x] = T[l][y]
          BY ONLY <5>1, OneGoes
        <5> QED BY <3>7, <5>2
      <4>4. ASSUME NEW x \in (k + 1)..N PROVE \E z \in 1..Len(U[l]) : U[l][z] = all[x]
        <5>1. PICK y \in 1..Len(T[l]) : T[l][y] = all[x]
          BY <3>4, <3>6
        <5>2. y # p
          BY <1>4, <2>3, <3>6, <3>7, <5>1 DEF n, N
        <5> QED BY <4>3, <5>1, <5>2
      <4>5. Good(k)
        BY <4>2, <4>3, <4>4
      <4> QED BY <2>3, <4>5
    <3>9. CASE ~(~less(a.elem, n) /\ ~less(n, a.elem))
      <4>1. after[k] = [a EXCEPT !.elem = n]
        BY <3>5, <3>9 DEF Compared
      <4>2. after[k].heap = a.heap /\ after[k] = [heap |-> after[k].heap, elem |-> after[k].elem]
        BY <3>3, <4>1
      <4>3. InList(T, k)
        BY <3>4, <3>6
      <4>4. Good(k)
        BY <3>4, <4>2, <4>3
      <4> QED BY <2>3, <4>4
    <3> QED BY <3>8, <3>9
  <2> QED BY <2>4, <2>5
<1>9. CASE all = <<>>
  BY <1>1, <1>9
<1>10. CASE all # <<>>
  <2>1. N \in 1..N
    BY <1>5, <1>10
  <2>2. Good(N)
    BY <1>8, <2>1
  <2> QED BY <1>1, <1>10, <2>2 DEF N
<1> QED BY <1>9, <1>10

\* While it is sorted a list keeps its elements, and the nodes that list_sort has in its
\* locals are places of the list, in this order.
SameElements == ToSet(seq[sort.list]) = ToSet(sort.given)
SortNode(x) == At(sort.list, seq[sort.list], x)
SortInv ==
    \/ sort = Idle
    \/ /\ sort \in [at : {"run"}, list : List, a0 : Nodes, runs : Nat, given : Seq(Elem)]
       /\ \E x \in Indices(sort.list) : sort.a0 = SortNode(x)
       /\ SameElements
    \/ /\ sort \in [at : {"merge"}, list : List, a0 : Nodes, a1b0 : Nodes, b1 : Nodes, runs : Nat, given : Seq(Elem)]
       /\ \E x, y, z \in Indices(sort.list) :
             x <= y /\ y <= z /\ sort.a0 = SortNode(x) /\ sort.a1b0 = SortNode(y) /\ sort.b1 = SortNode(z)
       /\ SameElements
    \/ /\ sort \in [at : {"done"}, list : List, given : Seq(Elem)]
       /\ SameElements
ListsInv == HeapInv /\ SortInv

\* The second of two parts starts behind the first.
LEMMA EndOfRunIs ==
    ASSUME HeapInv, NEW l \in List, NEW x \in 1..Len(seq[l])
    PROVE  \E y \in Indices(l) : x < y /\ find_end_of_run(l, At(l, seq[l], x)) = At(l, seq[l], y)
<1> DEFINE s == seq[l]
           a == At(l, s, x)
           from == SelectInSeq(s, LAMBDA n : n = a)
           ends == {i \in (from + 1)..Len(s) : less(s[i], s[i - 1])}
           least == CHOOSE i \in ends : \A j \in ends : i <= j
<1>1. s \in Seq(Elem) /\ Len(s) \in Nat /\ Visited(heap, l) = s /\ \A i, j \in 1..Len(s) : s[i] = s[j] => i = j
  BY SeqIs, OnceIn
<1>2. a = s[x] /\ At(l, s, Len(s) + 1) = Tail1(l) /\ (\A i \in 1..Len(s) : At(l, s, i) = s[i]) /\ Indices(l) = 1..(Len(s) + 1)
  BY <1>1, AtIs DEF Indices
<1>3. find_end_of_run(l, a) = IF ends = {} THEN Tail1(l) ELSE s[least]
  BY <1>1 DEF find_end_of_run
<1>4. from = x
  <2> DEFINE I == {i \in 1..Len(s) : s[i] = a}
  <2>1. I = {x}
    BY <1>1, <1>2
  <2>2. from = Min(I)
    BY <2>1 DEF SelectInSeq
  <2>3. Min({x}) = x
    BY DEF Min
  <2> QED BY <2>1, <2>2, <2>3
<1> HIDE DEF from, s, a
<1>5. CASE ends = {}
  <2>1. Len(s) + 1 \in Indices(l) /\ x < Len(s) + 1
    BY <1>1, <1>2 DEF s
  <2> QED BY <1>2, <1>3, <1>5, <2>1 DEF s, a
<1>6. CASE ends # {}
  <2>1. ends \in SUBSET Nat /\ \A i \in ends : i \in 1..Len(s) /\ x < i
    BY <1>1, <1>4 DEF s
  <2> HIDE DEF ends
  <2>2. \E i \in ends : \A j \in ends : i <= j
    BY <1>6, <2>1, LeastIn
  <2>3. least \in ends
    BY <2>2
  <2> HIDE DEF least
  <2>4. least \in 1..Len(s) /\ x < least /\ least \in Indices(l)
    BY <1>1, <1>2, <2>1, <2>3
  <2> QED BY <1>2, <1>3, <1>6, <2>4 DEF s, a
<1> QED BY <1>5, <1>6

\* An element moves to an earlier place of its list.
LEMMA OneMoves ==
    ASSUME NEW l \in List, NEW s \in Seq(Elem), NEW x \in 1..Len(s), NEW y \in 1..Len(s), x < y
    PROVE  LET t == With(Without(s, y, y + 1), x, Part(s, y, y + 1)) IN
           /\ t \in Seq(Elem) /\ Len(t) = Len(s) /\ ToSet(t) = ToSet(s)
           /\ At(l, t, x + 1) = At(l, s, x)
           /\ \A z \in (y + 1)..(Len(s) + 1) : At(l, t, z) = At(l, s, z)
<1> DEFINE j == y + 1
           w == Without(s, y, j)
           q == Part(s, y, j)
           t == With(w, x, q)
<1>1. /\ Len(s) \in Nat /\ y \in 1..(Len(s) + 1) /\ j \in y..(Len(s) + 1) /\ j - y = 1 /\ x \in Nat /\ y \in Nat
      /\ x >= 1 /\ y <= Len(s) /\ j = y + 1
  BY LenProperties
<1> HIDE DEF j
<1>2. /\ w \in Seq(Elem) /\ Len(w) = Len(s) - (j - y)
      /\ \A i \in 0..(Len(w) + 1) : At(l, w, i) = IF i < y THEN At(l, s, i) ELSE At(l, s, i + (j - y))
      /\ \A i \in 1..Len(w) : w[i] = IF i < y THEN s[i] ELSE s[i + (j - y)]
  BY <1>1, WithoutIs
<1>3. q \in Seq(Elem) /\ Len(q) = j - y /\ \A i \in 1..Len(q) : q[i] = s[y + i - 1]
  <2>1. s \in Seq(Elem) /\ y \in 1..(Len(s) + 1) /\ j \in y..(Len(s) + 1)
    BY <1>1
  <2> QED BY ONLY <2>1, PartIs
<1> HIDE DEF w, q
<1>4. Len(w) = Len(s) - 1 /\ Len(q) = 1 /\ q[1] = s[y]
  <2>1. 1 \in 1..Len(q) /\ y + 1 - 1 = y
    BY <1>1, <1>3
  <2> QED BY <1>1, <1>2, <1>3, <2>1
<1>5. /\ t \in Seq(Elem) /\ Len(t) = Len(w) + Len(q)
      /\ \A i \in 0..(Len(t) + 1) : At(l, t, i) = IF i < x THEN At(l, w, i) ELSE IF i < x + Len(q) THEN q[i - x + 1] ELSE At(l, w, i - Len(q))
      /\ \A i \in 1..Len(t) : t[i] = IF i < x THEN w[i] ELSE IF i < x + Len(q) THEN q[i - x + 1] ELSE w[i - Len(q)]
  <2>1. l \in List /\ w \in Seq(Elem) /\ q \in Seq(Elem) /\ x \in 1..(Len(w) + 1)
    BY <1>1, <1>2, <1>3, <1>4
  <2> QED BY ONLY <2>1, WithIs
<1> HIDE DEF t
<1>6. Len(t) = Len(s)
  BY <1>1, <1>4, <1>5
<1>7. ASSUME NEW i \in 1..Len(s) PROVE t[i] = IF i < x THEN s[i] ELSE IF i = x THEN s[y] ELSE IF i <= y THEN s[i - 1] ELSE s[i]
  <2>1. i \in 1..Len(t)
    BY <1>6
  <2>2. CASE i < x
    <3>1. i \in 1..Len(w) /\ i < y
      BY <1>1, <1>4, <2>2
    <3> QED BY <1>2, <1>5, <2>1, <2>2, <3>1
  <2>3. CASE i = x
    <3>1. i < x + Len(q) /\ ~(i < x) /\ i - x + 1 = 1
      BY <1>1, <1>4, <2>3
    <3> QED BY <1>4, <1>5, <2>1, <2>3, <3>1
  <2>4. CASE i > x /\ i <= y
    <3>1. ~(i < x + Len(q)) /\ ~(i < x) /\ i - Len(q) = i - 1 /\ i - 1 \in 1..Len(w) /\ i - 1 < y /\ i # x
      BY <1>1, <1>4, <2>4
    <3> QED BY <1>2, <1>5, <2>1, <2>4, <3>1
  <2>5. CASE i > y
    <3>1. ~(i < x + Len(q)) /\ ~(i < x) /\ i - Len(q) = i - 1 /\ i - 1 \in 1..Len(w) /\ ~(i - 1 < y) /\ (i - 1) + (j - y) = i /\ i # x /\ ~(i <= y)
      BY <1>1, <1>4, <2>5
    <3> QED BY <1>2, <1>5, <2>1, <3>1
  <2> QED BY <1>1, <2>2, <2>3, <2>4, <2>5
<1>8. ToSet(t) = ToSet(s)
  <2>1. DOMAIN t = 1..Len(s) /\ DOMAIN s = 1..Len(s)
    BY <1>5, <1>6, LenProperties
  <2>2. ASSUME NEW i \in 1..Len(s) PROVE \E k \in 1..Len(s) : t[i] = s[k]
    <3>1. i > x /\ i <= y => i - 1 \in 1..Len(s)
      BY <1>1
    <3>2. i < x \/ i = x \/ (i > x /\ i <= y) \/ (~(i < x) /\ i # x /\ ~(i <= y))
      BY <1>1
    <3> QED BY <1>7, <3>1, <3>2
  <2>3. ASSUME NEW i \in 1..Len(s) PROVE \E k \in 1..Len(s) : t[k] = s[i]
    <3>1. CASE i < x
      BY <1>7, <3>1
    <3>2. CASE i >= x /\ i < y
      <4>1. i + 1 \in 1..Len(s) /\ ~(i + 1 < x) /\ i + 1 # x /\ i + 1 <= y /\ (i + 1) - 1 = i
        BY <1>1, <3>2
      <4> QED BY <1>7, <4>1
    <3>3. CASE i = y
      <4>1. t[x] = s[y]
        BY <1>1, <1>7
      <4> QED BY <3>3, <4>1
    <3>4. CASE i > y
      <4>1. ~(i < x) /\ i # x /\ ~(i <= y)
        BY <1>1, <3>4
      <4> QED BY <1>7, <4>1
    <3> QED BY <1>1, <3>1, <3>2, <3>3, <3>4
  <2>4. ToSet(t) = {t[i] : i \in 1..Len(s)} /\ ToSet(s) = {s[i] : i \in 1..Len(s)}
    BY <2>1 DEF ToSet
  <2>5. ASSUME NEW e \in ToSet(t) PROVE e \in ToSet(s)
    BY <2>2, <2>4
  <2>6. ASSUME NEW e \in ToSet(s) PROVE e \in ToSet(t)
    <3>1. PICK i \in 1..Len(s) : e = s[i]
      BY <2>4
    <3>2. PICK k \in 1..Len(s) : t[k] = s[i]
      BY <2>3
    <3> QED BY <2>4, <3>1, <3>2
  <2> QED BY <2>5, <2>6
<1>9. At(l, t, x + 1) = At(l, s, x)
  <2>1. x + 1 \in 0..(Len(t) + 1) /\ ~(x + 1 < x) /\ ~(x + 1 < x + Len(q)) /\ (x + 1) - Len(q) = x /\ x \in 0..(Len(w) + 1) /\ x < y
    BY <1>1, <1>4, <1>6
  <2> QED BY <1>2, <1>5, <2>1
<1>10. ASSUME NEW z \in (y + 1)..(Len(s) + 1) PROVE At(l, t, z) = At(l, s, z)
  <2>1. /\ z \in 0..(Len(t) + 1) /\ ~(z < x) /\ ~(z < x + Len(q)) /\ z - Len(q) = z - 1 /\ z - 1 \in 0..(Len(w) + 1) /\ ~(z - 1 < y)
        /\ (z - 1) + (j - y) = z
    BY <1>1, <1>4, <1>6
  <2>2. At(l, t, z) = At(l, w, z - 1)
    BY <1>5, <2>1
  <2>3. At(l, w, z - 1) = At(l, s, z)
    BY <1>2, <2>1
  <2> QED BY <2>2, <2>3
<1> QED BY <1>5, <1>6, <1>8, <1>9, <1>10 DEF t, w, q, j

\* What is left to show for a step that changes the links.
LEMMA Becomes ==
    ASSUME NEW h, NEW S, Holds(h, S), next' = h.next, prev' = h.prev
    PROVE  heap' = h /\ seq' = S /\ HeapInv'
<1>1. h = [next |-> h.next, prev |-> h.prev]
  BY DEF Holds, Heaps
<1>2. heap' = h
  BY <1>1 DEF heap
<1>3. Seqs(h) = S
  BY HoldsGives
<1>4. seq' = S
  BY <1>2, <1>3 DEF seq, Seqs
<1> QED BY <1>2, <1>4 DEF HeapInv, Holds

LEMMA CallKeeps ==
    ASSUME NEW h, NEW S, Holds(h, S), Call(h)
    PROVE  ListsInv'
<1>1. HeapInv'
  BY Becomes DEF Call
<1>2. sort' = Idle
  BY DEF Call
<1> QED BY <1>1, <1>2 DEF ListsInv, SortInv

LEMMA StaysAsItIs ==
    ASSUME HeapInv, UNCHANGED <<next, prev>>
    PROVE  HeapInv' /\ seq' = seq /\ heap' = heap
<1>1. Holds(heap, seq) /\ next' = heap.next /\ prev' = heap.prev
  BY DEF HeapInv, heap
<1> QED BY <1>1, Becomes

LEMMA InitLists == ListsInit => ListsInv
<1> SUFFICES ASSUME ListsInit PROVE ListsInv
  OBVIOUS
<1> DEFINE S == [l \in List |-> <<>>]
<1>1. \A l \in List : S[l] = <<>>
  OBVIOUS
<1>2. S \in [List -> Seq(Elem)] /\ Once(S)
  BY <1>1 DEF Once
<1>3. next \in [Nodes -> Nodes \cup {Null}] /\ prev \in [Nodes -> Nodes \cup {Null}]
  <2>1. ASSUME NEW n \in Nodes, n \notin Elem PROVE Tail1(n[1]) \in Nodes /\ Head1(n[1]) \in Nodes
    <3>1. PICK l \in List : n = Head1(l) \/ n = Tail1(l)
      BY <2>1 DEF Nodes
    <3>2. n[1] = l
      BY <3>1 DEF Head1, Tail1
    <3> QED BY <3>2, NodesAre
  <2> QED BY <2>1 DEF ListsInit
<1>4. ASSUME NEW l \in List PROVE Chain(heap, l, S[l])
  <2>1. next[Head1(l)] = Tail1(l) /\ prev[Tail1(l)] = Head1(l)
    <3>1. Head1(l)[1] = l /\ Head1(l)[2] = "head" /\ Tail1(l)[1] = l /\ Tail1(l)[2] = "tail"
      BY DEF Head1, Tail1
    <3> QED BY <3>1, NodesAre DEF ListsInit
  <2>2. At(l, <<>>, 0) = Head1(l) /\ At(l, <<>>, 0 + 1) = Tail1(l) /\ Len(<<>>) = 0
    BY DEF At
  <2> QED BY <1>1, <2>1, <2>2 DEF Chain, heap
<1>5. Holds(heap, S)
  BY <1>2, <1>3, <1>4 DEF Holds, Heaps, heap
<1>6. seq = S
  BY <1>5, HoldsGives DEF seq
<1> QED BY <1>5, <1>6 DEF ListsInit, ListsInv, HeapInv, SortInv

LEMMA PlacesAre ==
    ASSUME HeapInv, NEW l \in List, NEW n \in Places(l)
    PROVE  \E k \in 1..(Len(seq[l]) + 1) : n = At(l, seq[l], k)
<1>1. seq[l] \in Seq(Elem) /\ Visited(heap, l) = seq[l] /\ Len(seq[l]) \in Nat /\ DOMAIN seq[l] = 1..Len(seq[l])
  BY SeqIs
<1>2. At(l, seq[l], Len(seq[l]) + 1) = Tail1(l) /\ \A i \in 1..Len(seq[l]) : At(l, seq[l], i) = seq[l][i]
  BY <1>1, AtIs
<1>3. CASE n = Tail1(l)
  BY <1>1, <1>2, <1>3
<1>4. CASE n # Tail1(l)
  <2>1. PICK i \in 1..Len(seq[l]) : n = seq[l][i]
    BY <1>1, <1>4 DEF Places, ToSet
  <2> QED BY <1>1, <1>2, <2>1
<1> QED BY <1>3, <1>4

LEMMA InsertCall ==
    ASSUME HeapInv, NEW l \in List, NEW e \in Elem, ~Member(e), NEW k \in 1..(Len(seq[l]) + 1),
           Call(insert(heap, At(l, seq[l], k), e))
    PROVE  ListsInv'
<1>1. \A m \in List : \A x \in DOMAIN seq[m] : seq[m][x] # e
  BY SeqIs, MemberIs
<1>2. Holds(insert(heap, At(l, seq[l], k), e), PasteOf(seq, l, k, <<e>>))
  BY <1>1, InsertKeeps DEF HeapInv
<1> QED BY <1>2, CallKeeps

LEMMA ListInsert ==
    ASSUME ListsInv, NEW l \in List, NEW e \in Elem, list_insert(l, e)
    PROVE  ListsInv'
<1>1. PICK before \in Places(l) : Call(insert(heap, before, e))
  BY DEF list_insert
<1>2. PICK k \in 1..(Len(seq[l]) + 1) : before = At(l, seq[l], k)
  BY PlacesAre DEF ListsInv
<1> QED BY <1>1, <1>2, InsertCall DEF ListsInv, list_insert

LEMMA ListInsertOrdered ==
    ASSUME ListsInv, NEW l \in List, NEW e \in Elem, list_insert_ordered(l, e)
    PROVE  ListsInv'
<1> DEFINE s == Visited(heap, l)
           i == SelectInSeq(s, LAMBDA n : less(e, n))
           before == IF i = 0 THEN Tail1(l) ELSE s[i]
<1>1. Call(insert(heap, before, e)) /\ ~Member(e)
  BY DEF list_insert_ordered, insert_ordered
<1>2. s = seq[l] /\ s \in Seq(Elem) /\ Len(s) \in Nat /\ DOMAIN s = 1..Len(s)
  BY SeqIs DEF ListsInv
<1>3. i = 0 \/ i \in 1..Len(s)
  <2> DEFINE I == {k \in 1..Len(s) : less(e, s[k])}
  <2>1. i = IF I # {} THEN Min(I) ELSE 0
    BY DEF SelectInSeq
  <2>2. CASE I # {}
    <3>1. I \in SUBSET Nat
      BY <1>2
    <3>2. Min(I) = CHOOSE x \in I : \A y \in I : x <= y
      BY DEF Min
    <3> HIDE DEF I
    <3>3. \E x \in I : \A y \in I : x <= y
      BY <2>2, <3>1, LeastIn
    <3>4. Min(I) \in I
      BY <3>2, <3>3
    <3> QED BY <2>1, <2>2, <3>4 DEF I
  <2> QED BY <2>1, <2>2
<1> HIDE DEF i
<1>4. PICK k \in 1..(Len(seq[l]) + 1) : before = At(l, seq[l], k)
  <2>1. before \in Places(l)
    BY <1>2, <1>3 DEF Places, ToSet
  <2> QED BY <2>1, PlacesAre DEF ListsInv
<1> QED BY <1>1, <1>4, InsertCall DEF ListsInv

LEMMA ListRemove ==
    ASSUME ListsInv, NEW e \in Elem, list_remove(e)
    PROVE  ListsInv'
<1>1. Member(e) /\ Call(remove(heap, e))
  BY DEF list_remove
<1>a. PICK l \in List : \E i \in 1..Len(seq[l]) : seq[l][i] = e
  BY <1>1, MemberIs DEF ListsInv
<1>2. PICK i \in 1..Len(seq[l]) : seq[l][i] = e
  BY <1>a
<1>3. Holds(remove(heap, e), CutOf(seq, l, i, i + 1))
  BY <1>2, RemoveKeeps DEF ListsInv, HeapInv
<1> QED BY <1>1, <1>3, CallKeeps

LEMMA ListReverse ==
    ASSUME ListsInv, NEW l \in List, list_reverse(l)
    PROVE  ListsInv'
<1>1. Holds(reverse(heap, l), [seq EXCEPT ![l] = Reverse(@)])
  BY ReverseKeeps DEF ListsInv, HeapInv
<1> QED BY <1>1, CallKeeps DEF list_reverse

LEMMA ListUnique ==
    ASSUME ListsInv, NEW l \in List, NEW dups \in List, list_unique(l, dups)
    PROVE  ListsInv'
<1>1. PICK T : Holds(unique(heap, l, dups), T)
  BY UniqueKeeps DEF ListsInv, HeapInv, list_unique
<1> QED BY <1>1, CallKeeps DEF list_unique

LEMMA ListSplice ==
    ASSUME ListsInv, NEW l \in List, NEW m \in List, list_splice(l, m)
    PROVE  ListsInv'
<1> DEFINE s == Visited(heap, m) \o <<Tail1(m)>>
<1>1. PICK i \in DOMAIN s, j \in DOMAIN s, before \in Places(l) :
          i <= j /\ before \notin {s[x] : x \in i..(j - 1)} /\ Call(splice(heap, before, s[i], s[j]))
  BY DEF list_splice
<1>2. /\ HeapInv /\ Visited(heap, m) = seq[m] /\ seq[m] \in Seq(Elem) /\ Len(seq[m]) \in Nat
      /\ seq[l] \in Seq(Elem) /\ Len(seq[l]) \in Nat
  BY SeqIs DEF ListsInv
<1>3. DOMAIN s = 1..(Len(seq[m]) + 1) /\ \A x \in 1..(Len(seq[m]) + 1) : s[x] = At(m, seq[m], x)
  BY <1>2, PlaceIs
<1>4. PICK k \in 1..(Len(seq[l]) + 1) : before = At(l, seq[l], k)
  BY <1>2, PlacesAre
<1> HIDE DEF s
<1>5. i \in 1..(Len(seq[m]) + 1) /\ j \in 1..(Len(seq[m]) + 1) /\ j \in i..(Len(seq[m]) + 1)
  BY <1>1, <1>2, <1>3
<1>6. CASE i = j
  <2>1. splice(heap, before, s[i], s[j]) = heap
    BY <1>6 DEF splice
  <2> QED BY <1>1, <1>2, <2>1, CallKeeps DEF HeapInv
<1>7. CASE i # j
  <2>1. i < j
    BY <1>1, <1>2, <1>5, <1>7
  <2>2. ASSUME l = m, k \in i..(j - 1) PROVE FALSE
    <3>1. k \in 1..(Len(seq[m]) + 1)
      BY <1>2, <1>5, <2>2
    <3>2. s[k] = before
      BY <1>3, <1>4, <2>2, <3>1
    <3> QED BY <1>1, <2>2, <3>2
  <2>3. Holds(splice(heap, At(l, seq[l], k), At(m, seq[m], i), At(m, seq[m], j)),
              PasteOf(CutOf(seq, m, i, j), l, Moved(l, m, i, j, k), Part(seq[m], i, j)))
    <3>1. /\ Holds(heap, seq) /\ l \in List /\ m \in List /\ k \in 1..(Len(seq[l]) + 1) /\ i \in 1..(Len(seq[m]) + 1)
          /\ j \in i..(Len(seq[m]) + 1) /\ i < j /\ (l = m => k \notin i..(j - 1))
      BY <1>2, <1>4, <1>5, <2>1, <2>2 DEF HeapInv
    <3> QED BY ONLY <3>1, SpliceKeeps
  <2>4. s[i] = At(m, seq[m], i) /\ s[j] = At(m, seq[m], j)
    BY <1>3, <1>5
  <2>5. Call(splice(heap, At(l, seq[l], k), At(m, seq[m], i), At(m, seq[m], j)))
    BY <1>1, <1>4, <2>4
  <2> QED BY <2>3, <2>5, CallKeeps
<1> QED BY <1>6, <1>7

-----------------------------------------------------------------------------
(* list_sort                                                               *)

LEMMA FirstPlace ==
    ASSUME HeapInv, NEW l \in List
    PROVE  1 \in Indices(l) /\ next[Head1(l)] = At(l, seq[l], 1) /\ At(l, seq[l], 1) \in Nodes
<1>1. seq[l] \in Seq(Elem) /\ Len(seq[l]) \in Nat
  BY SeqIs
<1>2. \A x \in 0..Len(seq[l]) : next[At(l, seq[l], x)] = At(l, seq[l], x + 1)
  BY DEF HeapInv, Holds, Chain, heap
<1>3. 0 \in 0..Len(seq[l]) /\ 0 + 1 = 1 /\ 1 \in 0..(Len(seq[l]) + 1) /\ 1 \in 1..(Len(seq[l]) + 1)
  BY <1>1
<1>4. At(l, seq[l], 0) = Head1(l) /\ At(l, seq[l], 1) \in Nodes
  BY <1>1, <1>3, AtIs
<1> QED BY <1>2, <1>3, <1>4 DEF Indices

LEMMA PlacesOf ==
    ASSUME HeapInv, NEW l \in List
    PROVE  /\ \A x \in Indices(l) : x \in Nat /\ 1 <= x /\ x <= Len(seq[l]) + 1 /\ At(l, seq[l], x) \in Nodes /\ x \in 0..(Len(seq[l]) + 1)
           /\ \A x \in Indices(l) : At(l, seq[l], x) # Tail1(l) => x \in 1..Len(seq[l])
           /\ \A x, y \in Indices(l) : At(l, seq[l], x) = At(l, seq[l], y) => x = y
           /\ \A x \in 1..Len(seq[l]) : x \in Indices(l) /\ x + 1 \in Indices(l) /\ next[At(l, seq[l], x)] = At(l, seq[l], x + 1)
           /\ \A x \in Nat : 1 <= x /\ x <= Len(seq[l]) + 1 => x \in Indices(l)
           /\ Len(seq[l]) \in Nat
<1>1. seq[l] \in Seq(Elem) /\ Len(seq[l]) \in Nat /\ seq \in [List -> Seq(Elem)] /\ Once(seq)
  BY SeqIs
<1>2. \A x \in 0..Len(seq[l]) : next[At(l, seq[l], x)] = At(l, seq[l], x + 1)
  BY DEF HeapInv, Holds, Chain, heap
<1>3. Indices(l) = 1..(Len(seq[l]) + 1)
  BY DEF Indices
<1>4. At(l, seq[l], Len(seq[l]) + 1) = Tail1(l) /\ \A x \in 0..(Len(seq[l]) + 1) : At(l, seq[l], x) \in Nodes
  BY <1>1, AtIs
<1>5. ASSUME NEW x \in Indices(l) PROVE x \in Nat /\ 1 <= x /\ x <= Len(seq[l]) + 1 /\ At(l, seq[l], x) \in Nodes /\ x \in 0..(Len(seq[l]) + 1)
  BY <1>1, <1>3, <1>4
<1>6. ASSUME NEW x \in Indices(l), At(l, seq[l], x) # Tail1(l) PROVE x \in 1..Len(seq[l])
  BY <1>1, <1>3, <1>4, <1>6
<1>7. ASSUME NEW x \in Indices(l), NEW y \in Indices(l), At(l, seq[l], x) = At(l, seq[l], y) PROVE x = y
  BY <1>1, <1>5, <1>7, AtOnce
<1>8. ASSUME NEW x \in 1..Len(seq[l]) PROVE x \in Indices(l) /\ x + 1 \in Indices(l) /\ next[At(l, seq[l], x)] = At(l, seq[l], x + 1)
  BY <1>1, <1>2, <1>3
<1> QED BY <1>1, <1>3, <1>5, <1>6, <1>7, <1>8

\* What is left to show for a step that list_sort takes.
LEMMA RunGoesOn ==
    ASSUME HeapInv', NEW S, seq' = S, NEW l \in List, NEW r \in Nat, NEW g \in Seq(Elem), NEW a \in Nodes,
           sort' = [at |-> "run", list |-> l, a0 |-> a, runs |-> r, given |-> g],
           NEW x \in 1..(Len(S[l]) + 1), a = At(l, S[l], x), ToSet(S[l]) = ToSet(g)
    PROVE  ListsInv'
<1>1. sort' \in [at : {"run"}, list : List, a0 : Nodes, runs : Nat, given : Seq(Elem)]
  OBVIOUS
<1>2. sort'.list = l /\ sort'.a0 = a /\ sort'.given = g
  OBVIOUS
<1>3. x \in Indices(sort.list)' /\ SortNode(x)' = a /\ SameElements'
  BY <1>2 DEF Indices, SortNode, SameElements
<1>4. SortInv'
  BY <1>1, <1>2, <1>3 DEF SortInv
<1> QED BY <1>4 DEF ListsInv

LEMMA MergeGoesOn ==
    ASSUME HeapInv', NEW S, seq' = S, NEW l \in List, NEW r \in Nat, NEW g \in Seq(Elem),
           NEW a \in Nodes, NEW b \in Nodes, NEW c \in Nodes,
           sort' = [at |-> "merge", list |-> l, a0 |-> a, a1b0 |-> b, b1 |-> c, runs |-> r, given |-> g],
           NEW x \in 1..(Len(S[l]) + 1), NEW y \in 1..(Len(S[l]) + 1), NEW z \in 1..(Len(S[l]) + 1),
           x <= y, y <= z, a = At(l, S[l], x), b = At(l, S[l], y), c = At(l, S[l], z), ToSet(S[l]) = ToSet(g)
    PROVE  ListsInv'
<1>1. sort' \in [at : {"merge"}, list : List, a0 : Nodes, a1b0 : Nodes, b1 : Nodes, runs : Nat, given : Seq(Elem)]
  OBVIOUS
<1>2. sort'.list = l /\ sort'.a0 = a /\ sort'.a1b0 = b /\ sort'.b1 = c /\ sort'.given = g
  OBVIOUS
<1>3. /\ x \in Indices(sort.list)' /\ y \in Indices(sort.list)' /\ z \in Indices(sort.list)'
      /\ SortNode(x)' = a /\ SortNode(y)' = b /\ SortNode(z)' = c /\ SameElements'
  BY <1>2 DEF Indices, SortNode, SameElements
<1>4. SortInv'
  BY <1>1, <1>2, <1>3 DEF SortInv
<1> QED BY <1>4 DEF ListsInv

LEMMA ListSort ==
    ASSUME ListsInv, NEW l \in List, list_sort(l)
    PROVE  ListsInv'
<1>1. HeapInv /\ seq[l] \in Seq(Elem) /\ Visited(heap, l) = seq[l] /\ Len(seq[l]) \in Nat
  BY SeqIs DEF ListsInv
<1>2. HeapInv' /\ seq' = seq
  BY <1>1, StaysAsItIs DEF list_sort
<1>3. next[Head1(l)] = At(l, seq[l], 1) /\ At(l, seq[l], 1) \in Nodes /\ 1 \in 1..(Len(seq[l]) + 1)
  BY <1>1, FirstPlace DEF Indices
<1>4. sort' = [at |-> "run", list |-> l, a0 |-> At(l, seq[l], 1), runs |-> 0, given |-> seq[l]]
  BY <1>1, <1>3 DEF list_sort
<1> QED BY <1>1, <1>2, <1>3, <1>4, RunGoesOn

LEMMA StepFindRuns ==
    ASSUME ListsInv, FindRuns
    PROVE  ListsInv'
<1>1. sort.at = "run" /\ UNCHANGED <<next, prev, value>>
  BY DEF FindRuns
<1>2. HeapInv /\ SortInv /\ sort # Idle
  BY <1>1 DEF ListsInv, Idle
<1>3. /\ sort \in [at : {"run"}, list : List, a0 : Nodes, runs : Nat, given : Seq(Elem)]
      /\ \E x \in Indices(sort.list) : sort.a0 = SortNode(x)
      /\ SameElements
  BY <1>1, <1>2 DEF SortInv
<1>4. PICK l \in List : l = sort.list
  BY <1>3
<1>5. PICK r \in Nat, g \in Seq(Elem), a \in Nodes : r = sort.runs /\ g = sort.given /\ a = sort.a0
  BY <1>3
<1>6. PICK x \in Indices(l) : a = At(l, seq[l], x)
  BY <1>3, <1>4, <1>5 DEF SortNode
<1>7. ToSet(seq[l]) = ToSet(g)
  BY <1>3, <1>4, <1>5 DEF SameElements
<1>8. HeapInv' /\ seq' = seq
  BY <1>1, <1>2, StaysAsItIs
<1> DEFINE b == find_end_of_run(l, a)
           c == find_end_of_run(l, b)
           again == [at |-> "run", list |-> l, a0 |-> next[Head1(l)], runs |-> 0, given |-> g]
           done == [at |-> "done", list |-> l, given |-> g]
           merge == [at |-> "merge", list |-> l, a0 |-> a, a1b0 |-> b, b1 |-> c, runs |-> r + 1, given |-> g]
           over == a = Tail1(l) \/ b = Tail1(l)
<1>9. over => sort' = again \/ sort' = done
  BY <1>4, <1>5 DEF FindRuns
<1>10. ~over => sort' = merge
  BY <1>4, <1>5 DEF FindRuns
<1>11. /\ \A i \in Indices(l) : At(l, seq[l], i) \in Nodes /\ i \in 1..(Len(seq[l]) + 1) /\ i \in Nat
       /\ \A i \in Indices(l) : At(l, seq[l], i) # Tail1(l) => i \in 1..Len(seq[l])
  BY <1>2, PlacesOf DEF Indices
<1>12. CASE sort' = again
  <2>1. next[Head1(l)] = At(l, seq[l], 1) /\ At(l, seq[l], 1) \in Nodes /\ 1 \in 1..(Len(seq[l]) + 1)
    BY <1>2, FirstPlace DEF Indices
  <2>2. sort' = [at |-> "run", list |-> l, a0 |-> At(l, seq[l], 1), runs |-> 0, given |-> g]
    BY <1>12, <2>1
  <2> QED BY <1>7, <1>8, <2>1, <2>2, RunGoesOn
<1>13. CASE sort' = done
  <2>1. sort' \in [at : {"done"}, list : List, given : Seq(Elem)] /\ sort'.list = l /\ sort'.given = g
    BY <1>13
  <2>2. SameElements'
    BY <1>7, <1>8, <2>1 DEF SameElements
  <2>3. SortInv'
    BY <2>1, <2>2 DEF SortInv
  <2> QED BY <1>8, <2>3 DEF ListsInv
<1> HIDE DEF b, c
<1>14. CASE ~over
  <2>1. x \in 1..Len(seq[l])
    BY <1>6, <1>11, <1>14
  <2>2. PICK y \in Indices(l) : x < y /\ b = At(l, seq[l], y)
    BY <1>2, <1>6, <2>1, EndOfRunIs DEF b
  <2>3. y \in 1..Len(seq[l])
    BY <1>11, <1>14, <2>2
  <2>4. PICK z \in Indices(l) : y < z /\ c = At(l, seq[l], z)
    BY <1>2, <2>2, <2>3, EndOfRunIs DEF c
  <2>5. /\ sort' = [at |-> "merge", list |-> l, a0 |-> a, a1b0 |-> b, b1 |-> c, runs |-> r + 1, given |-> g] /\ r + 1 \in Nat
        /\ x <= y /\ y <= z /\ x \in 1..(Len(seq[l]) + 1) /\ y \in 1..(Len(seq[l]) + 1) /\ z \in 1..(Len(seq[l]) + 1)
        /\ b \in Nodes /\ c \in Nodes
    BY <1>10, <1>11, <1>14, <2>2, <2>4
  <2> QED BY <1>6, <1>7, <1>8, <2>2, <2>4, <2>5, MergeGoesOn
<1> QED BY <1>9, <1>12, <1>13, <1>14

LEMMA StepMerge ==
    ASSUME ListsInv, Merge
    PROVE  ListsInv'
<1>1. sort.at = "merge"
  BY DEF Merge
<1>2. HeapInv /\ SortInv /\ sort # Idle
  BY <1>1 DEF ListsInv, Idle
<1>3. /\ sort \in [at : {"merge"}, list : List, a0 : Nodes, a1b0 : Nodes, b1 : Nodes, runs : Nat, given : Seq(Elem)]
      /\ \E x, y, z \in Indices(sort.list) :
             x <= y /\ y <= z /\ sort.a0 = SortNode(x) /\ sort.a1b0 = SortNode(y) /\ sort.b1 = SortNode(z)
      /\ SameElements
  BY <1>1, <1>2 DEF SortInv
<1>4. PICK l \in List : l = sort.list
  BY <1>3
<1>5. PICK r \in Nat, g \in Seq(Elem), a \in Nodes, b \in Nodes, c \in Nodes :
          r = sort.runs /\ g = sort.given /\ a = sort.a0 /\ b = sort.a1b0 /\ c = sort.b1
  BY <1>3
<1> DEFINE s == seq[l]
<1>6. PICK x \in Indices(l), y \in Indices(l), z \in Indices(l) :
          x <= y /\ y <= z /\ a = At(l, s, x) /\ b = At(l, s, y) /\ c = At(l, s, z)
  BY <1>3, <1>4, <1>5 DEF SortNode
<1>7. ToSet(s) = ToSet(g)
  BY <1>3, <1>4, <1>5 DEF SameElements
<1>8. sort = [at |-> "merge", list |-> l, a0 |-> a, a1b0 |-> b, b1 |-> c, runs |-> r, given |-> g]
  BY <1>3, <1>4, <1>5
<1>9. /\ \A i \in Indices(l) : i \in Nat /\ 1 <= i /\ i <= Len(s) + 1 /\ At(l, s, i) \in Nodes
      /\ \A i \in 1..Len(s) : i + 1 \in Indices(l) /\ next[At(l, s, i)] = At(l, s, i + 1)
      /\ \A i \in Indices(l) : i \in 1..(Len(s) + 1)
      /\ Len(s) \in Nat
  BY <1>2, PlacesOf DEF Indices
<1>10. s \in Seq(Elem)
  BY <1>2, SeqIs
<1> HIDE DEF s
<1>11. CASE a = b \/ b = c
  <2>1. sort' = [at |-> "run", list |-> l, a0 |-> c, runs |-> r, given |-> g] /\ UNCHANGED <<next, prev>>
    BY <1>4, <1>5, <1>11 DEF Merge
  <2>2. HeapInv' /\ seq' = seq
    BY <1>2, <2>1, StaysAsItIs
  <2>3. z \in 1..(Len(s) + 1)
    BY <1>9
  <2> QED BY <1>6, <1>7, <2>1, <2>2, <2>3, RunGoesOn DEF s
<1>12. CASE ~(a = b \/ b = c)
  <2>1. x < y /\ y < z /\ x \in 1..Len(s) /\ y \in 1..Len(s)
    <3>1. x # y /\ y # z
      BY <1>6, <1>12
    <3> QED BY <1>6, <1>9, <3>1
  <2>2. CASE ~less(b, a)
    <3>1. sort' = [sort EXCEPT !.a0 = next[@]] /\ UNCHANGED <<next, prev>>
      BY <1>4, <1>5, <1>12, <2>2 DEF Merge
    <3>2. next[a] = At(l, s, x + 1) /\ At(l, s, x + 1) \in Nodes /\ x + 1 \in 1..(Len(s) + 1) /\ x + 1 <= y
      BY <1>6, <1>9, <2>1
    <3>3. sort' = [at |-> "merge", list |-> l, a0 |-> At(l, s, x + 1), a1b0 |-> b, b1 |-> c, runs |-> r, given |-> g]
      BY <1>8, <3>1, <3>2
    <3>4. HeapInv' /\ seq' = seq
      BY <1>2, <3>1, StaysAsItIs
    <3>5. y \in 1..(Len(s) + 1) /\ z \in 1..(Len(s) + 1) /\ y <= z
      BY <1>6, <1>9
    <3> QED BY <1>6, <1>7, <3>2, <3>3, <3>4, <3>5, MergeGoesOn DEF s
  <2>3. CASE less(b, a)
    <3> DEFINE j == y + 1
               w == Without(s, y, y + 1)
               q == Part(s, y, y + 1)
               t == With(w, x, q)
               S == PasteOf(CutOf(seq, l, y, y + 1), l, x, q)
               h == splice(heap, a, b, next[b])
    <3>1. sort' = [sort EXCEPT !.a1b0 = next[@]] /\ next' = h.next /\ prev' = h.prev
      BY <1>4, <1>5, <1>12, <2>3 DEF Merge
    <3>2. next[b] = At(l, s, y + 1) /\ At(l, s, y + 1) \in Nodes /\ y + 1 \in 1..(Len(s) + 1) /\ y + 1 <= z
      BY <1>6, <1>9, <2>1
    <3>3. sort' = [at |-> "merge", list |-> l, a0 |-> a, a1b0 |-> At(l, s, y + 1), b1 |-> c, runs |-> r, given |-> g]
      BY <1>8, <3>1, <3>2
    <3>4. Holds(h, S)
      <4>1. /\ Holds(heap, seq) /\ l \in List /\ x \in 1..(Len(seq[l]) + 1) /\ y \in 1..(Len(seq[l]) + 1)
            /\ j \in y..(Len(seq[l]) + 1) /\ y < j /\ (l = l => x \notin y..(j - 1))
        BY <1>2, <1>9, <2>1 DEF HeapInv, s
      <4> HIDE DEF j
      <4>2. Holds(splice(heap, At(l, seq[l], x), At(l, seq[l], y), At(l, seq[l], j)),
                  PasteOf(CutOf(seq, l, y, j), l, Moved(l, l, y, j, x), Part(seq[l], y, j)))
        BY ONLY <4>1, SpliceKeeps
      <4>3. Moved(l, l, y, j, x) = x
        BY <1>9, <2>1 DEF Moved, j
      <4> QED BY <1>6, <3>2, <4>2, <4>3 DEF j, s
    <3>5. S[l] = t
      <4>1. seq \in [List -> Seq(Elem)]
        BY <1>2, SeqIs
      <4> QED BY <4>1 DEF PasteOf, CutOf, s
    <3>6. /\ t \in Seq(Elem) /\ Len(t) = Len(s) /\ ToSet(t) = ToSet(s) /\ At(l, t, x + 1) = At(l, s, x)
          /\ \A i \in (y + 1)..(Len(s) + 1) : At(l, t, i) = At(l, s, i)
      BY <1>10, <2>1, OneMoves
    <3> HIDE DEF S, h, t, w, q
    <3>7. HeapInv' /\ seq' = S
      BY <3>1, <3>4, Becomes
    <3>8. /\ x + 1 \in 1..(Len(t) + 1) /\ y + 1 \in 1..(Len(t) + 1) /\ z \in 1..(Len(t) + 1) /\ x + 1 <= y + 1 /\ y + 1 <= z
          /\ y + 1 \in (y + 1)..(Len(s) + 1) /\ z \in (y + 1)..(Len(s) + 1)
      BY <1>9, <2>1, <3>2, <3>6
    <3>9. a = At(l, t, x + 1) /\ At(l, s, y + 1) = At(l, t, y + 1) /\ c = At(l, t, z) /\ ToSet(t) = ToSet(g)
      BY <1>6, <1>7, <3>6, <3>8
    <3>10. sort' = [at |-> "merge", list |-> l, a0 |-> a, a1b0 |-> At(l, t, y + 1), b1 |-> c, runs |-> r, given |-> g]
           /\ At(l, t, y + 1) \in Nodes
      BY <3>2, <3>3, <3>9
    <3> QED BY <3>5, <3>7, <3>8, <3>9, <3>10, MergeGoesOn
  <2> QED BY <2>2, <2>3
<1> QED BY <1>11, <1>12

LEMMA NextKeepsLists == ListsInv /\ [ListsNext]_listVars => ListsInv'
<1> SUFFICES ASSUME ListsInv, [ListsNext]_listVars PROVE ListsInv'
  OBVIOUS
<1>1. CASE FindRuns
  BY <1>1, StepFindRuns
<1>2. CASE Merge
  BY <1>2, StepMerge
<1>3. CASE SortReturns
  <2>1. sort' = Idle /\ UNCHANGED <<next, prev>>
    BY <1>3 DEF SortReturns
  <2>2. HeapInv'
    BY <2>1, StaysAsItIs DEF ListsInv
  <2> QED BY <2>1, <2>2 DEF ListsInv, SortInv
<1>4. CASE \E e \in Elem : list_remove(e)
  BY <1>4, ListRemove
<1>5. ASSUME NEW l \in List, list_reverse(l) PROVE ListsInv'
  BY <1>5, ListReverse
<1>6. ASSUME NEW l \in List, list_sort(l) PROVE ListsInv'
  BY <1>6, ListSort
<1>7. ASSUME NEW l \in List, NEW e \in Elem, list_insert(l, e) \/ list_insert_ordered(l, e) PROVE ListsInv'
  BY <1>7, ListInsert, ListInsertOrdered
<1>8. ASSUME NEW l \in List, NEW m \in List, list_unique(l, m) \/ list_splice(l, m) PROVE ListsInv'
  BY <1>8, ListUnique, ListSplice
<1>9. CASE UNCHANGED listVars
  <2>1. UNCHANGED <<next, prev>> /\ sort' = sort
    BY <1>9 DEF listVars
  <2>2. HeapInv' /\ seq' = seq
    BY <2>1, StaysAsItIs DEF ListsInv
  <2>3. SortInv'
    BY <2>1, <2>2 DEF ListsInv, SortInv, SameElements, SortNode, Indices
  <2> QED BY <2>2, <2>3 DEF ListsInv
<1> QED BY <1>1, <1>2, <1>3, <1>4, <1>5, <1>6, <1>7, <1>8, <1>9 DEF ListsNext

LEMMA InvGivesLinks == ListsInv => ListsAreSequences
<1> SUFFICES ASSUME ListsInv PROVE ListsAreSequences
  OBVIOUS
<1>1. InsertedRight /\ RemovedRight /\ SplicedRight /\ ReversedRight
  BY CallsAreRight DEF ListsInv
<1>2. Linked(heap)
  BY HoldsGives DEF ListsInv, HeapInv
<1>3. sort # Idle => ToSet(seq[sort.list]) = ToSet(sort.given)
  BY DEF ListsInv, SortInv, SameElements
<1> QED BY <1>1, <1>2, <1>3 DEF ListsAreSequences

\* However long the lists and whatever is done to them in whatever order: a list has the same
\* elements read backwards as forwards, an insertion, a removal, a splice and a reversal change
\* the sequences as list.h says and no other, and list_sort, which moves one element at a
\* time, loses and repeats none on the way.
THEOREM ListLinks == ListsSpec => []ListsAreSequences
<1>1. ListsInit => ListsInv
  BY InitLists
<1>2. ListsInv /\ [ListsNext]_listVars => ListsInv'
  BY NextKeepsLists
<1> QED BY <1>1, <1>2, InvGivesLinks, PTL DEF ListsSpec
=============================================================================

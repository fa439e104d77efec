--------------------------- MODULE InodeRWProofs ---------------------------
(***************************************************************************)
(* Readers and writers of an inode exclude each other, and what they do    *)
(* appears at one moment: InodeRW implements AtomicFile, for any number of *)
(* threads and whatever the file, the sectors and the requests.            *)
(***************************************************************************)
EXTENDS InodeRWProperties, FiniteSetTheorems, SequenceTheorems, TLAPS

\* The readers that have been counted: those that are in, and the first one on
\* its way in.
Counted == {t \in Thread : pc[t] \in {"r_down", "reading", "r_leave"}}

Place == {"idle", "r_enter", "r_down", "reading", "r_leave",
          "w_down", "writing", "w_back", "w_up"}

SyncTypeOK ==
    /\ pc \in [Thread -> Place]
    /\ inode_sema \in SemaOf(Thread)
    /\ inode_lock_read_at \in Thread \cup {NoThread}

\* The lock is with the reader that waits for the semaphore on behalf of all.
LockInv ==
    /\ \A t \in Thread : pc[t] = "r_down" <=> inode_lock_read_at = t
    /\ inode_lock_read_at # NoThread => how_many_readers = 1

\* The one unit is in the semaphore exactly while nobody is inside.
UnitInv ==
    inode_sema.value = IF Reading = {} /\ Writing = {} THEN 1 ELSE 0

RWInv ==
    /\ SyncTypeOK
    /\ how_many_readers = Cardinality(Counted)
    /\ LockInv
    /\ UnitInv
    /\ Exclusive

-----------------------------------------------------------------------------
LEMMA CountedFinite == IsFiniteSet(Counted) /\ Cardinality(Counted) \in Nat
<1>1. Counted \subseteq Thread
  BY DEF Counted
<1> QED BY <1>1, InodeRWAssumption, FS_Subset, FS_CardinalityType

\* A reader that is still waiting for the semaphore is alone.
LEMMA FirstReaderAlone ==
    ASSUME RWInv, NEW t \in Thread, pc[t] = "r_down"
    PROVE  Counted = {t} /\ Reading = {} /\ how_many_readers = 1
<1>1. inode_lock_read_at = t /\ how_many_readers = 1
  BY InodeRWAssumption DEF RWInv, LockInv
<1>2. t \in Counted /\ Cardinality(Counted) = 1
  BY <1>1 DEF RWInv, Counted
<1>3. Cardinality(Counted \ {t}) = 0 /\ IsFiniteSet(Counted \ {t})
  BY <1>2, CountedFinite, FS_RemoveElement
<1>4. Counted \ {t} = {}
  BY <1>3, FS_EmptySet
<1> QED BY <1>1, <1>2, <1>4 DEF Counted, Reading

LEMMA RWInit == Init => RWInv
<1> SUFFICES ASSUME Init PROVE RWInv
  OBVIOUS
<1>1. Counted = {} /\ Reading = {} /\ Writing = {}
  BY DEF Init, Counted, Reading, Writing
<1>2. SyncTypeOK
  BY DEF Init, SyncTypeOK, Place, sema_init, SemaOf
<1>3. LockInv /\ UnitInv /\ Exclusive
  BY <1>1, InodeRWAssumption DEF Init, LockInv, UnitInv, Exclusive, sema_init
<1> QED BY <1>1, <1>2, <1>3, FS_EmptySet DEF RWInv, Init

\* A step that leaves a thread inside or outside as it is, and neither the
\* semaphore's unit nor the count changes.
LEMMA SameSide ==
    ASSUME RWInv, NEW t \in Thread, NEW there \in Place,
           pc' = [pc EXCEPT ![t] = there],
           \/ {pc[t], there} \subseteq {"idle", "r_enter", "w_down"}
           \/ {pc[t], there} \subseteq {"reading", "r_leave"}
           \/ {pc[t], there} \subseteq {"writing", "w_back", "w_up"}
           \/ pc[t] = "r_down" /\ there = "r_down",
           inode_sema' \in SemaOf(Thread), inode_sema'.value = inode_sema.value,
           inode_lock_read_at' = inode_lock_read_at,
           how_many_readers' = how_many_readers
    PROVE  RWInv'
<1> USE DEF RWInv, SyncTypeOK
<1>1. Counted' = Counted /\ Reading' = Reading /\ Writing' = Writing
  BY DEF Counted, Reading, Writing
<1>2. LockInv'
  BY DEF LockInv
<1>3. SyncTypeOK'
  OBVIOUS
<1>4. UnitInv' /\ Exclusive'
  BY <1>1 DEF UnitInv, Exclusive
<1> QED BY <1>1, <1>2, <1>3, <1>4

LEMMA RWNext == RWInv /\ [Next]_vars => RWInv'
<1> SUFFICES ASSUME RWInv, [Next]_vars PROVE RWInv'
  OBVIOUS
<1> USE DEF syncVars, copyVars
<1>t. SyncTypeOK
  BY DEF RWInv
<1>1. ASSUME NEW t \in Thread, Call(t) PROVE RWInv'
  <2>1. PICK there \in {"r_enter", "w_down"} : pc' = [pc EXCEPT ![t] = there]
    BY <1>1 DEF Call, Goto
  <2> QED BY <1>1, <2>1, <1>t, SameSide DEF Call, At, Place, SyncTypeOK
<1>2. ASSUME NEW t \in Thread, ReadEnter(t) PROVE RWInv'
  <2>1. /\ pc[t] = "r_enter" /\ inode_lock_read_at = NoThread
        /\ how_many_readers' = how_many_readers + 1 /\ inode_sema' = inode_sema
    BY <1>2 DEF ReadEnter, At
  <2>2. \A u \in Thread : pc[u] # "r_down"
    BY <2>1, InodeRWAssumption DEF RWInv, LockInv
  <2>3. how_many_readers = Cardinality(Counted) /\ Counted = Reading /\ t \notin Counted
    BY <2>1, <2>2 DEF RWInv, Counted, Reading
  <2>4. CASE how_many_readers = 0
    <3>1. inode_lock_read_at' = t /\ pc' = [pc EXCEPT ![t] = "r_down"]
      BY <1>2, <2>4 DEF ReadEnter, Goto
    <3>2. Counted' = Counted \cup {t} /\ Reading' = Reading /\ Writing' = Writing
      BY <2>1, <3>1, <1>t DEF Counted, Reading, Writing, SyncTypeOK
    <3>3. Cardinality(Counted') = 1
      <4>1. Cardinality(Counted \cup {t}) = Cardinality(Counted) + 1
        BY <2>3, CountedFinite, FS_AddElement
      <4> QED BY <2>3, <2>4, <3>2, <4>1
    <3>4. SyncTypeOK'
      BY <2>1, <3>1, <1>t DEF SyncTypeOK, Place
    <3>5. LockInv'
      BY <2>1, <2>2, <2>4, <3>1, <1>t, InodeRWAssumption DEF LockInv, SyncTypeOK
    <3>6. UnitInv' /\ Exclusive'
      BY <2>1, <3>2 DEF UnitInv, Exclusive, RWInv
    <3> QED BY <2>1, <2>4, <3>3, <3>4, <3>5, <3>6 DEF RWInv
  <2>5. CASE how_many_readers # 0
    <3>1. inode_lock_read_at' = NoThread /\ pc' = [pc EXCEPT ![t] = "reading"]
      BY <1>2, <2>1, <2>5 DEF ReadEnter, Goto
    <3>2. Counted' = Counted \cup {t} /\ Reading' = Reading \cup {t} /\ Writing' = Writing
      BY <2>1, <3>1, <1>t DEF Counted, Reading, Writing, SyncTypeOK
    <3>3. Cardinality(Counted') = how_many_readers + 1
      BY <2>3, <3>2, CountedFinite, FS_AddElement
    <3>4. Reading # {}
      BY <2>3, <2>5, FS_EmptySet
    <3>5. SyncTypeOK'
      BY <2>1, <3>1, <1>t DEF SyncTypeOK, Place
    <3>6. LockInv'
      BY <2>1, <2>2, <3>1, <1>t, InodeRWAssumption DEF LockInv, SyncTypeOK
    <3>7. UnitInv' /\ Exclusive'
      BY <2>1, <3>2, <3>4 DEF UnitInv, Exclusive, RWInv
    <3> QED BY <2>1, <3>3, <3>5, <3>6, <3>7 DEF RWInv
  <2> QED BY <2>4, <2>5
<1>3. ASSUME NEW t \in Thread, ReadDown(t) PROVE RWInv'
  <2>1. pc[t] = "r_down" /\ how_many_readers' = how_many_readers
    BY <1>3 DEF ReadDown, At
  <2>2. CASE Down(t) /\ UNCHANGED <<inode_lock_read_at, pc>>
    <3>1. inode_sema' \in SemaOf(Thread) /\ inode_sema'.value = inode_sema.value
      <4>1. inode_sema \in SemaOf(Thread) /\ inode_sema' = SemaQueue(inode_sema, t)
        BY <1>t, <2>2 DEF Down, SyncTypeOK
      <4> QED BY ONLY t \in Thread, <4>1 DEF SemaQueue, SemaOf
    <3>2. pc' = [pc EXCEPT ![t] = "r_down"]
      BY <2>1, <2>2, <1>t DEF SyncTypeOK
    <3> QED BY <2>1, <2>2, <3>1, <3>2, SameSide DEF Place
  <2>3. CASE /\ inode_sema.value > 0
             /\ inode_sema' = SemaTake(inode_sema)
             /\ inode_lock_read_at' = NoThread
             /\ pc' = [pc EXCEPT ![t] = "reading"]
    <3>1. Counted = {t} /\ Reading = {} /\ how_many_readers = 1
      BY <2>1, FirstReaderAlone
    <3>2. Writing = {} /\ inode_sema.value = 1
      BY <2>3, <1>t DEF RWInv, UnitInv
    <3>3. Counted' = Counted /\ Reading' = {t} /\ Writing' = {}
      BY <2>1, <2>3, <3>1, <3>2, <1>t DEF Counted, Reading, Writing, SyncTypeOK
    <3>4. SyncTypeOK' /\ inode_sema'.value = 0
      BY <2>3, <3>2, <1>t DEF SyncTypeOK, Place, SemaTake, SemaOf
    <3>5. LockInv'
      BY <2>3, <3>1, <1>t, InodeRWAssumption DEF LockInv, SyncTypeOK, Counted
    <3>6. UnitInv' /\ Exclusive'
      BY <3>3, <3>4 DEF UnitInv, Exclusive
    <3> QED BY <2>1, <3>3, <3>4, <3>5, <3>6 DEF RWInv
  <2> QED BY <1>3, <2>2, <2>3 DEF ReadDown, Goto
<1>4. ASSUME NEW t \in Thread, ReadChunk(t) PROVE RWInv'
  <2>1. pc[t] = "reading" /\ pc' = [pc EXCEPT ![t] = "reading"]
    BY <1>4, <1>t DEF ReadChunk, At, SyncTypeOK
  <2> QED BY <1>4, <2>1, <1>t, SameSide DEF ReadChunk, Place, SyncTypeOK
<1>5. ASSUME NEW t \in Thread, ReadEnd(t) PROVE RWInv'
  BY <1>5, <1>t, SameSide DEF ReadEnd, At, Goto, Place, SyncTypeOK
<1>6. ASSUME NEW t \in Thread, ReadLeave(t) PROVE RWInv'
  <2>1. /\ pc[t] = "r_leave" /\ inode_lock_read_at = NoThread
        /\ inode_lock_read_at' = NoThread
        /\ how_many_readers' = how_many_readers - 1
        /\ pc' = [pc EXCEPT ![t] = "idle"]
    BY <1>6 DEF ReadLeave, At, Return, Goto
  <2>2. \A u \in Thread : pc[u] # "r_down"
    BY <2>1, InodeRWAssumption DEF RWInv, LockInv
  <2>3. /\ how_many_readers = Cardinality(Counted) /\ Counted = Reading
        /\ t \in Counted /\ Writing = {}
    BY <2>1, <2>2 DEF RWInv, Counted, Reading, Writing, Exclusive
  <2>4. Counted' = Counted \ {t} /\ Reading' = Reading \ {t} /\ Writing' = {}
    BY <2>1, <2>3, <1>t DEF Counted, Reading, Writing, SyncTypeOK
  <2>5. /\ Cardinality(Counted') = how_many_readers - 1
        /\ IsFiniteSet(Counted') /\ Cardinality(Counted') \in Nat
    BY <2>3, <2>4, CountedFinite, FS_RemoveElement, FS_CardinalityType
  <2>6. LockInv'
    BY <2>1, <2>2, <1>t, InodeRWAssumption DEF LockInv, SyncTypeOK
  <2>7. Exclusive'
    BY <2>4 DEF Exclusive
  <2>8. inode_sema.value = 0
    BY <2>3 DEF RWInv, UnitInv
  <2>9. SyncTypeOK' /\ UnitInv'
    <3>1. CASE how_many_readers = 1
      <4>1. inode_sema' = SemaUp(inode_sema)
        BY <1>6, <3>1 DEF ReadLeave
      <4>2. inode_sema' \in SemaOf(Thread) /\ inode_sema'.value = 1
        BY <4>1, <2>8, <1>t DEF SemaUp, SemaOf, SyncTypeOK
      <4>3. Counted' = {}
        BY <2>5, <3>1, FS_EmptySet
      <4> QED BY <2>1, <2>3, <2>4, <4>2, <4>3, <1>t DEF SyncTypeOK, UnitInv, Place
    <3>2. CASE how_many_readers # 1
      <4>1. inode_sema' = inode_sema
        BY <1>6, <3>2 DEF ReadLeave
      <4>2. Counted' # {}
        BY <2>3, <2>5, <3>2, CountedFinite, FS_EmptySet
      <4> QED BY <2>1, <2>3, <2>4, <2>8, <4>1, <4>2, <1>t DEF SyncTypeOK, UnitInv, Place
    <3> QED BY <3>1, <3>2
  <2> QED BY <2>1, <2>5, <2>6, <2>7, <2>9 DEF RWInv
<1>7. ASSUME NEW t \in Thread, WriteDown(t) PROVE RWInv'
  <2>1. /\ pc[t] = "w_down" /\ how_many_readers' = how_many_readers
        /\ inode_lock_read_at' = inode_lock_read_at
    BY <1>7 DEF WriteDown, At
  <2>2. CASE Down(t) /\ pc' = pc
    <3>1. inode_sema' \in SemaOf(Thread) /\ inode_sema'.value = inode_sema.value
      <4>1. inode_sema \in SemaOf(Thread) /\ inode_sema' = SemaQueue(inode_sema, t)
        BY <1>t, <2>2 DEF Down, SyncTypeOK
      <4> QED BY ONLY t \in Thread, <4>1 DEF SemaQueue, SemaOf
    <3>2. pc' = [pc EXCEPT ![t] = "w_down"]
      BY <2>1, <2>2, <1>t DEF SyncTypeOK
    <3> QED BY <2>1, <3>1, <3>2, SameSide DEF Place
  <2>3. CASE /\ inode_sema.value > 0
             /\ inode_sema' = SemaTake(inode_sema)
             /\ pc' = [pc EXCEPT ![t] = "writing"]
    <3>1. Reading = {} /\ Writing = {} /\ inode_sema.value = 1
      BY <2>3, <1>t DEF RWInv, UnitInv
    <3>2. Counted' = Counted /\ Reading' = {} /\ Writing' = {t}
      BY <2>1, <2>3, <3>1, <1>t DEF Counted, Reading, Writing, SyncTypeOK
    <3>3. SyncTypeOK' /\ inode_sema'.value = 0
      BY <2>1, <2>3, <3>1, <1>t DEF SyncTypeOK, Place, SemaTake, SemaOf
    <3>4. LockInv'
      BY <2>1, <2>3, <1>t DEF LockInv, SyncTypeOK, RWInv
    <3>5. UnitInv' /\ Exclusive'
      BY <3>2, <3>3 DEF UnitInv, Exclusive
    <3> QED BY <2>1, <3>2, <3>3, <3>4, <3>5 DEF RWInv
  <2> QED BY <1>7, <2>2, <2>3 DEF WriteDown, Goto
<1>8. ASSUME NEW t \in Thread, WriteFull(t) PROVE RWInv'
  <2>1. pc[t] = "writing" /\ pc' = [pc EXCEPT ![t] = "writing"]
    BY <1>8, <1>t DEF WriteFull, At, SyncTypeOK
  <2> QED BY <1>8, <2>1, <1>t, SameSide DEF WriteFull, Place, SyncTypeOK
<1>9. ASSUME NEW t \in Thread, WriteFetch(t) PROVE RWInv'
  BY <1>9, <1>t, SameSide DEF WriteFetch, At, Goto, Place, SyncTypeOK
<1>10. ASSUME NEW t \in Thread, WriteBack(t) PROVE RWInv'
  BY <1>10, <1>t, SameSide DEF WriteBack, At, Goto, Place, SyncTypeOK
<1>11. ASSUME NEW t \in Thread, WriteEnd(t) PROVE RWInv'
  BY <1>11, <1>t, SameSide DEF WriteEnd, At, Goto, Place, SyncTypeOK
<1>12. ASSUME NEW t \in Thread, WriteUp(t) PROVE RWInv'
  <2>1. /\ pc[t] = "w_up" /\ how_many_readers' = how_many_readers
        /\ inode_lock_read_at' = inode_lock_read_at
        /\ inode_sema' = SemaUp(inode_sema)
        /\ pc' = [pc EXCEPT ![t] = "idle"]
    BY <1>12 DEF WriteUp, At, Return, Goto
  <2>2. Reading = {} /\ Writing = {t} /\ inode_sema.value = 0
    BY <2>1 DEF RWInv, Exclusive, UnitInv, Writing
  <2>3. Counted' = Counted /\ Reading' = {} /\ Writing' = {}
    BY <2>1, <2>2, <1>t DEF Counted, Reading, Writing, SyncTypeOK
  <2>4. SyncTypeOK' /\ inode_sema'.value = 1
    BY <2>1, <2>2, <1>t DEF SyncTypeOK, Place, SemaUp, SemaOf
  <2>5. LockInv'
    BY <2>1, <1>t DEF LockInv, SyncTypeOK, RWInv
  <2>6. UnitInv' /\ Exclusive'
    BY <2>3, <2>4 DEF UnitInv, Exclusive
  <2> QED BY <2>1, <2>3, <2>4, <2>5, <2>6 DEF RWInv
<1>13. CASE UNCHANGED vars
  <2>1. Counted' = Counted /\ Reading' = Reading /\ Writing' = Writing
    BY <1>13 DEF vars, Counted, Reading, Writing
  <2> QED
    BY <1>13, <2>1 DEF vars, RWInv, SyncTypeOK, LockInv, UnitInv, Exclusive
<1> QED
  BY <1>1, <1>2, <1>3, <1>4, <1>5, <1>6, <1>7, <1>8, <1>9, <1>10, <1>11, <1>12,
     <1>13 DEF Next, Step

\* No reader is inside together with a writer and no two writers are, for any
\* number of threads.
THEOREM ReadersExcludeWriters == Spec => []Exclusive
<1>1. RWInv => Exclusive
  BY DEF RWInv
<1> QED BY RWInit, RWNext, <1>1, PTL DEF Spec

\* The lock of the count is never held across sema_down by a reader whom
\* readers inside would have to wait for when they leave.
THEOREM LockOnlyWhenEmptyHolds == Spec => []LockOnlyWhenEmpty
<1>1. RWInv => LockOnlyWhenEmpty
  <2> SUFFICES ASSUME RWInv, inode_lock_read_at # NoThread
               PROVE  Reading = {} /\ how_many_readers = 1
    BY DEF LockOnlyWhenEmpty
  <2>1. pc[inode_lock_read_at] = "r_down" /\ inode_lock_read_at \in Thread
    BY DEF RWInv, LockInv, SyncTypeOK
  <2> QED BY <2>1, FirstReaderAlone
<1> QED BY RWInit, RWNext, <1>1, PTL DEF Spec

-----------------------------------------------------------------------------
(* Reads and writes are atomic                                             *)

\* What a thread was asked for, by where it is.
RequestOK(t) ==
    /\ pc[t] = "idle" => request[t] = NoRequest
    /\ pc[t] \in {"r_enter", "r_down", "reading", "r_leave"}
         => request[t] \in Requests /\ request[t].kind = "read"
    /\ pc[t] \in {"w_down", "writing", "w_back", "w_up"}
         => request[t] \in Requests /\ request[t].kind = "write"

\* Only an operation that is inside has moved bytes: no more than it was asked
\* for, and none behind the end of the file.
MovedOK(t) ==
    /\ pc[t] \in {"idle", "r_enter", "r_down", "w_down"} => done[t] = 0
    /\ pc[t] \in {"idle", "r_enter", "r_down"} => buffer[t] = <<>>
    /\ done[t] <= request[t].size
    /\ done[t] = 0 \/ request[t].offset + done[t] <= Length

\* What a reader has copied is in the file.
Copy(t) == [i \in 1..done[t] |-> data[request[t].offset + i - 1]]
ReadOK(t) == pc[t] = "reading" => buffer[t] = Copy(t)

\* The file as the write found it, but for the bytes written.
Overwritten(t) ==
    [i \in Position |->
        IF request[t].offset <= i /\ i < request[t].offset + done[t]
        THEN request[t].byte ELSE before[i]]
WriteOK(t) == pc[t] \in {"writing", "w_back"} => data = Overwritten(t)

\* The copy of a sector that is about to be written back.
Changed(t) ==
    [i \in Position |-> IF i \in Chunk(t) THEN request[t].byte ELSE data[i]]
BounceOK(t) ==
    pc[t] = "w_back" => size(t) > 0 /\ chunk_size(t) > 0 /\ bounce[t] = Changed(t)

ThreadOK(t) ==
    RequestOK(t) /\ MovedOK(t) /\ ReadOK(t) /\ WriteOK(t) /\ BounceOK(t)

CopyTypeOK ==
    /\ data \in Content
    /\ request \in [Thread -> Request]
    /\ done \in [Thread -> Nat]
    /\ buffer \in [Thread -> Seq(Byte \cup {0})]
    /\ bounce \in [Thread -> Content]

CopyInv == CopyTypeOK /\ \A t \in Thread : ThreadOK(t)

-----------------------------------------------------------------------------
LEMMA LeastOfThree ==
    ASSUME NEW a \in Int, NEW b \in Int, NEW c \in Int
    PROVE  LET m == Least({a, b, c})
           IN  m \in {a, b, c} /\ m <= a /\ m <= b /\ m <= c
<1>1. \E n \in {a, b, c} : \A m \in {a, b, c} : n <= m
  <2>1. CASE a <= b /\ a <= c
    BY <2>1
  <2>2. CASE b <= a /\ b <= c
    BY <2>2
  <2>3. CASE c <= a /\ c <= b
    BY <2>3
  <2> QED BY <2>1, <2>2, <2>3
<1>2. /\ Least({a, b, c}) \in {a, b, c}
      /\ \A m \in {a, b, c} : Least({a, b, c}) <= m
  BY <1>1 DEF Least
<1> QED BY <1>2

\* A part of a sector that starts in it and fits into what is left of it.
LEMMA SameSector ==
    ASSUME NEW s \in Nat \ {0}, NEW a \in Nat, NEW i \in Nat,
           a <= i, i < a + (s - (a % s))
    PROVE  i \div s = a \div s
<1> DEFINE q == a \div s
           r == a % s
<1>1. q \in Int /\ r \in Int /\ 0 <= r /\ r < s /\ a = s * q + r
  OBVIOUS
<1>2. s * q <= i /\ i < s * q + s
  <2>1. i < a + (s - r)
    OBVIOUS
  <2>2. s * q \in Int
    BY <1>1
  <2> HIDE DEF q, r
  <2> QED BY <1>1, <2>1, <2>2
<1>3. \E p \in Int, k \in Int : p = i \div s /\ k = i % s /\ 0 <= k /\ k < s /\ i = s * p + k
  OBVIOUS
<1>4. PICK p \in Int, k \in Int : p = i \div s /\ 0 <= k /\ k < s /\ i = s * p + k
  BY <1>3
<1> HIDE DEF q, r
<1>5. s * (p - q) < s /\ s * (q - p) < s
  BY <1>1, <1>2, <1>4
<1>6. p = q
  BY <1>1, <1>4, <1>5
<1> QED BY <1>4, <1>6 DEF q

\* A sequence copied from a function, continued from where it ends.
LEMMA CopyOn ==
    ASSUME NEW S, NEW f, NEW o \in Nat, NEW n \in Nat, NEW c \in Nat,
           \A i \in 1..n + c : f[o + i - 1] \in S
    PROVE  [i \in 1..n |-> f[o + i - 1]] \o [i \in 1..c |-> f[(o + n) + i - 1]]
             = [i \in 1..n + c |-> f[o + i - 1]]
<1> DEFINE x == [i \in 1..n |-> f[o + i - 1]]
           y == [i \in 1..c |-> f[(o + n) + i - 1]]
           z == [i \in 1..n + c |-> f[o + i - 1]]
<1>1. \A i \in 1..n : x[i] = f[o + i - 1] /\ i \in 1..n + c
  OBVIOUS
<1>2. \A i \in 1..c : y[i] = z[n + i] /\ n + i \in 1..n + c
  <2> TAKE i \in 1..c
  <2>1. (o + n) + i - 1 = o + (n + i) - 1 /\ n + i \in 1..n + c
    OBVIOUS
  <2> QED BY <2>1
<1>3. \A i \in 1..n + c : z[i] = f[o + i - 1] /\ z[i] \in S
  OBVIOUS
<1>4. x \in [1..n -> S] /\ y \in [1..c -> S] /\ z \in [1..n + c -> S]
  <2>1. x \in [1..n -> S]
    BY <1>1
  <2>2. \A i \in 1..c : y[i] \in S
    BY <1>2, <1>3
  <2> QED BY <2>1, <2>2, <1>3
<1>5. \A i \in 1..n : x[i] = z[i]
  BY <1>1, <1>3
<1> HIDE DEF x, y, z
<1>6. /\ x \in Seq(S) /\ Len(x) = n
      /\ y \in Seq(S) /\ Len(y) = c
      /\ z \in Seq(S) /\ Len(z) = n + c
  <2>1. \A m \in Nat : [1..m -> S] \subseteq Seq(S)
    BY SeqDef
  <2>2. x \in Seq(S) /\ y \in Seq(S) /\ z \in Seq(S)
    BY <1>4, <2>1
  <2> QED BY <1>4, <2>2, LenProperties
<1>7. /\ x \o y \in Seq(S) /\ Len(x \o y) = n + c
      /\ \A i \in 1..n + c : (x \o y)[i] = IF i <= n THEN x[i] ELSE y[i - n]
  BY <1>6, ConcatProperties
<1>8. \A i \in 1..n + c : (x \o y)[i] = z[i]
  <2> TAKE i \in 1..n + c
  <2>1. CASE i <= n
    BY <2>1, <1>5, <1>7
  <2>2. CASE ~(i <= n)
    <3>1. i - n \in 1..c /\ n + (i - n) = i
      BY <2>2
    <3> QED BY <2>2, <3>1, <1>2, <1>7
  <2> QED BY <2>1, <2>2
<1>9. x \o y = z
  BY <1>6, <1>7, <1>8, SeqEqual
<1> QED BY <1>9 DEF x, y, z

-----------------------------------------------------------------------------
\* The loop variables: a transfer moves no more than what is left of the
\* request, of the file and of the sector.
LEMMA ChunkBounds ==
    ASSUME CopyTypeOK, NEW t \in Thread
    PROVE  /\ offset(t) \in Nat /\ size(t) \in Int /\ inode_left(t) \in Int
           /\ sector_left(t) \in 1..SectorSize /\ sector_left(t) \in Int
           /\ chunk_size(t) \in {size(t), inode_left(t), sector_left(t)}
           /\ chunk_size(t) \in Int
           /\ chunk_size(t) <= size(t) /\ chunk_size(t) <= inode_left(t)
           /\ chunk_size(t) <= sector_left(t)
<1>1. /\ request[t].offset \in Nat /\ request[t].size \in Nat
      /\ done[t] \in Nat
  BY DEF CopyTypeOK, Request
<1>2. offset(t) \in Nat /\ size(t) \in Int
  BY <1>1 DEF offset, size
<1>3. inode_left(t) \in Int
  BY <1>2, InodeRWAssumption DEF inode_left
<1>4. sector_left(t) \in 1..SectorSize
  <2>1. SectorSize \in Nat \ {0}
    BY InodeRWAssumption
  <2>2. sector_ofs(t) \in 0..SectorSize - 1
    BY <2>1, <1>2 DEF sector_ofs
  <2> QED BY <2>1, <2>2 DEF sector_left
<1>5. sector_left(t) \in Int
  BY <1>4, InodeRWAssumption
<1> QED BY <1>2, <1>3, <1>4, <1>5, LeastOfThree DEF chunk_size

\* What one transfer moves lies in one sector.
LEMMA ChunkInSector ==
    ASSUME CopyTypeOK, NEW t \in Thread
    PROVE  Chunk(t) \subseteq Sector(t)
<1> SUFFICES ASSUME NEW i \in Position, offset(t) <= i, i < offset(t) + chunk_size(t)
             PROVE  i \div SectorSize = offset(t) \div SectorSize
  BY DEF Chunk, Sector
<1>1. /\ offset(t) \in Nat /\ i \in Nat /\ SectorSize \in Nat \ {0}
      /\ i \in Int /\ chunk_size(t) \in Int /\ sector_left(t) \in Int
      /\ chunk_size(t) <= sector_left(t)
  BY ChunkBounds, InodeRWAssumption DEF Position
<1>2. i < offset(t) + sector_left(t)
  BY <1>1
<1>3. i < offset(t) + (SectorSize - (offset(t) % SectorSize))
  BY <1>2 DEF sector_left, sector_ofs
<1> QED BY <1>1, <1>3, SameSector

\* When the loop ends, the operation has moved the part of the request that
\* lies within the file, or less if there was no bounce buffer.
LEMMA FinishedCount ==
    ASSUME CopyTypeOK, NEW t \in Thread, MovedOK(t), Finished(t)
    PROVE  done[t] \in IF MallocFails THEN 0..File!Most(request[t])
                       ELSE {File!Most(request[t])}
<1> DEFINE o == request[t].offset
           s == request[t].size
           d == done[t]
<1>1. o \in Nat /\ s \in Nat /\ d \in Nat /\ Length \in Nat
  BY InodeRWAssumption DEF CopyTypeOK, Request
<1>2. d <= s /\ (d = 0 \/ o + d <= Length)
  BY DEF MovedOK
<1>3. \/ s = d
      \/ Length <= o + d
      \/ MallocFails
  <2>1. CASE size(t) = 0
    BY <2>1, <1>1 DEF size
  <2>2. CASE chunk_size(t) <= 0
    <3>1. \/ chunk_size(t) = size(t) \/ chunk_size(t) = inode_left(t)
          \/ chunk_size(t) = sector_left(t)
      BY ChunkBounds
    <3>2. sector_left(t) \in 1..SectorSize /\ SectorSize \in Nat
      BY ChunkBounds, InodeRWAssumption
    <3>3. size(t) = s - d /\ inode_left(t) = Length - (o + d)
      BY DEF size, inode_left, offset
    <3> HIDE DEF o, s, d
    <3> QED BY <2>2, <3>1, <3>2, <3>3, <1>1, <1>2
  <2>3. CASE NoBounce(t)
    BY <2>3 DEF NoBounce
  <2> QED BY <2>1, <2>2, <2>3 DEF Finished
<1>4. File!Most(request[t]) = CASE o >= Length     -> 0
                                [] o + s <= Length -> s
                                [] OTHER           -> Length - o
  BY DEF File!Most
<1> HIDE DEF o, s
<1>5. CASE o >= Length
  <2>0. o + s <= Length => s = 0
    BY <1>1, <1>5
  <2>1. File!Most(request[t]) = 0
    BY <2>0, <1>4, <1>5
  <2> HIDE DEF d
  <2>2. d = 0
    BY <1>1, <1>2, <1>5
  <2> QED BY <2>1, <2>2 DEF d
<1>6. CASE o + s <= Length /\ ~(o >= Length)
  <2>1. File!Most(request[t]) = s
    BY <1>4, <1>6
  <2> HIDE DEF d
  <2>2. d \in 0..s /\ (s = d \/ MallocFails)
    BY <1>1, <1>2, <1>3, <1>6
  <2> QED BY <2>1, <2>2 DEF d
<1>7. CASE ~(o + s <= Length) /\ ~(o >= Length)
  <2>1. File!Most(request[t]) = Length - o
    BY <1>4, <1>7
  <2> HIDE DEF d
  <2>2. d \in 0..Length - o /\ (d = Length - o \/ MallocFails)
    BY <1>1, <1>2, <1>3, <1>7
  <2> QED BY <2>1, <2>2 DEF d
<1> QED BY <1>5, <1>6, <1>7

-----------------------------------------------------------------------------
\* A thread to which nothing has happened, while the file stays as it is if
\* the thread is using it.
LEMMA Undisturbed ==
    ASSUME NEW u \in Thread, ThreadOK(u),
           pc'[u] = pc[u], request'[u] = request[u], done'[u] = done[u],
           buffer'[u] = buffer[u], bounce'[u] = bounce[u],
           pc[u] \in {"reading", "writing", "w_back"} => data' = data,
           pc[u] \in {"writing", "w_back"} => before' = before
    PROVE  ThreadOK(u)'
<1>1. RequestOK(u)' /\ MovedOK(u)'
  BY DEF ThreadOK, RequestOK, MovedOK
<1>2. ReadOK(u)'
  <2> SUFFICES ASSUME pc[u] = "reading" PROVE buffer[u] = Copy(u)'
    BY DEF ReadOK
  <2>1. Copy(u)' = Copy(u)
    BY DEF Copy
  <2> QED BY <2>1 DEF ThreadOK, ReadOK
<1>3. WriteOK(u)'
  <2> SUFFICES ASSUME pc[u] \in {"writing", "w_back"} PROVE data = Overwritten(u)'
    BY DEF WriteOK
  <2>1. Overwritten(u)' = Overwritten(u)
    BY DEF Overwritten
  <2> QED BY <2>1 DEF ThreadOK, WriteOK
<1>4. BounceOK(u)'
  <2> SUFFICES ASSUME pc[u] = "w_back"
               PROVE  /\ size(u)' > 0 /\ chunk_size(u)' > 0
                      /\ bounce[u] = Changed(u)'
    BY DEF BounceOK
  <2>1. offset(u)' = offset(u) /\ size(u)' = size(u)
    BY DEF offset, size
  <2>2. chunk_size(u)' = chunk_size(u)
    BY <2>1 DEF chunk_size, inode_left, sector_left, sector_ofs
  <2>3. Chunk(u)' = Chunk(u)
    BY <2>1, <2>2 DEF Chunk
  <2>4. Changed(u)' = Changed(u)
    BY <2>3 DEF Changed
  <2> QED BY <2>1, <2>2, <2>4 DEF ThreadOK, BounceOK
<1> QED BY <1>1, <1>2, <1>3, <1>4 DEF ThreadOK

\* The variables a thread has for itself are left alone by the others.
LEMMA OthersLeftAlone ==
    ASSUME CopyTypeOK, SyncTypeOK, NEW t \in Thread, Call(t) \/ Step(t),
           NEW u \in Thread, u # t
    PROVE  /\ pc'[u] = pc[u] /\ request'[u] = request[u] /\ done'[u] = done[u]
           /\ buffer'[u] = buffer[u] /\ bounce'[u] = bounce[u]
<1> USE DEF CopyTypeOK, SyncTypeOK, copyVars, Goto
<1>1. CASE Call(t)
  BY <1>1 DEF Call
<1>2. CASE ReadEnter(t)
  BY <1>2 DEF ReadEnter
<1>3. CASE ReadDown(t)
  BY <1>3 DEF ReadDown
<1>4. CASE ReadChunk(t)
  BY <1>4 DEF ReadChunk
<1>5. CASE ReadEnd(t)
  BY <1>5 DEF ReadEnd
<1>6. CASE ReadLeave(t)
  BY <1>6 DEF ReadLeave, Return
<1>7. CASE WriteDown(t)
  BY <1>7 DEF WriteDown
<1>8. CASE WriteFull(t)
  BY <1>8 DEF WriteFull
<1>9. CASE WriteFetch(t)
  BY <1>9 DEF WriteFetch
<1>10. CASE WriteBack(t)
  BY <1>10 DEF WriteBack
<1>11. CASE WriteEnd(t)
  BY <1>11 DEF WriteEnd
<1>12. CASE WriteUp(t)
  BY <1>12 DEF WriteUp, Return
<1> QED BY <1>1, <1>2, <1>3, <1>4, <1>5, <1>6, <1>7, <1>8, <1>9, <1>10, <1>11,
           <1>12 DEF Step

\* A thread that gets the semaphore finds nobody inside.
LEMMA NobodyInside ==
    ASSUME RWInv, inode_sema.value > 0 PROVE Reading = {} /\ Writing = {}
BY DEF RWInv, UnitInv

\* While a thread uses the file, no other one changes it.
LEMMA FileLeftAlone ==
    ASSUME RWInv, NEW t \in Thread, Call(t) \/ Step(t),
           NEW u \in Thread, u # t
    PROVE  /\ pc[u] \in {"reading", "writing", "w_back"} => data' = data
           /\ pc[u] \in {"writing", "w_back"} => before' = before
<1> USE DEF copyVars
<1>1. Exclusive
  BY DEF RWInv
<1>2. CASE WriteFull(t) \/ WriteBack(t)
  <2>1. t \in Writing
    BY <1>2 DEF WriteFull, WriteBack, At, Writing
  <2> QED BY <1>1, <2>1 DEF Exclusive, Reading, Writing
<1>3. CASE WriteUp(t)
  <2>1. t \in Writing /\ data' = data
    BY <1>3 DEF WriteUp, At, Writing, Return
  <2> QED BY <1>1, <2>1 DEF Exclusive, Reading, Writing
<1>4. CASE ReadLeave(t)
  <2>1. t \in Reading /\ data' = data
    BY <1>4 DEF ReadLeave, At, Reading, Return
  <2> QED BY <1>1, <2>1 DEF Exclusive, Reading, Writing
<1>5. CASE WriteDown(t)
  <2>1. CASE inode_sema.value > 0
    BY <2>1, <1>5, NobodyInside DEF WriteDown, Writing
  <2>2. CASE ~(inode_sema.value > 0)
    BY <2>2, <1>5 DEF WriteDown
  <2> QED BY <2>1, <2>2, <1>5 DEF WriteDown
<1>6. CASE Call(t) \/ ReadEnter(t) \/ ReadDown(t) \/ ReadChunk(t) \/ ReadEnd(t)
           \/ WriteFetch(t) \/ WriteEnd(t)
  BY <1>6 DEF Call, ReadEnter, ReadDown, ReadChunk, ReadEnd, WriteFetch, WriteEnd
<1> QED BY <1>2, <1>3, <1>4, <1>5, <1>6 DEF Step

LEMMA OthersOK ==
    ASSUME RWInv, CopyInv, NEW t \in Thread, Call(t) \/ Step(t),
           NEW u \in Thread, u # t
    PROVE  ThreadOK(u)'
<1>1. CopyTypeOK /\ SyncTypeOK /\ ThreadOK(u)
  BY DEF CopyInv, RWInv
<1>2. /\ pc'[u] = pc[u] /\ request'[u] = request[u] /\ done'[u] = done[u]
      /\ buffer'[u] = buffer[u] /\ bounce'[u] = bounce[u]
  BY <1>1, OthersLeftAlone
<1>3. /\ pc[u] \in {"reading", "writing", "w_back"} => data' = data
      /\ pc[u] \in {"writing", "w_back"} => before' = before
  BY FileLeftAlone
<1> QED BY <1>1, <1>2, <1>3, Undisturbed

-----------------------------------------------------------------------------
LEMMA RequestsType == Requests \subseteq Request
BY InodeRWAssumption DEF Requests, Request

LEMMA CopyInit == Init => CopyInv
<1> SUFFICES ASSUME Init PROVE CopyInv
  OBVIOUS
<1>1. Empty \in Content /\ <<>> \in Seq(Byte \cup {0}) /\ NoRequest \in Request
  BY DEF Empty, Content, NoRequest, Request
<1>2. CopyTypeOK
  BY <1>1 DEF Init, CopyTypeOK
<1>3. ASSUME NEW t \in Thread PROVE ThreadOK(t)
  <2>1. pc[t] = "idle" /\ request[t] = NoRequest /\ done[t] = 0 /\ buffer[t] = <<>>
    BY DEF Init
  <2> QED BY <2>1 DEF ThreadOK, RequestOK, MovedOK, ReadOK, WriteOK, BounceOK, NoRequest
<1> QED BY <1>2, <1>3 DEF CopyInv

\* What a transfer or a return leaves of the types.
LEMMA CopyTypeNext ==
    ASSUME RWInv, CopyInv, NEW t \in Thread, Call(t) \/ Step(t)
    PROVE  CopyTypeOK'
<1>t. CopyTypeOK /\ SyncTypeOK
  BY DEF CopyInv, RWInv
<1> DEFINE k == chunk_size(t)
           Value == Byte \cup {0}
<1>b. k \in Int /\ request[t].byte \in Value /\ offset(t) \in Nat
  BY <1>t, ChunkBounds DEF CopyTypeOK, Request
<1>1. CASE Call(t)
  BY <1>1, <1>t, RequestsType DEF Call, copyVars, CopyTypeOK
<1>2. CASE ReadEnter(t) \/ ReadDown(t) \/ ReadEnd(t) \/ WriteDown(t) \/ WriteEnd(t)
  BY <1>2, <1>t DEF ReadEnter, ReadDown, ReadEnd, WriteDown, WriteEnd, copyVars,
                    CopyTypeOK
<1>3. CASE ReadLeave(t) \/ WriteUp(t)
  <2>1. Empty \in Content /\ <<>> \in Seq(Value) /\ NoRequest \in Request
    BY DEF Empty, Content, NoRequest, Request
  <2>2. Return(t)
    BY <1>3 DEF ReadLeave, WriteUp
  <2>3. data' \in Content /\ done' \in [Thread -> Nat]
    BY <2>2, <1>t DEF Return, CopyTypeOK
  <2>4. request' \in [Thread -> Request]
    BY <2>1, <2>2, <1>t DEF Return, CopyTypeOK
  <2>5. buffer' \in [Thread -> Seq(Value)]
    BY <2>1, <2>2, <1>t DEF Return, CopyTypeOK
  <2>6. bounce' \in [Thread -> Content]
    BY <2>1, <2>2, <1>t DEF Return, CopyTypeOK
  <2> QED BY <2>3, <2>4, <2>5, <2>6 DEF CopyTypeOK
<1>4. CASE ReadChunk(t)
  <2> DEFINE moved == [i \in 1..k |-> data[offset(t) + i - 1]]
  <2>1. k > 0 /\ k <= inode_left(t)
    BY <1>4, <1>t, ChunkBounds DEF ReadChunk
  <2>2. \A i \in 1..k : data[offset(t) + i - 1] \in Value
    <3> TAKE i \in 1..k
    <3>1. offset(t) + i - 1 \in Position
      BY <1>b, <2>1, InodeRWAssumption DEF inode_left, Position
    <3> QED BY <3>1, <1>t DEF CopyTypeOK, Content
  <2>3. moved \in Seq(Value)
    <3>1. moved \in [1..k -> Value] /\ k \in Nat
      BY <2>1, <2>2, <1>b
    <3> HIDE DEF moved, k, Value
    <3> QED BY <3>1, SeqDef
  <2> HIDE DEF moved
  <2>4. buffer[t] \in Seq(Value)
    BY <1>t DEF CopyTypeOK
  <2>5. buffer[t] \o moved \in Seq(Value)
    BY <2>3, <2>4, ConcatProperties
  <2>6. buffer' = [buffer EXCEPT ![t] = buffer[t] \o moved]
    BY <1>4 DEF ReadChunk, moved
  <2>7. done[t] + k \in Nat /\ done' = [done EXCEPT ![t] = done[t] + k]
    BY <1>4, <1>b, <1>t, <2>1 DEF ReadChunk, CopyTypeOK
  <2>8. data' = data /\ request' = request /\ bounce' = bounce
    BY <1>4 DEF ReadChunk
  <2> HIDE DEF k
  <2> QED BY <1>t, <2>5, <2>6, <2>7, <2>8 DEF CopyTypeOK
<1>5. CASE WriteFull(t)
  <2>1. k \in Nat
    BY <1>5, <1>b, InodeRWAssumption DEF WriteFull, Full
  <2>2. data' \in Content
    BY <1>5, <1>b, <1>t DEF WriteFull, Content, CopyTypeOK
  <2>3. done' \in [Thread -> Nat]
    BY <1>5, <2>1, <1>t DEF WriteFull, CopyTypeOK
  <2>4. request' = request /\ buffer' = buffer /\ bounce' = bounce
    BY <1>5 DEF WriteFull
  <2> QED BY <1>t, <2>2, <2>3, <2>4 DEF CopyTypeOK
<1>6. CASE WriteFetch(t)
  <2> DEFINE copy == Changed(t)
  <2>1. copy \in Content
    BY <1>b, <1>t DEF Content, CopyTypeOK, Changed
  <2>2. bounce' = [bounce EXCEPT ![t] = copy]
    BY <1>6 DEF WriteFetch, Changed
  <2> HIDE DEF copy
  <2> QED BY <1>6, <1>t, <2>1, <2>2 DEF WriteFetch, CopyTypeOK
<1>7. CASE WriteBack(t)
  <2>1. pc[t] = "w_back" /\ ThreadOK(t)
    BY <1>7 DEF WriteBack, At, CopyInv
  <2>2. k \in Nat
    BY <2>1, <1>b DEF ThreadOK, BounceOK
  <2>3. data' \in Content
    BY <1>7, <1>t DEF WriteBack, Content, CopyTypeOK
  <2>4. done' \in [Thread -> Nat]
    BY <1>7, <2>2, <1>t DEF WriteBack, CopyTypeOK
  <2>5. request' = request /\ buffer' = buffer /\ bounce' = bounce
    BY <1>7 DEF WriteBack
  <2> QED BY <1>t, <2>3, <2>4, <2>5 DEF CopyTypeOK
<1> QED BY <1>1, <1>2, <1>3, <1>4, <1>5, <1>6, <1>7 DEF Step

\* The transfers themselves: what a reader has copied stays what is in the
\* file, and the file what the write found but for the bytes written.
LEMMA ReadChunkOK ==
    ASSUME RWInv, CopyInv, NEW t \in Thread, ReadChunk(t) PROVE ThreadOK(t)'
<1>t. CopyTypeOK /\ SyncTypeOK /\ ThreadOK(t)
  BY DEF CopyInv, RWInv
<1> DEFINE k == chunk_size(t)
           o == request[t].offset
           n == done[t]
           moved == [i \in 1..k |-> data[offset(t) + i - 1]]
<1>1. /\ pc[t] = "reading" /\ pc'[t] = "reading" /\ request'[t] = request[t]
      /\ data' = data
      /\ done'[t] = n + k /\ buffer'[t] = buffer[t] \o moved
  BY <1>t DEF ReadChunk, At, CopyTypeOK
<1>2. /\ o \in Nat /\ n \in Nat /\ request[t].size \in Nat /\ Length \in Nat
      /\ k \in Int /\ k > 0 /\ k <= size(t) /\ k <= inode_left(t)
      /\ offset(t) = o + n
  BY <1>t, ChunkBounds, InodeRWAssumption DEF ReadChunk, CopyTypeOK, Request, offset
<1>3. n + k <= request[t].size /\ o + (n + k) <= Length
  BY <1>2 DEF size, inode_left
<1>4. RequestOK(t)' /\ MovedOK(t)'
  <2> HIDE DEF o, n, k, moved
  <2>1. RequestOK(t)'
    BY <1>1, <1>t DEF ThreadOK, RequestOK
  <2>2. MovedOK(t)'
    BY <1>1, <1>3 DEF MovedOK, o
  <2> QED BY <2>1, <2>2
<1>5. buffer'[t] = Copy(t)'
  <2>1. buffer[t] = [i \in 1..n |-> data[o + i - 1]]
    BY <1>1, <1>t DEF ThreadOK, ReadOK, Copy
  <2>2. moved = [i \in 1..k |-> data[(o + n) + i - 1]]
    BY <1>2
  <2>3. Copy(t)' = [i \in 1..n + k |-> data[o + i - 1]]
    BY <1>1 DEF Copy
  <2>4. \A i \in 1..n + k : data[o + i - 1] \in Byte \cup {0}
    <3> TAKE i \in 1..n + k
    <3> HIDE DEF o, n, k, moved
    <3>1. o + i - 1 \in Position
      BY <1>2, <1>3 DEF Position
    <3> QED BY <3>1, <1>t DEF CopyTypeOK, Content
  <2>5. k \in Nat
    BY <1>2
  <2> HIDE DEF o, n, k, moved
  <2> QED BY <1>1, <1>2, <2>1, <2>2, <2>3, <2>4, <2>5, CopyOn
<1> QED BY <1>1, <1>4, <1>5 DEF ThreadOK, ReadOK, WriteOK, BounceOK

LEMMA WriteFullOK ==
    ASSUME RWInv, CopyInv, NEW t \in Thread, WriteFull(t) PROVE ThreadOK(t)'
<1>t. CopyTypeOK /\ SyncTypeOK /\ ThreadOK(t)
  BY DEF CopyInv, RWInv
<1> DEFINE k == chunk_size(t)
           o == request[t].offset
           n == done[t]
<1>1. /\ pc[t] = "writing" /\ pc'[t] = "writing" /\ request'[t] = request[t]
      /\ before' = before /\ done'[t] = n + k /\ k = SectorSize
      /\ data' = [i \in Position |->
                    IF i \in Chunk(t) THEN request[t].byte ELSE data[i]]
  BY <1>t DEF WriteFull, At, CopyTypeOK, Full
<1>2. /\ o \in Nat /\ n \in Nat /\ request[t].size \in Nat /\ Length \in Nat
      /\ k \in Int /\ k > 0 /\ k <= size(t) /\ k <= inode_left(t)
      /\ offset(t) = o + n
  BY <1>t, <1>1, ChunkBounds, InodeRWAssumption DEF CopyTypeOK, Request, offset
<1>3. n + k <= request[t].size /\ o + (n + k) <= Length
  BY <1>2 DEF size, inode_left
<1>4. RequestOK(t)' /\ MovedOK(t)'
  <2> HIDE DEF o, n, k
  <2>1. RequestOK(t)'
    BY <1>1, <1>t DEF ThreadOK, RequestOK
  <2>2. MovedOK(t)'
    BY <1>1, <1>3 DEF MovedOK, o
  <2> QED BY <2>1, <2>2
<1>5. data' = Overwritten(t)'
  <2>1. data = Overwritten(t)
    BY <1>1, <1>t DEF ThreadOK, WriteOK
  <2>2. Overwritten(t)' = [i \in Position |->
                             IF o <= i /\ i < o + (n + k)
                             THEN request[t].byte ELSE before[i]]
    BY <1>1 DEF Overwritten
  <2>3. \A i \in Position :
          data[i] = IF o <= i /\ i < o + n THEN request[t].byte ELSE before[i]
    BY <2>1 DEF Overwritten
  <2>4. \A i \in Position : i \in Chunk(t) <=> o + n <= i /\ i < o + n + k
    BY <1>2 DEF Chunk
  <2>5. \A i \in Position :
          (IF i \in Chunk(t) THEN request[t].byte ELSE data[i])
            = IF o <= i /\ i < o + (n + k) THEN request[t].byte ELSE before[i]
    <3> TAKE i \in Position
    <3>1. i \in Int
      BY InodeRWAssumption DEF Position
    <3> HIDE DEF o, n, k
    <3> QED BY <1>2, <3>1, <2>3, <2>4
  <2> HIDE DEF o, n, k
  <2> QED BY <1>1, <2>2, <2>5
<1> QED BY <1>1, <1>4, <1>5 DEF ThreadOK, ReadOK, WriteOK, BounceOK

LEMMA WriteFetchOK ==
    ASSUME RWInv, CopyInv, NEW t \in Thread, WriteFetch(t) PROVE ThreadOK(t)'
<1>t. CopyTypeOK /\ SyncTypeOK /\ ThreadOK(t)
  BY DEF CopyInv, RWInv
<1>1. /\ pc[t] = "writing" /\ pc'[t] = "w_back" /\ request'[t] = request[t]
      /\ data' = data /\ before' = before /\ done'[t] = done[t]
      /\ bounce'[t] = Changed(t) /\ size(t) > 0 /\ chunk_size(t) > 0
  BY <1>t DEF WriteFetch, At, Goto, CopyTypeOK, SyncTypeOK, Changed
<1>2. RequestOK(t)' /\ MovedOK(t)'
  BY <1>1, <1>t DEF ThreadOK, RequestOK, MovedOK
<1>3. data' = Overwritten(t)'
  <2>1. Overwritten(t)' = Overwritten(t)
    BY <1>1 DEF Overwritten
  <2> QED BY <1>1, <1>t, <2>1 DEF ThreadOK, WriteOK
<1>4. size(t)' > 0 /\ chunk_size(t)' > 0 /\ bounce'[t] = Changed(t)'
  <2>1. offset(t)' = offset(t) /\ size(t)' = size(t)
    BY <1>1 DEF offset, size
  <2>2. chunk_size(t)' = chunk_size(t)
    BY <2>1 DEF chunk_size, inode_left, sector_left, sector_ofs
  <2>3. Chunk(t)' = Chunk(t)
    BY <2>1, <2>2 DEF Chunk
  <2>4. Changed(t)' = Changed(t)
    BY <1>1, <2>3 DEF Changed
  <2> QED BY <1>1, <2>1, <2>2, <2>4
<1> QED BY <1>1, <1>2, <1>3, <1>4 DEF ThreadOK, ReadOK, WriteOK, BounceOK

LEMMA WriteBackOK ==
    ASSUME RWInv, CopyInv, NEW t \in Thread, WriteBack(t) PROVE ThreadOK(t)'
<1>t. CopyTypeOK /\ SyncTypeOK /\ ThreadOK(t)
  BY DEF CopyInv, RWInv
<1> DEFINE k == chunk_size(t)
           o == request[t].offset
           n == done[t]
<1>1. /\ pc[t] = "w_back" /\ pc'[t] = "writing" /\ request'[t] = request[t]
      /\ before' = before /\ done'[t] = n + k
      /\ data' = [i \in Position |-> IF i \in Sector(t) THEN bounce[t][i] ELSE data[i]]
  BY <1>t DEF WriteBack, At, Goto, CopyTypeOK, SyncTypeOK
<1>2. /\ o \in Nat /\ n \in Nat /\ request[t].size \in Nat /\ Length \in Nat
      /\ k \in Int /\ k > 0 /\ k <= size(t) /\ k <= inode_left(t)
      /\ offset(t) = o + n
  BY <1>t, <1>1, ChunkBounds, InodeRWAssumption
     DEF CopyTypeOK, Request, offset, ThreadOK, BounceOK
<1>3. n + k <= request[t].size /\ o + (n + k) <= Length
  BY <1>2 DEF size, inode_left
<1>4. RequestOK(t)' /\ MovedOK(t)'
  <2> HIDE DEF o, n, k
  <2>1. RequestOK(t)'
    BY <1>1, <1>t DEF ThreadOK, RequestOK
  <2>2. MovedOK(t)'
    BY <1>1, <1>3 DEF MovedOK, o
  <2> QED BY <2>1, <2>2
<1>5. data' = Overwritten(t)'
  <2>1. data = Overwritten(t) /\ bounce[t] = Changed(t)
    BY <1>1, <1>t DEF ThreadOK, WriteOK, BounceOK
  <2>2. Overwritten(t)' = [i \in Position |->
                             IF o <= i /\ i < o + (n + k)
                             THEN request[t].byte ELSE before[i]]
    BY <1>1 DEF Overwritten
  <2>3. \A i \in Position :
          /\ data[i] = IF o <= i /\ i < o + n THEN request[t].byte ELSE before[i]
          /\ bounce[t][i] = IF i \in Chunk(t) THEN request[t].byte ELSE data[i]
    BY <2>1 DEF Overwritten, Changed
  <2>4. \A i \in Position : i \in Chunk(t) <=> o + n <= i /\ i < o + n + k
    BY <1>2 DEF Chunk
  <2>5. Chunk(t) \subseteq Sector(t)
    BY <1>t, ChunkInSector
  <2>6. \A i \in Position :
          (IF i \in Sector(t) THEN bounce[t][i] ELSE data[i])
            = IF o <= i /\ i < o + (n + k) THEN request[t].byte ELSE before[i]
    <3> TAKE i \in Position
    <3>1. i \in Int
      BY InodeRWAssumption DEF Position
    <3>2. (IF i \in Sector(t) THEN bounce[t][i] ELSE data[i])
            = IF i \in Chunk(t) THEN request[t].byte ELSE data[i]
      BY <2>3, <2>5
    <3> HIDE DEF o, n, k
    <3> QED BY <1>2, <3>1, <3>2, <2>3, <2>4
  <2> HIDE DEF o, n, k
  <2> QED BY <1>1, <2>2, <2>6
<1> QED BY <1>1, <1>4, <1>5 DEF ThreadOK, ReadOK, WriteOK, BounceOK

LEMMA ThreadNext ==
    ASSUME RWInv, CopyInv, NEW t \in Thread, Call(t) \/ Step(t)
    PROVE  ThreadOK(t)'
<1>t. CopyTypeOK /\ SyncTypeOK /\ ThreadOK(t)
  BY DEF CopyInv, RWInv
<1> USE DEF copyVars, At, Goto
<1>1. CASE Call(t)
  <2>1. PICK r \in Requests :
          /\ request' = [request EXCEPT ![t] = r]
          /\ pc' = [pc EXCEPT ![t] = IF r.kind = "read" THEN "r_enter" ELSE "w_down"]
    BY <1>1 DEF Call
  <2>2. r.kind \in {"read", "write"} /\ r.size \in Nat
    BY RequestsType DEF Request
  <2>3. /\ request'[t] = r /\ done'[t] = 0 /\ buffer'[t] = <<>>
        /\ pc'[t] = IF r.kind = "read" THEN "r_enter" ELSE "w_down"
    BY <1>1, <1>t, <2>1 DEF Call, CopyTypeOK, SyncTypeOK, ThreadOK, MovedOK
  <2> QED BY <2>2, <2>3 DEF ThreadOK, RequestOK, MovedOK, ReadOK, WriteOK, BounceOK
<1>2. CASE ReadEnter(t) \/ ReadDown(t)
  <2>1. /\ pc[t] \in {"r_enter", "r_down"} /\ pc'[t] \in {"r_down", "reading"}
        /\ request'[t] = request[t] /\ done'[t] = done[t] /\ buffer'[t] = buffer[t]
    BY <1>2, <1>t DEF ReadEnter, ReadDown, SyncTypeOK
  <2>2. RequestOK(t)' /\ MovedOK(t)' /\ done'[t] = 0 /\ buffer'[t] = <<>>
    BY <2>1, <1>t DEF ThreadOK, RequestOK, MovedOK
  <2>3. buffer'[t] = Copy(t)'
    BY <2>2 DEF Copy
  <2> QED BY <2>1, <2>2, <2>3 DEF ThreadOK, ReadOK, WriteOK, BounceOK
<1>3. CASE ReadEnd(t)
  <2>1. /\ pc[t] = "reading" /\ pc'[t] = "r_leave"
        /\ request'[t] = request[t] /\ done'[t] = done[t]
    BY <1>3, <1>t DEF ReadEnd, SyncTypeOK
  <2> QED BY <2>1, <1>t
          DEF ThreadOK, RequestOK, MovedOK, ReadOK, WriteOK, BounceOK
<1>4. CASE ReadLeave(t) \/ WriteUp(t)
  <2>1. /\ pc'[t] = "idle" /\ request'[t] = NoRequest /\ done'[t] = 0
        /\ buffer'[t] = <<>>
    BY <1>4, <1>t DEF ReadLeave, WriteUp, Return, SyncTypeOK, CopyTypeOK
  <2> QED BY <2>1
          DEF ThreadOK, RequestOK, MovedOK, ReadOK, WriteOK, BounceOK, NoRequest
<1>5. CASE WriteDown(t)
  <2>1. /\ pc[t] = "w_down" /\ request'[t] = request[t] /\ done'[t] = done[t]
        /\ buffer'[t] = buffer[t] /\ data' = data
        /\ pc'[t] = "w_down" \/ (pc'[t] = "writing" /\ before' = data)
    BY <1>5, <1>t DEF WriteDown, SyncTypeOK
  <2>2. RequestOK(t)' /\ MovedOK(t)' /\ done'[t] = 0
    BY <2>1, <1>t DEF ThreadOK, RequestOK, MovedOK
  <2>3. ASSUME before' = data PROVE data' = Overwritten(t)'
    <3>1. \A i \in Position :
            (IF request[t].offset <= i /\ i < request[t].offset + 0
             THEN request[t].byte ELSE data[i]) = data[i]
      <4>1. request[t].offset \in Nat /\ Position \subseteq Int
        BY <1>t, InodeRWAssumption DEF CopyTypeOK, Request, Position
      <4> QED BY <4>1
    <3>2. Overwritten(t)' = [i \in Position |->
                               IF request[t].offset <= i /\ i < request[t].offset + 0
                               THEN request[t].byte ELSE data[i]]
      BY <2>1, <2>2, <2>3 DEF Overwritten
    <3>3. data = [i \in Position |-> data[i]]
      BY <1>t DEF CopyTypeOK, Content
    <3> QED BY <2>1, <3>1, <3>2, <3>3
  <2> QED BY <2>1, <2>2, <2>3 DEF ThreadOK, ReadOK, WriteOK, BounceOK
<1>6. CASE WriteEnd(t)
  <2>1. /\ pc[t] = "writing" /\ pc'[t] = "w_up"
        /\ request'[t] = request[t] /\ done'[t] = done[t]
    BY <1>6, <1>t DEF WriteEnd, SyncTypeOK
  <2> QED BY <2>1, <1>t
          DEF ThreadOK, RequestOK, MovedOK, ReadOK, WriteOK, BounceOK
<1> QED BY <1>1, <1>2, <1>3, <1>4, <1>5, <1>6, ReadChunkOK, WriteFullOK,
           WriteFetchOK, WriteBackOK DEF Step

LEMMA CopyNext == RWInv /\ CopyInv /\ [Next]_vars => CopyInv'
<1> SUFFICES ASSUME RWInv, CopyInv, [Next]_vars PROVE CopyInv'
  OBVIOUS
<1>1. CASE Next
  <2>1. PICK t \in Thread : Call(t) \/ Step(t)
    BY <1>1 DEF Next
  <2>2. \A u \in Thread : ThreadOK(u)'
    <3> TAKE u \in Thread
    <3> QED BY <2>1, OthersOK, ThreadNext
  <2> QED BY <2>1, <2>2, CopyTypeNext DEF CopyInv
<1>2. CASE UNCHANGED vars
  <2>1. CopyTypeOK'
    BY <1>2 DEF vars, copyVars, CopyInv, CopyTypeOK
  <2>2. \A u \in Thread : ThreadOK(u)'
    <3> TAKE u \in Thread
    <3>1. ThreadOK(u)
      BY DEF CopyInv
    <3> QED BY <1>2, <3>1, Undisturbed DEF vars, copyVars
  <2> QED BY <2>1, <2>2 DEF CopyInv
<1> QED BY <1>1, <1>2

-----------------------------------------------------------------------------
\* The refinement mapping.
Seen == IF \E t \in Thread : pc[t] \in {"writing", "w_back"} THEN before ELSE data
StateOf(here) ==
    CASE here = "idle" -> "idle"
      [] here \in {"r_leave", "w_up"} -> "done"
      [] OTHER -> "pending"
State == [t \in Thread |-> StateOf(pc[t])]
Count == [t \in Thread |-> IF pc[t] \in {"r_leave", "w_up"} THEN done[t] ELSE 0]
Got == [t \in Thread |-> IF pc[t] = "r_leave" THEN buffer[t] ELSE <<>>]

LEMMA States ==
    /\ StateOf("idle") = "idle"
    /\ \A h \in {"r_leave", "w_up"} : StateOf(h) = "done"
    /\ \A h \in {"r_enter", "r_down", "reading", "w_down", "writing", "w_back"} :
         StateOf(h) = "pending"
BY DEF StateOf

\* A step that the abstract file does not see.
LEMMA Unseen ==
    ASSUME Seen' = Seen, State' = State, request' = request, Count' = Count,
           Got' = Got
    PROVE  UNCHANGED File!fileVars
BY DEF File!fileVars, Seen, State, StateOf, Count, Got

LEMMA FileInitOK == Init => File!FileInit
<1> SUFFICES ASSUME Init PROVE File!FileInit
  OBVIOUS
<1>1. \A t \in Thread : pc[t] = "idle"
  BY DEF Init
<1> QED BY <1>1 DEF Init, File!FileInit, Empty, Position

\* A step changes what is seen of the thread that takes it.
LEMMA Mapped ==
    ASSUME CopyTypeOK, SyncTypeOK, NEW t \in Thread, Call(t) \/ Step(t)
    PROVE  /\ State' = [State EXCEPT ![t] = StateOf(pc'[t])]
           /\ Count' = [Count EXCEPT ![t] =
                          IF pc'[t] \in {"r_leave", "w_up"} THEN done'[t] ELSE 0]
           /\ Got' = [Got EXCEPT ![t] =
                        IF pc'[t] = "r_leave" THEN buffer'[t] ELSE <<>>]
<1>1. \A u \in Thread : u # t => /\ pc'[u] = pc[u] /\ done'[u] = done[u]
                                 /\ buffer'[u] = buffer[u]
  BY OthersLeftAlone
<1>2. State' = [State EXCEPT ![t] = StateOf(pc'[t])]
  BY <1>1 DEF State, StateOf
<1>3. Count' = [Count EXCEPT ![t] =
                  IF pc'[t] \in {"r_leave", "w_up"} THEN done'[t] ELSE 0]
  BY <1>1 DEF Count
<1>4. Got' = [Got EXCEPT ![t] = IF pc'[t] = "r_leave" THEN buffer'[t] ELSE <<>>]
  BY <1>1 DEF Got
<1> QED BY <1>2, <1>3, <1>4

\* What is seen of the file changes when a write ends, and then it is the file.
LEMMA SeenNext ==
    ASSUME RWInv, CopyInv, NEW t \in Thread, Call(t) \/ Step(t)
    PROVE  /\ ~WriteEnd(t) => Seen' = Seen
           /\ WriteEnd(t) => Seen = before /\ Seen' = data
           /\ ReadEnd(t) => Seen = data
<1>t. CopyTypeOK /\ SyncTypeOK /\ Exclusive
  BY DEF CopyInv, RWInv
<1> DEFINE Inside == {"writing", "w_back"}
<1> USE DEF copyVars, At, Goto
<1>o. \A u \in Thread : u # t => pc'[u] = pc[u]
  BY <1>t, OthersLeftAlone
<1>1. CASE Call(t) \/ ReadEnter(t) \/ ReadDown(t) \/ ReadChunk(t)
  <2>1. /\ pc[t] \notin Inside /\ pc'[t] \notin Inside
        /\ data' = data /\ before' = before /\ pc[t] # "writing"
    BY <1>1, <1>t DEF Call, ReadEnter, ReadDown, ReadChunk, SyncTypeOK
  <2>2. Seen' = Seen
    BY <2>1, <1>o DEF Seen
  <2>3. (~WriteEnd(t) /\ ~ReadEnd(t)) \/ ReadChunk(t)
    BY <1>1 DEF Call, ReadEnter, ReadDown, WriteEnd, ReadEnd
  <2>4. CASE ReadChunk(t)
    <3>1. t \in Reading /\ ~WriteEnd(t)
      BY <2>1, <2>4 DEF Reading, ReadChunk, WriteEnd
    <3>2. Seen = data
      BY <3>1, <1>t DEF Exclusive, Writing, Seen
    <3> QED BY <2>2, <3>1, <3>2
  <2> QED BY <2>2, <2>3, <2>4
<1>2. CASE ReadEnd(t) \/ ReadLeave(t)
  <2>1. /\ t \in Reading /\ pc[t] \notin Inside /\ pc'[t] \notin Inside
        /\ data' = data /\ pc[t] # "writing"
    BY <1>2, <1>t DEF ReadEnd, ReadLeave, Return, SyncTypeOK, Reading
  <2>2. \A u \in Thread : pc[u] \notin Inside
    BY <2>1, <1>t DEF Exclusive, Writing
  <2>3. \A u \in Thread : pc'[u] \notin Inside
    BY <2>1, <2>2, <1>o
  <2>4. Seen = data /\ Seen' = data
    BY <2>1, <2>2, <2>3 DEF Seen
  <2> QED BY <2>1, <2>4 DEF WriteEnd
<1>3. CASE WriteDown(t)
  <2>1. pc[t] = "w_down" /\ data' = data /\ ~WriteEnd(t) /\ ~ReadEnd(t)
    BY <1>3 DEF WriteDown, WriteEnd, ReadEnd
  <2>2. CASE before' = before /\ pc' = pc
    BY <2>1, <2>2 DEF Seen
  <2>3. CASE inode_sema.value > 0 /\ before' = data /\ pc'[t] = "writing"
    <3>1. \A u \in Thread : pc[u] \notin Inside
      BY <2>3, NobodyInside DEF Writing
    <3> QED BY <2>1, <2>3, <3>1 DEF Seen
  <2> QED BY <1>3, <1>t, <2>2, <2>3 DEF WriteDown, SyncTypeOK
<1>4. CASE WriteFull(t) \/ WriteFetch(t) \/ WriteBack(t)
  <2>1. /\ pc[t] \in Inside /\ pc'[t] \in Inside /\ before' = before
        /\ pc[t] # "reading"
    BY <1>4, <1>t DEF WriteFull, WriteFetch, WriteBack, SyncTypeOK
  <2>2. Seen = before /\ Seen' = before
    BY <2>1 DEF Seen
  <2>3. ~WriteEnd(t)
    BY <1>4, <1>t, <2>1 DEF WriteEnd, SyncTypeOK
  <2> QED BY <2>1, <2>2, <2>3 DEF ReadEnd
<1>5. CASE WriteEnd(t) \/ WriteUp(t)
  <2>1. /\ t \in Writing /\ pc'[t] \notin Inside /\ data' = data
        /\ pc[t] # "reading" /\ (WriteEnd(t) <=> pc[t] = "writing")
    BY <1>5, <1>t DEF WriteEnd, WriteUp, Return, Writing, SyncTypeOK
  <2>2. \A u \in Thread : u # t => pc[u] \notin Inside
    BY <2>1, <1>t DEF Exclusive, Writing
  <2>3. \A u \in Thread : pc'[u] \notin Inside
    BY <2>1, <2>2, <1>o
  <2>4. Seen' = data
    BY <2>1, <2>3 DEF Seen
  <2>5. CASE WriteEnd(t)
    <3>1. Seen = before
      BY <2>1, <2>5 DEF Seen
    <3> QED BY <2>1, <2>4, <2>5, <3>1 DEF ReadEnd
  <2>6. CASE ~WriteEnd(t)
    <3>1. pc[t] \notin Inside
      BY <1>5, <2>6 DEF WriteUp
    <3>2. Seen = data
      BY <2>2, <3>1 DEF Seen
    <3> QED BY <2>1, <2>4, <2>6, <3>2 DEF ReadEnd
  <2> QED BY <2>5, <2>6
<1> QED BY <1>1, <1>2, <1>3, <1>4, <1>5 DEF Step

\* The abstract actions, in the words of the refinement mapping.
LEMMA FileActions ==
    ASSUME NEW t \in Thread
    PROVE
      /\ /\ State[t] = "idle"
         /\ State' = [State EXCEPT ![t] = "pending"]
         /\ \E r \in Requests : request' = [request EXCEPT ![t] = r]
         /\ Seen' = Seen /\ Count' = Count /\ Got' = Got
         => File!Ask(t)
      /\ \A n \in IF MallocFails THEN 0..File!Most(request[t])
                  ELSE {File!Most(request[t])} :
           /\ State[t] = "pending"
           /\ State' = [State EXCEPT ![t] = "done"]
           /\ Count' = [Count EXCEPT ![t] = n]
           /\ IF request[t].kind = "read"
              THEN /\ Got' = [Got EXCEPT ![t] =
                                [i \in 1..n |-> Seen[request[t].offset + i - 1]]]
                   /\ Seen' = Seen
              ELSE /\ Seen' = [i \in 0..Length - 1 |->
                                 IF request[t].offset <= i /\ i < request[t].offset + n
                                 THEN request[t].byte ELSE Seen[i]]
                   /\ Got' = Got
           /\ request' = request
           => File!Do(t)
      /\ /\ State[t] = "done"
         /\ State' = [State EXCEPT ![t] = "idle"]
         /\ Count' = [Count EXCEPT ![t] = 0]
         /\ Got' = [Got EXCEPT ![t] = <<>>]
         /\ request' = [request EXCEPT ![t] = NoRequest]
         /\ Seen' = Seen
         => File!Return(t)
<1> USE DEF State, StateOf, Count, Got, Seen
<1>1. ASSUME State[t] = "idle",
             State' = [State EXCEPT ![t] = "pending"],
             \E r \in Requests : request' = [request EXCEPT ![t] = r],
             Seen' = Seen, Count' = Count, Got' = Got
      PROVE  File!Ask(t)
  BY <1>1 DEF File!Ask
<1>3. ASSUME State[t] = "done",
             State' = [State EXCEPT ![t] = "idle"],
             Count' = [Count EXCEPT ![t] = 0],
             Got' = [Got EXCEPT ![t] = <<>>],
             request' = [request EXCEPT ![t] = NoRequest],
             Seen' = Seen
      PROVE  File!Return(t)
  BY <1>3 DEF File!Return
<1>2. ASSUME NEW n \in IF MallocFails THEN 0..File!Most(request[t])
                       ELSE {File!Most(request[t])},
             State[t] = "pending",
             State' = [State EXCEPT ![t] = "done"],
             Count' = [Count EXCEPT ![t] = n],
             IF request[t].kind = "read"
             THEN /\ Got' = [Got EXCEPT ![t] =
                               [i \in 1..n |-> Seen[request[t].offset + i - 1]]]
                  /\ Seen' = Seen
             ELSE /\ Seen' = [i \in 0..Length - 1 |->
                                IF request[t].offset <= i /\ i < request[t].offset + n
                                THEN request[t].byte ELSE Seen[i]]
                  /\ Got' = Got,
             request' = request
      PROVE  File!Do(t)
  BY <1>2 DEF File!Do
<1> QED BY <1>1, <1>2, <1>3

LEMMA FileStep ==
    ASSUME RWInv, CopyInv, NEW t \in Thread, Call(t) \/ Step(t)
    PROVE  File!Ask(t) \/ File!Do(t) \/ File!Return(t) \/ UNCHANGED File!fileVars
<1>t. CopyTypeOK /\ SyncTypeOK /\ ThreadOK(t)
  BY DEF CopyInv, RWInv
<1> DEFINE st == StateOf(pc'[t])
           co == IF pc'[t] \in {"r_leave", "w_up"} THEN done'[t] ELSE 0
           go == IF pc'[t] = "r_leave" THEN buffer'[t] ELSE <<>>
<1>m. /\ State' = [State EXCEPT ![t] = st] /\ Count' = [Count EXCEPT ![t] = co]
      /\ Got' = [Got EXCEPT ![t] = go]
  BY <1>t, Mapped
<1>n. /\ State[t] = StateOf(pc[t])
      /\ Count[t] = IF pc[t] \in {"r_leave", "w_up"} THEN done[t] ELSE 0
      /\ Got[t] = IF pc[t] = "r_leave" THEN buffer[t] ELSE <<>>
  BY DEF State, Count, Got
<1>s. /\ [State EXCEPT ![t] = State[t]] = State
      /\ [Count EXCEPT ![t] = Count[t]] = Count
      /\ [Got EXCEPT ![t] = Got[t]] = Got
  BY DEF State, Count, Got
<1> USE DEF copyVars, At, Goto
<1>1. CASE Call(t)
  <2>1. /\ pc[t] = "idle" /\ pc'[t] \in {"r_enter", "w_down"}
        /\ \E r \in Requests : request' = [request EXCEPT ![t] = r]
    BY <1>1, <1>t DEF Call, SyncTypeOK
  <2>2. ~WriteEnd(t)
    BY <2>1 DEF WriteEnd
  <2>3. Seen' = Seen
    BY <2>2, SeenNext
  <2>4. State[t] = "idle" /\ st = "pending" /\ co = Count[t] /\ go = Got[t]
    BY <2>1, <1>n, States
  <2> HIDE DEF st, co, go
  <2>5. File!Ask(t)
    BY <2>1, <2>3, <2>4, <1>m, <1>s, FileActions
  <2> QED BY <2>5
<1>2. CASE ReadEnter(t) \/ ReadDown(t) \/ ReadChunk(t) \/ WriteDown(t)
           \/ WriteFull(t) \/ WriteFetch(t) \/ WriteBack(t)
  <2> DEFINE Within == {"r_enter", "r_down", "reading", "w_down", "writing", "w_back"}
  <2>1. /\ pc[t] \in Within /\ pc'[t] \in Within /\ request' = request
    BY <1>2, <1>t DEF ReadEnter, ReadDown, ReadChunk, WriteDown, WriteFull,
                      WriteFetch, WriteBack, SyncTypeOK
  <2>2. ~WriteEnd(t)
    BY <1>2, <1>t DEF WriteEnd, ReadEnter, ReadDown, ReadChunk, WriteDown, WriteFull,
                      WriteFetch, WriteBack, SyncTypeOK, size, Finished
  <2>3. Seen' = Seen
    BY <2>2, SeenNext
  <2>4. st = State[t] /\ co = Count[t] /\ go = Got[t]
    BY <2>1, <1>n, States
  <2> HIDE DEF st, co, go
  <2>5. UNCHANGED File!fileVars
    BY <2>1, <2>3, <2>4, <1>m, <1>s, Unseen
  <2> QED BY <2>5
<1>3. CASE ReadEnd(t)
  <2>1. /\ pc[t] = "reading" /\ pc'[t] = "r_leave" /\ request' = request
        /\ done' = done /\ buffer' = buffer /\ Finished(t)
    BY <1>3, <1>t DEF ReadEnd, SyncTypeOK
  <2>2. ~WriteEnd(t)
    BY <2>1 DEF WriteEnd
  <2>3. Seen' = Seen /\ Seen = data
    BY <2>2, <1>3, SeenNext
  <2>4. State[t] = "pending" /\ st = "done" /\ co = done[t] /\ go = buffer[t]
    BY <2>1, <1>n, States
  <2>5. done[t] \in IF MallocFails THEN 0..File!Most(request[t])
                    ELSE {File!Most(request[t])}
    BY <2>1, <1>t, FinishedCount DEF ThreadOK
  <2>6. /\ request[t].kind = "read"
        /\ buffer[t] = [i \in 1..done[t] |-> Seen[request[t].offset + i - 1]]
    BY <2>1, <2>3, <1>t DEF ThreadOK, RequestOK, ReadOK, Copy
  <2> HIDE DEF st, co, go
  <2>7. /\ State' = [State EXCEPT ![t] = "done"]
        /\ Count' = [Count EXCEPT ![t] = done[t]]
        /\ Got' = [Got EXCEPT ![t] =
                     [i \in 1..done[t] |-> Seen[request[t].offset + i - 1]]]
    BY <2>4, <2>6, <1>m
  <2>8. File!Do(t)
    BY <2>1, <2>3, <2>4, <2>5, <2>6, <2>7, FileActions
  <2> QED BY <2>8
<1>4. CASE WriteEnd(t)
  <2>1. /\ pc[t] = "writing" /\ pc'[t] = "w_up" /\ request' = request
        /\ done' = done /\ Finished(t)
    BY <1>4, <1>t DEF WriteEnd, SyncTypeOK
  <2>3. Seen = before /\ Seen' = data
    BY <1>4, SeenNext
  <2>4. State[t] = "pending" /\ st = "done" /\ co = done[t] /\ go = Got[t]
    BY <2>1, <1>n, States
  <2>5. done[t] \in IF MallocFails THEN 0..File!Most(request[t])
                    ELSE {File!Most(request[t])}
    BY <2>1, <1>t, FinishedCount DEF ThreadOK
  <2>6. /\ request[t].kind # "read"
        /\ Seen' = [i \in 0..Length - 1 |->
                      IF request[t].offset <= i /\ i < request[t].offset + done[t]
                      THEN request[t].byte ELSE Seen[i]]
    BY <2>1, <2>3, <1>t DEF ThreadOK, RequestOK, WriteOK, Overwritten, Position
  <2> HIDE DEF st, co, go
  <2>7. /\ State' = [State EXCEPT ![t] = "done"]
        /\ Count' = [Count EXCEPT ![t] = done[t]] /\ Got' = Got
    BY <2>4, <1>m, <1>s
  <2>8. File!Do(t)
    BY <2>1, <2>4, <2>5, <2>6, <2>7, FileActions
  <2> QED BY <2>8
<1>5. CASE ReadLeave(t) \/ WriteUp(t)
  <2>1. /\ pc[t] \in {"r_leave", "w_up"} /\ pc'[t] = "idle"
        /\ request' = [request EXCEPT ![t] = NoRequest]
    BY <1>5, <1>t DEF ReadLeave, WriteUp, Return, SyncTypeOK
  <2>2. ~WriteEnd(t)
    BY <2>1 DEF WriteEnd
  <2>3. Seen' = Seen
    BY <2>2, SeenNext
  <2>4. State[t] = "done" /\ st = "idle" /\ co = 0 /\ go = <<>>
    BY <2>1, <1>n, States
  <2> HIDE DEF st, co, go
  <2>5. File!Return(t)
    BY <2>1, <2>3, <2>4, <1>m, FileActions
  <2> QED BY <2>5
<1> QED BY <1>1, <1>2, <1>3, <1>4, <1>5 DEF Step

LEMMA FileNextOK == RWInv /\ CopyInv /\ [Next]_vars => [File!FileNext]_(File!fileVars)
<1> SUFFICES ASSUME RWInv, CopyInv, [Next]_vars
             PROVE  File!FileNext \/ UNCHANGED File!fileVars
  OBVIOUS
<1>1. CASE Next
  <2>1. PICK t \in Thread : Call(t) \/ Step(t)
    BY <1>1 DEF Next
  <2>2. File!Ask(t) \/ File!Do(t) \/ File!Return(t) \/ UNCHANGED File!fileVars
    BY <2>1, FileStep
  <2> QED BY <2>2 DEF File!FileNext
<1>2. CASE UNCHANGED vars
  BY <1>2 DEF vars, copyVars, File!fileVars
<1> QED BY <1>1, <1>2

\* Reads and writes take effect at one moment, for any number of threads, any
\* sector size, any length of the file and any requests, with or without
\* memory for the bounce buffers.
THEOREM ReadsAndWritesAreAtomic == Spec => ImplementsAtomicFile
<1>1. Spec => [](RWInv /\ CopyInv)
  BY RWInit, RWNext, CopyInit, CopyNext, PTL DEF Spec
<1>2. Spec => File!FileSpec
  BY <1>1, FileInitOK, FileNextOK, PTL DEF Spec, File!FileSpec
<1> QED BY <1>2 DEF ImplementsAtomicFile
=============================================================================

--------------------------- MODULE FileSysProofs ---------------------------
(***************************************************************************)
(* The file system's properties for any number of threads, any disk and    *)
(* directory, and whatever names and sizes programs use.                   *)
(*                                                                         *)
(* BaseInv holds always: what a thread refers to at each place, who holds  *)
(* which lock, and that open_cnt counts the references.                    *)
(*                                                                         *)
(* The second half, from "Owners" on, is who owns which sectors of the     *)
(* disk, while files are removed alone.  OwnerInv says what every sector   *)
(* in use belongs to (OwnInv), which owners exclude each other             *)
(* (SourceInv), and that an inode in memory is the one on disk (CopyInv).  *)
(* That every sector in use has an owner, and no file is forgotten         *)
(* (AllInv), holds only while there is memory.                             *)
(***************************************************************************)
EXTENDS FileSysProperties, FiniteSetTheorems, TLAPS

-----------------------------------------------------------------------------
(* Where threads are and what they refer to.                               *)

Places == {"idle", "open_root", "close_root", "open_node", "close_node", "release_inode",
           "release_data", "allocate", "inode_create", "dir_add", "release_sector",
           "lookup", "file_open", "remove_find", "remove_erase"}
Opening == {"open_root", "open_node"}
Releasing == {"release_inode", "release_data"}
HasSector == {"inode_create", "dir_add", "release_sector"}
Creating == {"allocate", "inode_create", "dir_add", "release_sector"}

\* The frame f of a thread at place p.
FrameOK(p, f) ==
    /\ p = "idle" => f.op = "none" /\ f.dir = NULL /\ f.node = NULL
    /\ p = "open_root" =>
         f.op \in {"create", "open", "remove"} /\ f.dir = NULL /\ f.node = NULL
    /\ p \in Creating => f.op = "create" /\ f.dir # NULL /\ f.node = NULL
    /\ p = "lookup" => f.op = "open" /\ f.dir # NULL /\ f.node = NULL
    /\ p = "remove_find" => f.op = "remove" /\ f.dir # NULL /\ f.node = NULL
    /\ p = "open_node" => f.op \in {"open", "remove"} /\ f.dir # NULL /\ f.node = NULL
    /\ p = "remove_erase" => f.op = "remove" /\ f.dir # NULL /\ f.node # NULL
    /\ p = "close_root" =>
         /\ f.op \in {"create", "open", "remove"} /\ f.dir # NULL
         /\ f.node # NULL => f.op = "open"
    /\ p = "file_open" => f.op = "open" /\ f.dir = NULL /\ f.node # NULL
    /\ p \in {"close_node"} \cup Releasing =>
         /\ f.op \in {"close", "open", "remove"} /\ f.node # NULL
         /\ f.dir # NULL <=> f.op = "remove"

\* At p with frame f a thread holds the lock of the directory.
HoldsDir(p, f) == f.op = "remove" /\ p \in {"open_node", "remove_erase"}

\* The references of threads are to inodes in the list, the directory is the root
\* and no other file is; only the thread that releases an inode still refers to it
\* when it has left the list.
RefInv ==
    \A t \in Thread :
        /\ FrameOK(pc[t], frame[t])
        /\ frame[t].op = "open" => file[t] = NULL
        /\ frame[t].dir # NULL => frame[t].dir \in open_inodes /\ IsRoot(frame[t].dir)
        /\ frame[t].node # NULL =>
             /\ ~IsRoot(frame[t].node)
             /\ pc[t] \in Releasing <=> frame[t].node \notin open_inodes
        /\ file[t] # NULL => file[t] \in open_inodes /\ ~IsRoot(file[t])

\* The holders of the locks.
LocksInv ==
    /\ \A t \in Thread :
         /\ inode_lock = t => pc[t] \in Opening \cup Releasing \cup {"close_root", "close_node"}
         /\ pc[t] \in Releasing => inode_lock = t
    /\ \A p \in Pointer : \A t \in Thread :
         inode[p].inode_lock = t <=> HoldsDir(pc[t], frame[t]) /\ frame[t].dir = p

\* How many references to inode p there are in the frames fr and the open files fl.
Refs(fr, fl, p) == Cardinality({t \in Thread : fr[t].dir = p})
                 + Cardinality({t \in Thread : fr[t].node = p})
                 + Cardinality({t \in Thread : fl[t] = p})

CountInv ==
    /\ \A p, q \in open_inodes : inode[p].sector = inode[q].sector => p = q
    /\ \A p \in open_inodes : inode[p].open_cnt = Refs(frame, file, p)

\* The root directory's inode is never given away.
RootInv ==
    /\ ROOT_DIR_SECTOR \in free_map
    /\ \A s \in Listed : entries[s].inode_sector # ROOT_DIR_SECTOR
    /\ \A t \in Thread :
         pc[t] \in HasSector \cup {"open_node"} =>
             frame[t].inode_sector # ROOT_DIR_SECTOR
    /\ \A s \in Sector : Data(disk[s]) \subseteq Sector \ {ROOT_DIR_SECTOR}
    /\ \A p \in Pointer : ROOT_DIR_SECTOR \notin Data(inode[p].data)

\* What a thread in dir_remove has found is still there: it holds the lock.
EraseInv ==
    \A t \in Thread : HoldsDir(pc[t], frame[t]) =>
        LET e == entries[frame[t].ofs]
        IN  /\ frame[t].ofs \in Slot /\ e.in_use
            /\ e.name = frame[t].name /\ e.inode_sector = frame[t].inode_sector

BaseInv ==
    /\ FileSysTypeOK
    /\ RefInv
    /\ LocksInv
    /\ CountInv
    /\ RootInv
    /\ EraseInv

-----------------------------------------------------------------------------
(* Least elements, and counting.                                           *)

Below == {p \in Nat \X Nat : p[1] < p[2]}

LEMMA LeastIn ==
    ASSUME NEW S \in SUBSET Nat, S # {}
    PROVE  Least(S) \in S /\ \A m \in S : Least(S) <= m
<1>1. IsWellFoundedOn(Below, Nat)
  BY NatLessThanWellFounded DEF OpToRel, Below
<1>2. PICK x \in S : \A y \in S : ~(<<y, x>> \in Below)
  BY <1>1, WFMin
<1>3. ASSUME NEW y \in S PROVE x <= y
  <2>1. x \in Nat /\ y \in Nat
    OBVIOUS
  <2>2. ~(y < x)
    BY <1>2, <2>1 DEF Below
  <2> QED BY <2>1, <2>2
<1> QED BY <1>2, <1>3 DEF Least

Bit(b) == IF b THEN 1 ELSE 0

\* Two sets of threads that differ in t at most.
LEMMA CardMove ==
    ASSUME NEW A \in SUBSET Thread, NEW B \in SUBSET Thread, NEW t \in Thread,
           \A u \in Thread : u # t => (u \in A <=> u \in B)
    PROVE  /\ Cardinality(A) \in Nat /\ Cardinality(B) \in Nat
           /\ Cardinality(B) = Cardinality(A) + Bit(t \in B) - Bit(t \in A)
<1>1. IsFiniteSet(A) /\ IsFiniteSet(B) /\ Cardinality(A) \in Nat /\ Cardinality(B) \in Nat
  BY FileSysAssumption, FS_Subset, FS_CardinalityType
<1>2. CASE t \in A <=> t \in B
  <2>1. A = B
    BY <1>2
  <2> QED BY <1>1, <1>2, <2>1 DEF Bit
<1>3. CASE t \in B /\ t \notin A
  <2>1. B = A \cup {t}
    BY <1>3
  <2>2. Cardinality(B) = Cardinality(A) + 1
    BY <1>1, <1>3, <2>1, FS_AddElement
  <2> QED BY <1>1, <1>3, <2>2 DEF Bit
<1>4. CASE t \in A /\ t \notin B
  <2>1. B = A \ {t}
    BY <1>4
  <2>2. Cardinality(B) = Cardinality(A) - 1
    BY <1>1, <1>4, <2>1, FS_RemoveElement
  <2> QED BY <1>1, <1>4, <2>2 DEF Bit
<1> QED BY <1>2, <1>3, <1>4

LEMMA CardSmall ==
    ASSUME NEW A \in SUBSET Thread
    PROVE  /\ Cardinality(A) \in Nat
           /\ A # {} => Cardinality(A) >= 1
           /\ \A t, u \in A : t # u => Cardinality(A) >= 2
<1>1. IsFiniteSet(A) /\ Cardinality(A) \in Nat
  BY FileSysAssumption, FS_Subset, FS_CardinalityType
<1>2. ASSUME NEW t \in A
      PROVE  /\ Cardinality(A) = Cardinality(A \ {t}) + 1
             /\ Cardinality(A \ {t}) \in Nat
  <2>1. IsFiniteSet(A \ {t}) /\ Cardinality(A \ {t}) = Cardinality(A) - 1
    BY <1>1, FS_RemoveElement
  <2> QED BY <1>1, <2>1, FS_CardinalityType
<1>3. ASSUME NEW t \in A, NEW u \in A, t # u PROVE Cardinality(A) >= 2
  <2>1. u \in A \ {t} /\ IsFiniteSet(A \ {t})
    BY <1>1, <1>3, FS_RemoveElement
  <2>2. Cardinality(A \ {t}) # 0
    BY <2>1, FS_EmptySet
  <2> QED BY <1>2, <2>2
<1>4. ASSUME NEW t \in A PROVE Cardinality(A) >= 1
  <2>1. Cardinality(A) = Cardinality(A \ {t}) + 1 /\ Cardinality(A \ {t}) \in Nat
    BY <1>2
  <2> QED BY <2>1
<1>5. \A t, u \in A : t # u => Cardinality(A) >= 2
  BY <1>3
<1> QED BY <1>1, <1>4, <1>5

\* What a frame f and an open file g contribute.
Bits(f, g, p) == Bit(f.dir = p) + Bit(f.node = p) + Bit(g = p)

LEMMA RefsMove ==
    ASSUME NEW fr \in [Thread -> Frame], NEW fl \in [Thread -> Pointer \cup {NULL}],
           NEW fr2 \in [Thread -> Frame], NEW fl2 \in [Thread -> Pointer \cup {NULL}],
           NEW t \in Thread, NEW p,
           \A u \in Thread : u # t => fr2[u] = fr[u] /\ fl2[u] = fl[u]
    PROVE  /\ Refs(fr, fl, p) \in Nat
           /\ Refs(fr2, fl2, p) = Refs(fr, fl, p) + Bits(fr2[t], fl2[t], p) - Bits(fr[t], fl[t], p)
<1> DEFINE D  == {u \in Thread : fr[u].dir = p}
           D2 == {u \in Thread : fr2[u].dir = p}
           N  == {u \in Thread : fr[u].node = p}
           N2 == {u \in Thread : fr2[u].node = p}
           F  == {u \in Thread : fl[u] = p}
           F2 == {u \in Thread : fl2[u] = p}
<1>1. /\ Cardinality(D) \in Nat /\ Cardinality(D2) \in Nat
      /\ Cardinality(D2) = Cardinality(D) + Bit(t \in D2) - Bit(t \in D)
  BY CardMove
<1>2. /\ Cardinality(N) \in Nat /\ Cardinality(N2) \in Nat
      /\ Cardinality(N2) = Cardinality(N) + Bit(t \in N2) - Bit(t \in N)
  BY CardMove
<1>3. /\ Cardinality(F) \in Nat /\ Cardinality(F2) \in Nat
      /\ Cardinality(F2) = Cardinality(F) + Bit(t \in F2) - Bit(t \in F)
  BY CardMove
<1>4. /\ Refs(fr, fl, p) = Cardinality(D) + Cardinality(N) + Cardinality(F)
      /\ Refs(fr2, fl2, p) = Cardinality(D2) + Cardinality(N2) + Cardinality(F2)
  BY DEF Refs
<1>5. /\ t \in D <=> fr[t].dir = p
      /\ t \in D2 <=> fr2[t].dir = p
      /\ t \in N <=> fr[t].node = p
      /\ t \in N2 <=> fr2[t].node = p
      /\ t \in F <=> fl[t] = p
      /\ t \in F2 <=> fl2[t] = p
  OBVIOUS
<1> HIDE DEF D, D2, N, N2, F, F2
<1>6. /\ Bits(fr[t], fl[t], p) = Bit(t \in D) + Bit(t \in N) + Bit(t \in F)
      /\ Bits(fr2[t], fl2[t], p) = Bit(t \in D2) + Bit(t \in N2) + Bit(t \in F2)
  BY <1>5 DEF Bits, Bit
<1> DEFINE b1 == Bit(t \in D)
           b2 == Bit(t \in N)
           b3 == Bit(t \in F)
           c1 == Bit(t \in D2)
           c2 == Bit(t \in N2)
           c3 == Bit(t \in F2)
<1>7. b1 \in Int /\ b2 \in Int /\ b3 \in Int /\ c1 \in Int /\ c2 \in Int /\ c3 \in Int
  BY DEF Bit
<1> HIDE DEF b1, b2, b3, c1, c2, c3
<1>8. /\ Cardinality(D2) = Cardinality(D) + c1 - b1
      /\ Cardinality(N2) = Cardinality(N) + c2 - b2
      /\ Cardinality(F2) = Cardinality(F) + c3 - b3
      /\ Bits(fr[t], fl[t], p) = b1 + b2 + b3
      /\ Bits(fr2[t], fl2[t], p) = c1 + c2 + c3
  BY <1>1, <1>2, <1>3, <1>6 DEF b1, b2, b3, c1, c2, c3
<1> QED BY <1>1, <1>2, <1>3, <1>4, <1>7, <1>8

\* t's own references are among all; if they are all there is, nobody else refers to p.
LEMMA RefsAlone ==
    ASSUME NEW fr \in [Thread -> Frame], NEW fl \in [Thread -> Pointer \cup {NULL}],
           NEW t \in Thread, NEW p
    PROVE  /\ Refs(fr, fl, p) \in Nat /\ Bits(fr[t], fl[t], p) \in Nat
           /\ Bits(fr[t], fl[t], p) <= Refs(fr, fl, p)
           /\ Refs(fr, fl, p) = Bits(fr[t], fl[t], p) =>
                \A u \in Thread : u # t => fr[u].dir # p /\ fr[u].node # p /\ fl[u] # p
<1> DEFINE D == {u \in Thread : fr[u].dir = p}
           N == {u \in Thread : fr[u].node = p}
           F == {u \in Thread : fl[u] = p}
           D2 == D \ {t}
           N2 == N \ {t}
           F2 == F \ {t}
<1>1. /\ Cardinality(D2) \in Nat /\ Cardinality(D) = Cardinality(D2) + Bit(t \in D) - Bit(t \in D2)
      /\ Cardinality(N2) \in Nat /\ Cardinality(N) = Cardinality(N2) + Bit(t \in N) - Bit(t \in N2)
      /\ Cardinality(F2) \in Nat /\ Cardinality(F) = Cardinality(F2) + Bit(t \in F) - Bit(t \in F2)
  <2>1. /\ D \in SUBSET Thread /\ D2 \in SUBSET Thread
        /\ N \in SUBSET Thread /\ N2 \in SUBSET Thread
        /\ F \in SUBSET Thread /\ F2 \in SUBSET Thread
        /\ \A u \in Thread : u # t => (u \in D2 <=> u \in D) /\ (u \in N2 <=> u \in N)
                                     /\ (u \in F2 <=> u \in F)
    OBVIOUS
  <2> HIDE DEF D, D2, N, N2, F, F2
  <2> QED BY <2>1, CardMove
<1>2. /\ D2 \in SUBSET Thread /\ N2 \in SUBSET Thread /\ F2 \in SUBSET Thread
      /\ Bit(t \in D2) = 0 /\ Bit(t \in N2) = 0 /\ Bit(t \in F2) = 0
  BY DEF Bit
<1>3. Refs(fr, fl, p) = Cardinality(D) + Cardinality(N) + Cardinality(F)
  BY DEF Refs
<1>4. Bits(fr[t], fl[t], p) = Bit(t \in D) + Bit(t \in N) + Bit(t \in F)
  BY DEF Bits, Bit
<1>5. /\ Refs(fr, fl, p) \in Nat /\ Bits(fr[t], fl[t], p) \in Nat
      /\ Bits(fr[t], fl[t], p) <= Refs(fr, fl, p)
      /\ Refs(fr, fl, p) = Bits(fr[t], fl[t], p) =>
           Cardinality(D2) = 0 /\ Cardinality(N2) = 0 /\ Cardinality(F2) = 0
  <2> DEFINE b1 == Bit(t \in D)
             b2 == Bit(t \in N)
             b3 == Bit(t \in F)
             k1 == Cardinality(D2)
             k2 == Cardinality(N2)
             k3 == Cardinality(F2)
             r  == Refs(fr, fl, p)
             b  == Bits(fr[t], fl[t], p)
  <2>1. /\ b1 \in Nat /\ b2 \in Nat /\ b3 \in Nat /\ b = b1 + b2 + b3
        /\ k1 \in Nat /\ k2 \in Nat /\ k3 \in Nat
    BY <1>1, <1>4 DEF Bit
  <2>2. /\ Cardinality(D) = k1 + b1
        /\ Cardinality(N) = k2 + b2
        /\ Cardinality(F) = k3 + b3
    <3> HIDE DEF D, N, F, D2, N2, F2
    <3> QED BY <1>1, <1>2, <2>1
  <2>3. r = (k1 + b1) + (k2 + b2) + (k3 + b3)
    BY <1>3, <2>2
  <2> HIDE DEF b1, b2, b3, k1, k2, k3, r, b
  <2>4. /\ r \in Nat /\ b \in Nat /\ b <= r
        /\ r = b => k1 = 0 /\ k2 = 0 /\ k3 = 0
    BY <2>1, <2>3
  <2> QED BY <2>4 DEF k1, k2, k3, r, b
<1>6. Refs(fr, fl, p) = Bits(fr[t], fl[t], p) => D2 = {} /\ N2 = {} /\ F2 = {}
  BY <1>2, <1>5, CardSmall
<1> QED BY <1>5, <1>6

LEMMA RefsNone ==
    ASSUME NEW fr, NEW fl, NEW p,
           \A u \in Thread : fr[u].dir # p /\ fr[u].node # p /\ fl[u] # p
    PROVE  Refs(fr, fl, p) = 0
<1> DEFINE D == {u \in Thread : fr[u].dir = p}
           N == {u \in Thread : fr[u].node = p}
           F == {u \in Thread : fl[u] = p}
<1>1. Refs(fr, fl, p) = Cardinality(D) + Cardinality(N) + Cardinality(F)
  BY DEF Refs
<1>2. D = {} /\ N = {} /\ F = {}
  OBVIOUS
<1>3. Cardinality({}) = 0
  BY FS_EmptySet
<1> HIDE DEF D, N, F
<1> QED BY <1>1, <1>2, <1>3

-----------------------------------------------------------------------------
(* The steps of a thread.                                                  *)

\* Thread t goes on at place p with frame f.
Move(t, p, f) == pc' = [pc EXCEPT ![t] = p] /\ frame' = [frame EXCEPT ![t] = f]

\* Thread t has file g open next.
HasOpen(t, g) == file' = [file EXCEPT ![t] = g]

LEMMA Moved ==
    ASSUME FileSysTypeOK, NEW t \in Thread, NEW p, NEW f, Move(t, p, f)
    PROVE  /\ pc'[t] = p /\ frame'[t] = f
           /\ \A u \in Thread : u # t => pc'[u] = pc[u] /\ frame'[u] = frame[u]
BY DEF FileSysTypeOK, Move

LEMMA NoFrameOK ==
    /\ NoFrame \in Frame /\ NoFrame.op = "none" /\ NoFrame.dir = NULL /\ NoFrame.node = NULL
    /\ NoFrame.name \in Name
    /\ \A n \in Name : [inode_sector |-> 0, name |-> n, in_use |-> FALSE] \in dir_entry
    /\ Zeros \in inode_disk /\ NoInode \in Inode
<1>1. (CHOOSE n \in Name : TRUE) \in Name
  BY FileSysAssumption
<1>2. 0 \in Sector
  BY FileSysAssumption DEF Sector, ROOT_DIR_SECTOR
<1> QED BY <1>1, <1>2 DEF NoFrame, Frame, Op, NULL, dir_entry, Zeros, inode_disk, NoInode, Inode

\* What OpenReturns and CloseReturns come to.
LEMMA OpenReturnsMoves ==
    ASSUME FileSysTypeOK, RefInv, NEW t \in Thread, pc[t] \in Opening,
           NEW p \in Pointer \cup {NULL}, OpenReturns(t, p)
    PROVE  \E pl, f :
             /\ Move(t, pl, f) /\ pl \in Places /\ f \in Frame /\ FrameOK(pl, f)
             /\ pl \notin Releasing \cup HasSector \cup {"open_node"}
             /\ f.dir = (IF pc[t] = "open_root" THEN p ELSE frame[t].dir)
             /\ f.node = (IF pc[t] = "open_root" THEN NULL ELSE p)
             /\ f.op = "open" => frame[t].op = "open"
             /\ HoldsDir(pl, f) <=> HoldsDir(pc[t], frame[t]) /\ p # NULL
             /\ HoldsDir(pl, f) => f = [frame[t] EXCEPT !.node = p]
             /\ pc[t] = "open_node" => f = [frame[t] EXCEPT !.node = p]
<1>1. FrameOK(pc[t], frame[t]) /\ frame[t] \in Frame
  BY DEF RefInv, FileSysTypeOK
<1>2. CASE pc[t] = "open_root" /\ p = NULL
  <2>1. Move(t, "idle", NoFrame)
    BY <1>2 DEF OpenReturns, Return, Goto, Move
  <2> QED BY <1>2, <2>1, NoFrameOK DEF FrameOK, HoldsDir, Places, Creating, Releasing, HasSector
<1>3. CASE pc[t] = "open_root" /\ p # NULL
  <2> DEFINE f == [frame[t] EXCEPT !.dir = p]
             next == [create |-> "allocate", open |-> "lookup", remove |-> "remove_find"]
  <2>1. frame[t].op \in {"create", "open", "remove"} /\ frame[t].node = NULL
    BY <1>1, <1>3 DEF FrameOK
  <2>2. f \in Frame /\ f.dir = p /\ f.node = NULL /\ f.op = frame[t].op
    BY <1>1, <2>1 DEF Frame
  <2>3. frame' = [frame EXCEPT ![t] = f]
    BY <1>3 DEF OpenReturns, FileSysTypeOK
  <2>4. \/ pc' = [pc EXCEPT ![t] = next[frame[t].op]]
        \/ pc' = [pc EXCEPT ![t] = "close_root"]
    BY <1>3, <2>1 DEF OpenReturns, Goto
  <2>5. PICK pl : /\ pc' = [pc EXCEPT ![t] = pl]
                  /\ \/ pl = next[frame[t].op]
                     \/ pl = "close_root"
    BY <2>4
  <2>6. /\ FrameOK(pl, f) /\ ~HoldsDir(pl, f)
        /\ pl \in Places \ (Releasing \cup HasSector \cup {"open_node"})
    BY <1>3, <2>1, <2>2, <2>5 DEF FrameOK, HoldsDir, Places, Creating, Releasing, HasSector
  <2>7. ~HoldsDir(pc[t], frame[t])
    BY <1>3 DEF HoldsDir
  <2> HIDE DEF f, next
  <2> QED BY <1>3, <2>2, <2>3, <2>5, <2>6, <2>7 DEF Move
<1>4. CASE pc[t] = "open_node"
  <2> DEFINE f == [frame[t] EXCEPT !.node = p]
             pl == IF frame[t].op = "remove" /\ p # NULL THEN "remove_erase" ELSE "close_root"
  <2>1. frame[t].op \in {"open", "remove"} /\ frame[t].dir # NULL
    BY <1>1, <1>4 DEF FrameOK, Creating, Releasing
  <2>2. f \in Frame /\ f.dir = frame[t].dir /\ f.node = p /\ f.op = frame[t].op
    BY <1>1 DEF Frame
  <2>3. Move(t, pl, f)
    BY <1>4 DEF OpenReturns, Goto, Move, FileSysTypeOK
  <2>4. FrameOK(pl, f) /\ pl \in Places \ (Releasing \cup HasSector \cup {"open_node"})
    BY <2>1, <2>2 DEF FrameOK, Places, Creating, Releasing, HasSector
  <2>5. HoldsDir(pl, f) <=> HoldsDir(pc[t], frame[t]) /\ p # NULL
    BY <1>4, <2>1, <2>2 DEF HoldsDir
  <2> QED BY <1>4, <2>2, <2>3, <2>4, <2>5
<1> QED BY <1>2, <1>3, <1>4 DEF Opening

LEMMA CloseReturnsMoves ==
    ASSUME FileSysTypeOK, RefInv, NEW t \in Thread,
           pc[t] \in {"close_root", "close_node", "release_data"}, CloseReturns(t)
    PROVE  \E pl, f :
             /\ Move(t, pl, f) /\ f \in Frame /\ FrameOK(pl, f)
             /\ pl \in {"idle", "file_open", "close_root"}
             /\ f.dir = (IF pc[t] = "close_root" THEN NULL ELSE frame[t].dir)
             /\ f.node = (IF pc[t] = "close_root" THEN frame[t].node ELSE NULL)
             /\ f.op \in {"none", frame[t].op}
             /\ f.op = "open" => f = [frame[t] EXCEPT !.dir = NULL] /\ pl = "file_open"
<1>1. FrameOK(pc[t], frame[t]) /\ frame[t] \in Frame
  BY DEF RefInv, FileSysTypeOK
<1>2. CASE pc[t] = "close_root" /\ frame[t].op = "open" /\ frame[t].node # NULL
  <2> DEFINE f == [frame[t] EXCEPT !.dir = NULL]
  <2>1. f \in Frame /\ f.dir = NULL /\ f.node = frame[t].node /\ f.op = "open"
    BY <1>1, <1>2 DEF Frame
  <2>2. Move(t, "file_open", f)
    BY <1>2 DEF CloseReturns, Goto, Move, FileSysTypeOK
  <2>3. FrameOK("file_open", f)
    BY <1>2, <2>1 DEF FrameOK, Creating, Releasing
  <2> QED BY <1>2, <2>1, <2>2, <2>3
<1>3. CASE pc[t] # "close_root" /\ frame[t].op = "remove"
  <2> DEFINE f == [frame[t] EXCEPT !.node = NULL]
  <2>1. f \in Frame /\ f.dir = frame[t].dir /\ f.node = NULL /\ f.op = "remove"
    BY <1>1, <1>3 DEF Frame
  <2>2. Move(t, "close_root", f)
    BY <1>3 DEF CloseReturns, Goto, Move, FileSysTypeOK
  <2>3. FrameOK("close_root", f)
    BY <1>1, <1>3, <2>1 DEF FrameOK, Creating, Releasing
  <2> QED BY <1>3, <2>1, <2>2, <2>3
<1>4. CASE /\ ~(pc[t] = "close_root" /\ frame[t].op = "open" /\ frame[t].node # NULL)
           /\ ~(pc[t] # "close_root" /\ frame[t].op = "remove")
  <2>1. Move(t, "idle", NoFrame)
    BY <1>4 DEF CloseReturns, Return, Goto, Move
  <2>2. /\ pc[t] = "close_root" => frame[t].node = NULL
        /\ pc[t] # "close_root" => frame[t].dir = NULL
    BY <1>1, <1>4 DEF FrameOK, Creating, Releasing
  <2> QED BY <2>1, <2>2, NoFrameOK DEF FrameOK, Creating, Releasing
<1> QED BY <1>2, <1>3, <1>4

-----------------------------------------------------------------------------
(* What every step of thread t comes to, conjunct by conjunct: it goes on  *)
(* at pl with frame f, and then has file g open.                           *)

LEMMA RefStep ==
    ASSUME FileSysTypeOK, RefInv, NEW t \in Thread, NEW pl, NEW f \in Frame,
           NEW g \in Pointer \cup {NULL}, Move(t, pl, f), HasOpen(t, g),
           FrameOK(pl, f), f.op = "open" => g = NULL,
           f.dir # NULL => f.dir \in open_inodes' /\ inode'[f.dir].sector = ROOT_DIR_SECTOR,
           f.node # NULL =>
             /\ inode'[f.node].sector # ROOT_DIR_SECTOR
             /\ pl \in Releasing <=> f.node \notin open_inodes',
           g # NULL => g \in open_inodes' /\ inode'[g].sector # ROOT_DIR_SECTOR,
           \A u \in Thread : u # t =>
             \A p \in {frame[u].dir, frame[u].node, file[u]} \ {NULL} :
                 /\ inode'[p].sector = inode[p].sector
                 /\ p \in open_inodes' <=> p \in open_inodes
    PROVE  RefInv'
<1>1. /\ pc'[t] = pl /\ frame'[t] = f /\ file'[t] = g
      /\ \A u \in Thread : u # t => pc'[u] = pc[u] /\ frame'[u] = frame[u] /\ file'[u] = file[u]
  BY Moved DEF FileSysTypeOK, HasOpen
<1> SUFFICES ASSUME NEW u \in Thread
    PROVE  /\ FrameOK(pc'[u], frame'[u])
           /\ frame'[u].op = "open" => file'[u] = NULL
           /\ frame'[u].dir # NULL => frame'[u].dir \in open_inodes'
                                      /\ inode'[frame'[u].dir].sector = ROOT_DIR_SECTOR
           /\ frame'[u].node # NULL =>
                /\ inode'[frame'[u].node].sector # ROOT_DIR_SECTOR
                /\ pc'[u] \in Releasing <=> frame'[u].node \notin open_inodes'
           /\ file'[u] # NULL => file'[u] \in open_inodes'
                                /\ inode'[file'[u]].sector # ROOT_DIR_SECTOR
  BY DEF RefInv, FrameOK, IsRoot
<1>2. CASE u = t
  BY <1>1, <1>2
<1>3. CASE u # t
  BY <1>1, <1>3 DEF RefInv, IsRoot
<1> QED BY <1>2, <1>3

LEMMA LockStep ==
    ASSUME FileSysTypeOK, LocksInv, NEW t \in Thread, NEW pl, NEW f, Move(t, pl, f),
           \A u \in Thread : u # t => (inode_lock' = u <=> inode_lock = u),
           inode_lock' = t => pl \in Opening \cup Releasing \cup {"close_root", "close_node"},
           pl \in Releasing => inode_lock' = t,
           \A p \in Pointer :
             /\ inode'[p].inode_lock = t <=> HoldsDir(pl, f) /\ f.dir = p
             /\ \A u \in Thread : u # t => (inode'[p].inode_lock = u <=> inode[p].inode_lock = u)
    PROVE  LocksInv'
<1>1. /\ pc'[t] = pl /\ frame'[t] = f
      /\ \A u \in Thread : u # t => pc'[u] = pc[u] /\ frame'[u] = frame[u]
  BY Moved
<1>2. ASSUME NEW u \in Thread
      PROVE  /\ inode_lock' = u => pc'[u] \in Opening \cup Releasing \cup {"close_root", "close_node"}
             /\ pc'[u] \in Releasing => inode_lock' = u
  BY <1>1 DEF LocksInv
<1>3. ASSUME NEW p \in Pointer, NEW u \in Thread
      PROVE  inode'[p].inode_lock = u <=> HoldsDir(pc'[u], frame'[u]) /\ frame'[u].dir = p
  BY <1>1 DEF LocksInv
<1> QED BY <1>2, <1>3 DEF LocksInv, HoldsDir

LEMMA CountStep ==
    ASSUME FileSysTypeOK, CountInv, NEW t \in Thread, NEW pl, NEW f \in Frame,
           NEW g \in Pointer \cup {NULL}, Move(t, pl, f), HasOpen(t, g),
           \A p, q \in open_inodes' : inode'[p].sector = inode'[q].sector => p = q,
           \A p \in open_inodes' : inode'[p].open_cnt =
             Refs(frame, file, p) + Bits(f, g, p) - Bits(frame[t], file[t], p)
    PROVE  CountInv'
<1>1. /\ frame \in [Thread -> Frame] /\ frame' \in [Thread -> Frame]
      /\ file \in [Thread -> Pointer \cup {NULL}] /\ file' \in [Thread -> Pointer \cup {NULL}]
  BY DEF FileSysTypeOK, Move, HasOpen
<1>2. /\ frame'[t] = f /\ file'[t] = g
      /\ \A u \in Thread : u # t => frame'[u] = frame[u] /\ file'[u] = file[u]
  BY Moved DEF FileSysTypeOK, HasOpen
<1>3. ASSUME NEW p \in open_inodes' PROVE inode'[p].open_cnt = Refs(frame', file', p)
  <2>1. Refs(frame', file', p) =
          Refs(frame, file, p) + Bits(frame'[t], file'[t], p) - Bits(frame[t], file[t], p)
    BY <1>1, <1>2, RefsMove
  <2> QED BY <1>2, <2>1
<1> QED BY <1>3 DEF CountInv

\* A step that leaves the references alone.
LEMMA StayStep ==
    ASSUME FileSysTypeOK, RefInv, CountInv, NEW t \in Thread, NEW pl, NEW f \in Frame,
           Move(t, pl, f), FrameOK(pl, f),
           f.op = "open" => file[t] = NULL, f.dir = frame[t].dir, f.node = frame[t].node,
           pl \in Releasing <=> pc[t] \in Releasing,
           file' = file, open_inodes' = open_inodes,
           \A p \in Pointer :
             inode'[p].sector = inode[p].sector /\ inode'[p].open_cnt = inode[p].open_cnt
    PROVE  RefInv' /\ CountInv'
<1> DEFINE g == file[t]
<1>1. HasOpen(t, g) /\ g \in Pointer \cup {NULL}
  BY DEF FileSysTypeOK, HasOpen
<1>2. \A u \in Thread : \A p \in {frame[u].dir, frame[u].node, file[u]} \ {NULL} : p \in Pointer
  BY DEF FileSysTypeOK, Frame
<1>3. /\ f.op = "open" => g = NULL
      /\ f.dir # NULL => f.dir \in open_inodes' /\ inode'[f.dir].sector = ROOT_DIR_SECTOR
      /\ f.node # NULL =>
           /\ inode'[f.node].sector # ROOT_DIR_SECTOR
           /\ pl \in Releasing <=> f.node \notin open_inodes'
      /\ g # NULL => g \in open_inodes' /\ inode'[g].sector # ROOT_DIR_SECTOR
      /\ \A u \in Thread : u # t =>
           \A p \in {frame[u].dir, frame[u].node, file[u]} \ {NULL} :
               /\ inode'[p].sector = inode[p].sector
               /\ p \in open_inodes' <=> p \in open_inodes
  BY <1>2 DEF RefInv, IsRoot
<1>4. RefInv'
  <2> HIDE DEF g
  <2> QED BY <1>1, <1>3, RefStep
<1>5. ASSUME NEW p \in open_inodes'
      PROVE  /\ p \in Pointer /\ inode[p].open_cnt = Refs(frame, file, p)
             /\ Refs(frame, file, p) \in Nat
  <2>1. Refs(frame, file, p) \in Nat
    BY RefsMove DEF FileSysTypeOK
  <2> QED BY <2>1 DEF CountInv, FileSysTypeOK
<1>6. CountInv'
  <2>1. \A p, q \in open_inodes' : inode'[p].sector = inode'[q].sector => p = q
    BY <1>5 DEF CountInv
  <2>2. \A p \in open_inodes' : inode'[p].open_cnt =
          Refs(frame, file, p) + Bits(f, g, p) - Bits(frame[t], file[t], p)
    BY <1>5 DEF Bits, Bit
  <2> HIDE DEF g
  <2> QED BY <1>1, <2>1, <2>2, CountStep
<1> QED BY <1>4, <1>6

LEMMA EraseStep ==
    ASSUME FileSysTypeOK, EraseInv, NEW t \in Thread, NEW pl, NEW f, Move(t, pl, f),
           \A u \in Thread : u # t /\ HoldsDir(pc[u], frame[u]) =>
             entries'[frame[u].ofs] = entries[frame[u].ofs],
           HoldsDir(pl, f) =>
             /\ f.ofs \in Slot /\ entries'[f.ofs].in_use
             /\ entries'[f.ofs].name = f.name /\ entries'[f.ofs].inode_sector = f.inode_sector
    PROVE  EraseInv'
<1>1. /\ pc'[t] = pl /\ frame'[t] = f
      /\ \A u \in Thread : u # t => pc'[u] = pc[u] /\ frame'[u] = frame[u]
  BY Moved
<1> SUFFICES ASSUME NEW u \in Thread, HoldsDir(pc'[u], frame'[u])
    PROVE  /\ frame'[u].ofs \in Slot /\ entries'[frame'[u].ofs].in_use
           /\ entries'[frame'[u].ofs].name = frame'[u].name
           /\ entries'[frame'[u].ofs].inode_sector = frame'[u].inode_sector
  BY DEF EraseInv, HoldsDir
<1>2. CASE u = t
  BY <1>1, <1>2
<1>3. CASE u # t
  BY <1>1, <1>3 DEF EraseInv
<1> QED BY <1>2, <1>3

LEMMA RootStep ==
    ASSUME FileSysTypeOK, RootInv, NEW t \in Thread, NEW pl, NEW f, Move(t, pl, f),
           ROOT_DIR_SECTOR \in free_map',
           \A s \in Slot : entries'[s].in_use => entries'[s].inode_sector # ROOT_DIR_SECTOR,
           pl \in HasSector \cup {"open_node"} => f.inode_sector # ROOT_DIR_SECTOR,
           \A s \in Sector : Data(disk'[s]) \subseteq Sector \ {ROOT_DIR_SECTOR},
           \A p \in Pointer : ROOT_DIR_SECTOR \notin Data(inode'[p].data)
    PROVE  RootInv'
<1>1. /\ pc'[t] = pl /\ frame'[t] = f
      /\ \A u \in Thread : u # t => pc'[u] = pc[u] /\ frame'[u] = frame[u]
  BY Moved
<1>2. ASSUME NEW u \in Thread, pc'[u] \in HasSector \cup {"open_node"}
      PROVE  frame'[u].inode_sector # ROOT_DIR_SECTOR
  BY <1>1, <1>2 DEF RootInv
<1> QED BY <1>2 DEF RootInv, Listed, Data

\* A step that changes neither references nor locks.
Quiet == UNCHANGED <<inodeVars, file>>

LEMMA QuietStep ==
    ASSUME BaseInv, NEW t \in Thread, NEW pl \in Places, NEW f \in Frame, Move(t, pl, f),
           FrameOK(pl, f), f.op = "open" => file[t] = NULL,
           f.dir = frame[t].dir, f.node = frame[t].node,
           pl \in Releasing <=> pc[t] \in Releasing,
           HoldsDir(pl, f) <=> HoldsDir(pc[t], frame[t]),
           inode_lock = t => pl \in Opening \cup Releasing \cup {"close_root", "close_node"},
           Quiet
    PROVE  /\ RefInv' /\ CountInv' /\ LocksInv'
           /\ inode' \in [Pointer -> Inode] /\ open_inodes' \subseteq Pointer
           /\ inode_lock' \in Thread \cup {NoThread}
           /\ pc' \in [Thread -> Places] /\ frame' \in [Thread -> Frame]
           /\ file' \in [Thread -> Pointer \cup {NULL}]
<1>1. RefInv' /\ CountInv'
  <2>1. /\ file' = file /\ open_inodes' = open_inodes /\ inode' = inode
    BY DEF Quiet, inodeVars
  <2>2. FileSysTypeOK /\ RefInv /\ CountInv
    BY DEF BaseInv
  <2> QED BY <2>1, <2>2, StayStep
<1>2. LocksInv'
  <2>1. inode_lock' = inode_lock /\ inode' = inode
    BY DEF Quiet, inodeVars
  <2>2. FileSysTypeOK /\ LocksInv
    BY DEF BaseInv
  <2>3. \A p \in Pointer : inode'[p].inode_lock = t <=> HoldsDir(pl, f) /\ f.dir = p
    BY <2>1, <2>2 DEF LocksInv
  <2>4. pl \in Releasing => inode_lock' = t
    BY <2>1, <2>2 DEF LocksInv
  <2> QED BY <2>1, <2>2, <2>3, <2>4, LockStep
<1> QED BY <1>1, <1>2 DEF BaseInv, FileSysTypeOK, Quiet, inodeVars, Move, Places

-----------------------------------------------------------------------------
(* BaseInv is inductive: the calls, and the steps that are quiet.           *)

LEMMA Here ==
    ASSUME BaseInv, NEW t \in Thread
    PROVE  /\ pc[t] \in Places /\ frame[t] \in Frame /\ file[t] \in Pointer \cup {NULL}
           /\ FrameOK(pc[t], frame[t]) /\ (frame[t].op = "open" => file[t] = NULL)
           /\ Move(t, pc[t], frame[t]) <=> UNCHANGED <<pc, frame>>
           /\ HasOpen(t, file[t]) <=> UNCHANGED file
           /\ inode_lock = t => pc[t] \in Opening \cup Releasing \cup {"close_root", "close_node"}
BY DEF BaseInv, FileSysTypeOK, RefInv, LocksInv, Places, Move, HasOpen

\* From nothing but pc and frame of t, and what belongs to the disk and the directory.
LEMMA QuietKeeps ==
    ASSUME BaseInv, NEW t \in Thread, NEW pl \in Places, NEW f \in Frame, Move(t, pl, f),
           FrameOK(pl, f), f.op = "open" => file[t] = NULL,
           f.dir = frame[t].dir, f.node = frame[t].node,
           pl \in Releasing <=> pc[t] \in Releasing,
           HoldsDir(pl, f) <=> HoldsDir(pc[t], frame[t]),
           inode_lock = t => pl \in Opening \cup Releasing \cup {"close_root", "close_node"},
           Quiet,
           /\ free_map' \subseteq Sector /\ disk' \in [Sector -> inode_disk]
           /\ entries' \in [Slot -> dir_entry] /\ created' \in 0..MaxFiles
           /\ lost' \subseteq Sector /\ panicked' \in BOOLEAN,
           /\ ROOT_DIR_SECTOR \in free_map'
           /\ \A s \in Slot : entries'[s].in_use => entries'[s].inode_sector # ROOT_DIR_SECTOR
           /\ pl \in HasSector \cup {"open_node"} => f.inode_sector # ROOT_DIR_SECTOR
           /\ \A s \in Sector : Data(disk'[s]) \subseteq Sector \ {ROOT_DIR_SECTOR},
           \A u \in Thread : u # t /\ HoldsDir(pc[u], frame[u]) =>
             entries'[frame[u].ofs] = entries[frame[u].ofs],
           HoldsDir(pl, f) =>
             /\ f.ofs \in Slot /\ entries'[f.ofs].in_use
             /\ entries'[f.ofs].name = f.name /\ entries'[f.ofs].inode_sector = f.inode_sector
    PROVE  BaseInv'
<1>1. /\ RefInv' /\ CountInv' /\ LocksInv'
      /\ inode' \in [Pointer -> Inode] /\ open_inodes' \subseteq Pointer
      /\ inode_lock' \in Thread \cup {NoThread}
      /\ pc' \in [Thread -> Places] /\ frame' \in [Thread -> Frame]
      /\ file' \in [Thread -> Pointer \cup {NULL}]
  BY QuietStep
<1>2. FileSysTypeOK'
  BY <1>1 DEF FileSysTypeOK, Places
<1>3. FileSysTypeOK /\ RootInv /\ EraseInv
  BY DEF BaseInv
<1>4. RootInv'
  <2>1. \A p \in Pointer : ROOT_DIR_SECTOR \notin Data(inode'[p].data)
    BY <1>3 DEF RootInv, Quiet, inodeVars
  <2> QED BY <1>3, <2>1, RootStep
<1>5. EraseInv'
  BY <1>3, EraseStep
<1> QED BY <1>1, <1>2, <1>4, <1>5 DEF BaseInv

\* The disk and the directory are left alone too.
LEMMA QuieterKeeps ==
    ASSUME BaseInv, NEW t \in Thread, NEW pl \in Places, NEW f \in Frame, Move(t, pl, f),
           FrameOK(pl, f), f.op = "open" => file[t] = NULL,
           f.dir = frame[t].dir, f.node = frame[t].node,
           pl \in Releasing <=> pc[t] \in Releasing,
           ~HoldsDir(pl, f), ~HoldsDir(pc[t], frame[t]),
           inode_lock = t => pl \in Opening \cup Releasing \cup {"close_root", "close_node"},
           Quiet, UNCHANGED mapVars, UNCHANGED entries, UNCHANGED panicked,
           created' \in 0..MaxFiles,
           pl \in HasSector \cup {"open_node"} => f.inode_sector # ROOT_DIR_SECTOR
    PROVE  BaseInv'
<1>1. /\ free_map' \subseteq Sector /\ disk' \in [Sector -> inode_disk]
      /\ entries' \in [Slot -> dir_entry] /\ created' \in 0..MaxFiles
      /\ lost' \subseteq Sector /\ panicked' \in BOOLEAN
  BY DEF BaseInv, FileSysTypeOK, mapVars
<1>2. /\ ROOT_DIR_SECTOR \in free_map'
      /\ \A s \in Slot : entries'[s].in_use => entries'[s].inode_sector # ROOT_DIR_SECTOR
      /\ pl \in HasSector \cup {"open_node"} => f.inode_sector # ROOT_DIR_SECTOR
      /\ \A s \in Sector : Data(disk'[s]) \subseteq Sector \ {ROOT_DIR_SECTOR}
  BY DEF BaseInv, RootInv, Listed, mapVars
<1>3. \A u \in Thread : u # t /\ HoldsDir(pc[u], frame[u]) =>
         entries'[frame[u].ofs] = entries[frame[u].ofs]
  OBVIOUS
<1> QED BY <1>1, <1>2, <1>3, QuietKeeps

LEMMA CallsKeep ==
    ASSUME BaseInv, NEW t \in Thread, CallCreate(t) \/ CallOpen(t) \/ CallRemove(t)
    PROVE  BaseInv'
<1>1. PICK op \in {"create", "open", "remove"}, name \in Name, size \in Nat, fl \in File \cup {NULL} :
        /\ Enter(t, op, "open_root", name, size, fl, NULL)
        /\ op = "open" => file[t] = NULL
  <2>1. CASE CallCreate(t)
    <3>1. created + 1 \in File
      BY <2>1, FileSysAssumption DEF CallCreate, BaseInv, FileSysTypeOK, File
    <3>2. PICK name \in Name, size \in Size : Enter(t, "create", "open_root", name, size, created + 1, NULL)
      BY <2>1 DEF CallCreate
    <3> QED BY <3>1, <3>2, FileSysAssumption
  <2>2. CASE CallOpen(t)
    BY <2>2 DEF CallOpen
  <2>3. CASE CallRemove(t)
    BY <2>3 DEF CallRemove
  <2> QED BY <2>1, <2>2, <2>3
<1> DEFINE f == [NoFrame EXCEPT !.op = op, !.name = name, !.size = size, !.file = fl, !.node = NULL]
<1>2. /\ f \in Frame /\ f.op = op /\ f.dir = NULL /\ f.node = NULL
  BY NoFrameOK DEF Frame, Op
<1>3. Move(t, "open_root", f)
  BY <1>1 DEF Enter, Goto, Move
<1>4. /\ pc[t] = "idle"
      /\ Quiet /\ UNCHANGED mapVars /\ UNCHANGED entries /\ UNCHANGED panicked
      /\ created' \in 0..MaxFiles
  BY FileSysAssumption DEF CallCreate, CallOpen, CallRemove, At, dirVars, Quiet, BaseInv, FileSysTypeOK
<1>5. frame[t].dir = NULL /\ frame[t].node = NULL
  BY <1>4, Here DEF FrameOK
<1> HIDE DEF f
<1>6. /\ FrameOK("open_root", f) /\ "open_root" \in Places
      /\ ~HoldsDir("open_root", f) /\ ~HoldsDir(pc[t], frame[t])
      /\ "open_root" \in Releasing <=> pc[t] \in Releasing
      /\ "open_root" \in Opening /\ "open_root" \notin HasSector \cup {"open_node"}
  BY <1>2, <1>4 DEF FrameOK, Places, HoldsDir, Creating, Releasing, Opening, HasSector
<1> QED BY <1>1, <1>2, <1>3, <1>4, <1>5, <1>6, QuieterKeeps

LEMMA LeastRun ==
    ASSUME FileSysTypeOK, NEW n \in Nat, Runs(n) # {}
    PROVE  /\ Least(Runs(n)) \in Sector
           /\ Least(Runs(n)) .. Least(Runs(n)) + n - 1 \subseteq Sector \ free_map
<1>1. Runs(n) \in SUBSET Nat
  BY FileSysAssumption DEF Runs, Sector, ROOT_DIR_SECTOR
<1>2. Least(Runs(n)) \in Runs(n)
  BY <1>1, LeastIn
<1>3. CASE n = 0
  <2>1. Least(Runs(n)) = 0
    BY <1>2, <1>3 DEF Runs
  <2>2. 0 .. 0 + n - 1 = {}
    BY <1>3
  <2>3. 0 \in Sector
    BY FileSysAssumption DEF Sector, ROOT_DIR_SECTOR
  <2> QED BY <2>1, <2>2, <2>3
<1>4. CASE n # 0
  BY <1>2, <1>4 DEF Runs
<1> QED BY <1>3, <1>4

LEMMA AllocateKeeps ==
    ASSUME BaseInv, NEW t \in Thread, Allocate(t)
    PROVE  BaseInv'
<1>1. /\ pc[t] = "allocate" /\ Quiet
      /\ disk' = disk /\ lost' = lost /\ entries' = entries /\ created' = created
      /\ panicked' = panicked
  BY DEF Allocate, At, Quiet, dirVars
<1>2. /\ frame[t] \in Frame /\ FrameOK("allocate", frame[t]) /\ inode_lock # t
      /\ ~HoldsDir(pc[t], frame[t]) /\ (frame[t].op = "open" => file[t] = NULL)
  BY <1>1, Here DEF Opening, Releasing, HoldsDir
<1>3. FileSysTypeOK /\ RootInv
  BY DEF BaseInv
<1>4. PICK pl \in {"inode_create", "close_root"}, f \in Frame :
        /\ Move(t, pl, f)
        /\ f.op = frame[t].op /\ f.dir = frame[t].dir /\ f.node = frame[t].node
        /\ free_map \subseteq free_map' /\ free_map' \subseteq Sector
        /\ pl = "inode_create" => f.inode_sector # ROOT_DIR_SECTOR
  <2>1. CASE /\ Runs(1) # {}
             /\ free_map' = free_map \cup {Least(Runs(1))}
             /\ frame' = [frame EXCEPT ![t].inode_sector = Least(Runs(1))]
             /\ Goto(t, "inode_create")
    <3> DEFINE n == Least(Runs(1))
               f == [frame[t] EXCEPT !.inode_sector = n]
    <3>1. n \in Sector /\ n \notin free_map
      <4>1. n \in Sector /\ n .. n + 1 - 1 \subseteq Sector \ free_map
        BY <1>3, <2>1, LeastRun
      <4>2. n \in n .. n + 1 - 1
        BY <4>1 DEF Sector
      <4> QED BY <4>1, <4>2
    <3> HIDE DEF n
    <3>2. /\ f \in Frame /\ f.inode_sector = n
          /\ f.op = frame[t].op /\ f.dir = frame[t].dir /\ f.node = frame[t].node
      BY <1>2, <3>1 DEF Frame
    <3>3. Move(t, "inode_create", f)
      BY <2>1, <1>3 DEF Move, Goto, FileSysTypeOK, n
    <3>4. f.inode_sector # ROOT_DIR_SECTOR /\ free_map' = free_map \cup {n} /\ free_map \subseteq Sector
      BY <1>3, <2>1, <3>1, <3>2 DEF RootInv, FileSysTypeOK, n
    <3> HIDE DEF f
    <3> QED BY <3>1, <3>2, <3>3, <3>4
  <2>2. CASE Goto(t, "close_root") /\ UNCHANGED <<free_map, frame>>
    <3>1. Move(t, "close_root", frame[t])
      BY <2>2, <1>3 DEF Move, Goto, FileSysTypeOK
    <3> QED BY <1>2, <1>3, <2>2, <3>1 DEF FileSysTypeOK
  <2> QED BY <2>1, <2>2 DEF Allocate
<1>5. /\ FrameOK(pl, f) /\ pl \in Places /\ ~HoldsDir(pl, f)
      /\ pl \in Releasing <=> pc[t] \in Releasing
      /\ pl \in HasSector \cup {"open_node"} => f.inode_sector # ROOT_DIR_SECTOR
  BY <1>1, <1>2, <1>4 DEF FrameOK, Places, HoldsDir, Creating, Releasing, HasSector
<1>6. /\ free_map' \subseteq Sector /\ disk' \in [Sector -> inode_disk]
      /\ entries' \in [Slot -> dir_entry] /\ created' \in 0..MaxFiles
      /\ lost' \subseteq Sector /\ panicked' \in BOOLEAN
  BY <1>1, <1>3, <1>4 DEF FileSysTypeOK
<1>7. /\ ROOT_DIR_SECTOR \in free_map'
      /\ \A s \in Slot : entries'[s].in_use => entries'[s].inode_sector # ROOT_DIR_SECTOR
      /\ \A s \in Sector : Data(disk'[s]) \subseteq Sector \ {ROOT_DIR_SECTOR}
  BY <1>1, <1>3, <1>4 DEF RootInv, Listed
<1> QED BY <1>1, <1>2, <1>4, <1>5, <1>6, <1>7, QuietKeeps

LEMMA InodeCreateKeeps ==
    ASSUME BaseInv, NEW t \in Thread, InodeCreate(t)
    PROVE  BaseInv'
<1>1. /\ pc[t] = "inode_create" /\ Quiet
      /\ lost' = lost /\ entries' = entries /\ created' = created
      /\ frame' = frame /\ panicked' = panicked
  BY DEF InodeCreate, At, Quiet, dirVars
<1>2. /\ frame[t] \in Frame /\ FrameOK("inode_create", frame[t]) /\ inode_lock # t
      /\ ~HoldsDir(pc[t], frame[t]) /\ (frame[t].op = "open" => file[t] = NULL)
  BY <1>1, Here DEF Opening, Releasing, HoldsDir
<1>3. FileSysTypeOK /\ RootInv
  BY DEF BaseInv
<1>4. PICK pl \in {"dir_add", "release_sector"} :
        /\ Move(t, pl, frame[t])
        /\ free_map \subseteq free_map' /\ free_map' \subseteq Sector
        /\ disk' \in [Sector -> inode_disk]
        /\ \A s \in Sector : Data(disk'[s]) \subseteq Sector \ {ROOT_DIR_SECTOR}
  <2> DEFINE n == frame[t].size
             d == [start |-> Least(Runs(n)), sectors |-> n, file |-> frame[t].file]
  <2>1. CASE /\ Runs(n) # {}
             /\ free_map' = free_map \cup Data(d)
             /\ disk' = [s \in Sector |->
                           IF s = frame[t].inode_sector THEN d
                           ELSE IF s \in Data(d) THEN Zeros ELSE disk[s]]
             /\ Goto(t, "dir_add")
    <3>1. n \in Nat
      BY <1>2 DEF Frame
    <3>2. d.start \in Sector /\ Data(d) \subseteq Sector \ free_map
      BY <1>3, <2>1, <3>1, LeastRun DEF Data
    <3>3. d \in inode_disk
      BY <1>2, <3>1, <3>2 DEF inode_disk, Frame
    <3>4. Data(Zeros) = {} /\ Zeros \in inode_disk
      BY NoFrameOK DEF Data, Zeros
    <3> HIDE DEF d
    <3>5. disk' \in [Sector -> inode_disk]
      BY <1>3, <2>1, <3>3, <3>4 DEF FileSysTypeOK
    <3>6. Data(d) \subseteq Sector \ {ROOT_DIR_SECTOR}
      BY <1>3, <3>2 DEF RootInv
    <3>7. ASSUME NEW s \in Sector PROVE Data(disk'[s]) \subseteq Sector \ {ROOT_DIR_SECTOR}
      <4>1. disk'[s] \in {d, Zeros, disk[s]}
        BY <2>1
      <4> QED BY <1>3, <3>4, <3>6, <4>1 DEF RootInv
    <3>8. Move(t, "dir_add", frame[t])
      BY <1>1, <1>3, <2>1 DEF Move, Goto, FileSysTypeOK
    <3>9. free_map \subseteq free_map' /\ free_map' \subseteq Sector
      BY <1>3, <2>1, <3>2 DEF FileSysTypeOK
    <3> QED BY <3>5, <3>7, <3>8, <3>9
  <2>2. CASE Goto(t, "release_sector") /\ UNCHANGED <<free_map, disk>>
    <3>1. Move(t, "release_sector", frame[t])
      BY <1>1, <2>2, <1>3 DEF Move, Goto, FileSysTypeOK
    <3> QED BY <1>3, <2>2, <3>1 DEF FileSysTypeOK, RootInv
  <2> QED BY <2>1, <2>2 DEF InodeCreate
<1>5. /\ FrameOK(pl, frame[t]) /\ pl \in Places /\ ~HoldsDir(pl, frame[t])
      /\ pl \in Releasing <=> pc[t] \in Releasing
  BY <1>1, <1>2 DEF FrameOK, Places, HoldsDir, Creating, Releasing
<1>6. /\ free_map' \subseteq Sector /\ disk' \in [Sector -> inode_disk]
      /\ entries' \in [Slot -> dir_entry] /\ created' \in 0..MaxFiles
      /\ lost' \subseteq Sector /\ panicked' \in BOOLEAN
  BY <1>1, <1>3, <1>4 DEF FileSysTypeOK
<1>7. /\ ROOT_DIR_SECTOR \in free_map'
      /\ \A s \in Slot : entries'[s].in_use => entries'[s].inode_sector # ROOT_DIR_SECTOR
      /\ frame[t].inode_sector # ROOT_DIR_SECTOR
      /\ \A s \in Sector : Data(disk'[s]) \subseteq Sector \ {ROOT_DIR_SECTOR}
  BY <1>1, <1>3, <1>4 DEF RootInv, Listed, HasSector
<1> QED BY <1>1, <1>2, <1>4, <1>5, <1>6, <1>7, QuietKeeps

\* All directories are the root, and whoever is in dir_remove holds its lock.
LEMMA OneDirectory ==
    ASSUME BaseInv, NEW t \in Thread, NEW u \in Thread, frame[t].dir # NULL, frame[u].dir # NULL
    PROVE  /\ frame[t].dir = frame[u].dir /\ frame[t].dir \in Pointer
           /\ HoldsDir(pc[u], frame[u]) <=> inode[frame[t].dir].inode_lock = u
<1>1. /\ frame[t].dir \in open_inodes /\ frame[u].dir \in open_inodes /\ open_inodes \subseteq Pointer
      /\ inode[frame[t].dir].sector = inode[frame[u].dir].sector
  BY DEF BaseInv, RefInv, IsRoot, FileSysTypeOK
<1>2. frame[t].dir = frame[u].dir
  BY <1>1 DEF BaseInv, CountInv
<1> QED BY <1>1, <1>2 DEF BaseInv, LocksInv

LEMMA NoneHolds ==
    ASSUME BaseInv, NEW t \in Thread, frame[t].dir # NULL,
           inode[frame[t].dir].inode_lock \in {t, NoThread}
    PROVE  \A u \in Thread : u # t => ~HoldsDir(pc[u], frame[u])
<1> SUFFICES ASSUME NEW u \in Thread, u # t, HoldsDir(pc[u], frame[u])
    PROVE  FALSE
  OBVIOUS
<1>1. FrameOK(pc[u], frame[u])
  BY Here
<1>2. frame[u].dir # NULL
  BY <1>1 DEF FrameOK, HoldsDir
<1>3. inode[frame[t].dir].inode_lock = u
  BY <1>2, OneDirectory
<1> QED BY <1>3, FileSysAssumption

LEMMA DirAddKeeps ==
    ASSUME BaseInv, NEW t \in Thread, DirAdd(t) \/ DirAddBad(t)
    PROVE  BaseInv'
<1>1. /\ pc[t] = "dir_add" /\ Quiet
      /\ free_map' = free_map /\ disk' = disk /\ created' = created
      /\ frame' = frame /\ panicked' \in BOOLEAN
  BY DEF DirAdd, DirAddBad, At, Quiet, dirVars, mapVars, Asserts, BaseInv, FileSysTypeOK
<1>2. /\ frame[t] \in Frame /\ FrameOK("dir_add", frame[t]) /\ inode_lock # t
      /\ ~HoldsDir(pc[t], frame[t]) /\ (frame[t].op = "open" => file[t] = NULL)
  BY <1>1, Here DEF Opening, Releasing, HoldsDir
<1>3. FileSysTypeOK /\ RootInv
  BY DEF BaseInv
<1>4. frame[t].inode_sector \in Sector \ {ROOT_DIR_SECTOR} /\ frame[t].name \in Name
  BY <1>1, <1>2, <1>3 DEF RootInv, HasSector, Frame
<1>5. PICK pl \in {"dir_add", "close_root", "release_sector"} :
        /\ Move(t, pl, frame[t])
        /\ lost' \subseteq Sector
        /\ entries' \in [Slot -> dir_entry]
        /\ \A s \in Slot : entries'[s].in_use => entries'[s].inode_sector # ROOT_DIR_SECTOR
        /\ \/ entries' = entries
           \/ \A u \in Thread : u # t => ~HoldsDir(pc[u], frame[u])
  <2>1. CASE DirAddBad(t)
    <3>1. Move(t, "dir_add", frame[t])
      BY <1>1, <1>3, <2>1 DEF DirAddBad, Move, FileSysTypeOK
    <3> QED BY <1>3, <2>1, <3>1 DEF DirAddBad, dirVars, mapVars, FileSysTypeOK, RootInv, Listed
  <2>2. CASE DirAdd(t)
    <3> DEFINE e == [inode_sector |-> frame[t].inode_sector, name |-> frame[t].name, in_use |-> TRUE]
    <3>1. \A u \in Thread : u # t => ~HoldsDir(pc[u], frame[u])
      BY <1>2, <2>2, NoneHolds DEF DirAdd, FrameOK, Creating
    <3>2. CASE /\ lost' = lost \cup Data(disk[frame[t].inode_sector])
               /\ Goto(t, "release_sector") /\ UNCHANGED entries
      <4>1. Move(t, "release_sector", frame[t])
        BY <1>1, <1>3, <3>2 DEF Move, Goto, FileSysTypeOK
      <4>2. lost' \subseteq Sector
        BY <1>3, <1>4, <3>2 DEF RootInv, FileSysTypeOK
      <4> QED BY <1>3, <3>2, <4>1, <4>2 DEF FileSysTypeOK, RootInv, Listed
    <3>3. CASE /\ Goto(t, "close_root") /\ UNCHANGED lost
               /\ \E s \in Slot : entries' = [entries EXCEPT ![s] = e]
      <4>1. Move(t, "close_root", frame[t])
        BY <1>1, <1>3, <3>3 DEF Move, Goto, FileSysTypeOK
      <4>2. e \in dir_entry /\ e.inode_sector # ROOT_DIR_SECTOR
        BY <1>4 DEF dir_entry
      <4> HIDE DEF e
      <4>3. /\ entries' \in [Slot -> dir_entry]
            /\ \A s \in Slot : entries'[s].in_use => entries'[s].inode_sector # ROOT_DIR_SECTOR
        BY <1>3, <3>3, <4>2 DEF FileSysTypeOK, RootInv, Listed
      <4> QED BY <1>3, <3>1, <3>3, <4>1, <4>3 DEF FileSysTypeOK
    <3> QED BY <2>2, <3>2, <3>3 DEF DirAdd
  <2> QED BY <2>1, <2>2
<1>6. /\ FrameOK(pl, frame[t]) /\ pl \in Places /\ ~HoldsDir(pl, frame[t])
      /\ pl \in Releasing <=> pc[t] \in Releasing
  BY <1>1, <1>2 DEF FrameOK, Places, HoldsDir, Creating, Releasing
<1>7. /\ free_map' \subseteq Sector /\ disk' \in [Sector -> inode_disk]
      /\ entries' \in [Slot -> dir_entry] /\ created' \in 0..MaxFiles
      /\ lost' \subseteq Sector /\ panicked' \in BOOLEAN
  BY <1>1, <1>3, <1>5 DEF FileSysTypeOK
<1>8. /\ ROOT_DIR_SECTOR \in free_map'
      /\ \A s \in Slot : entries'[s].in_use => entries'[s].inode_sector # ROOT_DIR_SECTOR
      /\ \A s \in Sector : Data(disk'[s]) \subseteq Sector \ {ROOT_DIR_SECTOR}
  BY <1>1, <1>3, <1>5 DEF RootInv
<1>9. \A u \in Thread : u # t /\ HoldsDir(pc[u], frame[u]) =>
         entries'[frame[u].ofs] = entries[frame[u].ofs]
  BY <1>5
<1> QED BY <1>1, <1>2, <1>4, <1>5, <1>6, <1>7, <1>8, <1>9, QuietKeeps

LEMMA ReleaseSectorKeeps ==
    ASSUME BaseInv, NEW t \in Thread, ReleaseSector(t)
    PROVE  BaseInv'
<1>1. /\ pc[t] = "release_sector" /\ Quiet
      /\ free_map' = free_map \ {frame[t].inode_sector}
      /\ disk' = disk /\ lost' = lost /\ entries' = entries /\ created' = created
      /\ frame' = frame /\ panicked' \in BOOLEAN /\ pc' = [pc EXCEPT ![t] = "close_root"]
  BY DEF ReleaseSector, free_map_release, Asserts, Goto, At, Quiet, dirVars
<1>2. /\ frame[t] \in Frame /\ FrameOK("release_sector", frame[t]) /\ inode_lock # t
      /\ ~HoldsDir(pc[t], frame[t]) /\ (frame[t].op = "open" => file[t] = NULL)
  BY <1>1, Here DEF Opening, Releasing, HoldsDir
<1>3. FileSysTypeOK /\ RootInv
  BY DEF BaseInv
<1>4. Move(t, "close_root", frame[t])
  BY <1>1, <1>3 DEF Move, FileSysTypeOK
<1>5. /\ FrameOK("close_root", frame[t]) /\ "close_root" \in Places /\ ~HoldsDir("close_root", frame[t])
      /\ "close_root" \in Releasing <=> pc[t] \in Releasing
      /\ "close_root" \notin HasSector \cup {"open_node"}
  BY <1>1, <1>2 DEF FrameOK, Places, HoldsDir, Creating, Releasing, HasSector
<1>6. /\ free_map' \subseteq Sector /\ disk' \in [Sector -> inode_disk]
      /\ entries' \in [Slot -> dir_entry] /\ created' \in 0..MaxFiles
      /\ lost' \subseteq Sector /\ panicked' \in BOOLEAN
  BY <1>1, <1>3 DEF FileSysTypeOK
<1>7. /\ ROOT_DIR_SECTOR \in free_map'
      /\ \A s \in Slot : entries'[s].in_use => entries'[s].inode_sector # ROOT_DIR_SECTOR
      /\ \A s \in Sector : Data(disk'[s]) \subseteq Sector \ {ROOT_DIR_SECTOR}
  BY <1>1, <1>3 DEF RootInv, Listed, HasSector
<1> QED BY <1>1, <1>2, <1>4, <1>5, <1>6, <1>7, QuietKeeps

LEMMA ReleaseInodeKeeps ==
    ASSUME BaseInv, NEW t \in Thread, ReleaseInode(t)
    PROVE  BaseInv'
<1>1. /\ pc[t] = "release_inode" /\ Quiet
      /\ free_map' = free_map \ {inode[frame[t].node].sector}
      /\ disk' = disk /\ lost' = lost /\ entries' = entries /\ created' = created
      /\ frame' = frame /\ panicked' \in BOOLEAN /\ pc' = [pc EXCEPT ![t] = "release_data"]
  BY DEF ReleaseInode, free_map_release, Asserts, Goto, At, Quiet, dirVars
<1>2. /\ frame[t] \in Frame /\ FrameOK("release_inode", frame[t])
      /\ ~HoldsDir(pc[t], frame[t]) /\ (frame[t].op = "open" => file[t] = NULL)
  BY <1>1, Here DEF HoldsDir
<1>3. FileSysTypeOK /\ RootInv
  BY DEF BaseInv
<1>4. Move(t, "release_data", frame[t])
  BY <1>1, <1>3 DEF Move, FileSysTypeOK
<1>5. /\ FrameOK("release_data", frame[t]) /\ "release_data" \in Places
      /\ ~HoldsDir("release_data", frame[t])
      /\ "release_data" \in Releasing /\ pc[t] \in Releasing
      /\ "release_data" \notin HasSector \cup {"open_node"}
  BY <1>1, <1>2 DEF FrameOK, Places, HoldsDir, Creating, Releasing, HasSector
<1>6. /\ free_map' \subseteq Sector /\ disk' \in [Sector -> inode_disk]
      /\ entries' \in [Slot -> dir_entry] /\ created' \in 0..MaxFiles
      /\ lost' \subseteq Sector /\ panicked' \in BOOLEAN
  BY <1>1, <1>3 DEF FileSysTypeOK
<1>7. inode[frame[t].node].sector # ROOT_DIR_SECTOR
  BY <1>2, <1>5 DEF BaseInv, RefInv, IsRoot, FrameOK
<1>8. /\ ROOT_DIR_SECTOR \in free_map'
      /\ \A s \in Slot : entries'[s].in_use => entries'[s].inode_sector # ROOT_DIR_SECTOR
      /\ \A s \in Sector : Data(disk'[s]) \subseteq Sector \ {ROOT_DIR_SECTOR}
  BY <1>1, <1>3, <1>7 DEF RootInv, Listed
<1> QED BY <1>1, <1>2, <1>4, <1>5, <1>6, <1>8, QuietKeeps

LEMMA LookupKeeps ==
    ASSUME BaseInv, NEW t \in Thread, Lookup(t)
    PROVE  BaseInv'
<1>1. /\ pc[t] = "lookup" /\ Quiet /\ UNCHANGED mapVars /\ UNCHANGED entries
      /\ UNCHANGED panicked /\ created' = created
  BY DEF Lookup, At, Quiet, dirVars
<1>2. /\ frame[t] \in Frame /\ FrameOK("lookup", frame[t]) /\ inode_lock # t
      /\ ~HoldsDir(pc[t], frame[t]) /\ (frame[t].op = "open" => file[t] = NULL)
  BY <1>1, Here DEF Opening, Releasing, HoldsDir
<1>3. FileSysTypeOK /\ RootInv
  BY DEF BaseInv
<1>4. PICK pl \in {"lookup", "open_node", "close_root"}, f \in Frame :
        /\ Move(t, pl, f)
        /\ f.op = frame[t].op /\ f.dir = frame[t].dir /\ f.node = frame[t].node
        /\ pl = "open_node" => f.inode_sector # ROOT_DIR_SECTOR
  <2> DEFINE e == entries[frame[t].ofs]
  <2>1. CASE /\ frame[t].ofs \in Slot /\ e.in_use
             /\ frame' = [frame EXCEPT ![t].inode_sector = e.inode_sector,
                                       ![t].file = disk[e.inode_sector].file]
             /\ Goto(t, "open_node")
    <3> DEFINE f == [frame[t] EXCEPT !.inode_sector = e.inode_sector,
                                     !.file = disk[e.inode_sector].file]
    <3>1. e.inode_sector \in Sector \ {ROOT_DIR_SECTOR}
      BY <1>3, <2>1 DEF RootInv, Listed, FileSysTypeOK, dir_entry
    <3>2. disk[e.inode_sector].file \in File \cup {NULL}
      BY <1>3, <3>1 DEF FileSysTypeOK, inode_disk
    <3>3. /\ f \in Frame /\ f.inode_sector = e.inode_sector
          /\ f.op = frame[t].op /\ f.dir = frame[t].dir /\ f.node = frame[t].node
      BY <1>2, <3>1, <3>2 DEF Frame
    <3>4. Move(t, "open_node", f)
      BY <2>1, <1>3 DEF Move, Goto, FileSysTypeOK
    <3> HIDE DEF f, e
    <3> QED BY <3>1, <3>3, <3>4
  <2>2. CASE frame' = [frame EXCEPT ![t].ofs = @ + 1] /\ UNCHANGED pc
    <3> DEFINE f == [frame[t] EXCEPT !.ofs = @ + 1]
    <3>1. /\ f \in Frame
          /\ f.op = frame[t].op /\ f.dir = frame[t].dir /\ f.node = frame[t].node
      BY <1>2 DEF Frame
    <3>2. Move(t, "lookup", f)
      BY <1>1, <2>2, <1>3 DEF Move, FileSysTypeOK
    <3> HIDE DEF f
    <3> QED BY <3>1, <3>2
  <2>3. CASE Goto(t, "close_root") /\ UNCHANGED frame
    <3>1. Move(t, "close_root", frame[t])
      BY <2>3, <1>3 DEF Move, Goto, FileSysTypeOK
    <3> QED BY <1>2, <3>1
  <2> QED BY <2>1, <2>2, <2>3 DEF Lookup
<1>5. /\ FrameOK(pl, f) /\ pl \in Places /\ ~HoldsDir(pl, f)
      /\ pl \in Releasing <=> pc[t] \in Releasing
      /\ pl \in HasSector \cup {"open_node"} => f.inode_sector # ROOT_DIR_SECTOR
  BY <1>1, <1>2, <1>4 DEF FrameOK, Places, HoldsDir, Creating, Releasing, HasSector
<1>6. created' \in 0..MaxFiles
  BY <1>1, <1>3 DEF FileSysTypeOK
<1> QED BY <1>1, <1>2, <1>4, <1>5, <1>6, QuieterKeeps

-----------------------------------------------------------------------------
(* The steps that change references or locks.                              *)

\* What they leave alone.
DiskStays == UNCHANGED <<disk, lost, created>> /\ panicked' \in BOOLEAN

LEMMA RestKeeps ==
    ASSUME BaseInv, NEW t \in Thread, NEW pl \in Places, NEW f \in Frame,
           NEW g \in Pointer \cup {NULL}, Move(t, pl, f), HasOpen(t, g),
           RefInv', CountInv', LocksInv', DiskStays,
           free_map' \subseteq Sector, ROOT_DIR_SECTOR \in free_map',
           /\ inode' \in [Pointer -> Inode] /\ open_inodes' \subseteq Pointer
           /\ inode_lock' \in Thread \cup {NoThread},
           \A p \in Pointer : ROOT_DIR_SECTOR \notin Data(inode'[p].data),
           /\ entries' \in [Slot -> dir_entry]
           /\ \A s \in Slot : entries'[s].in_use => entries'[s].inode_sector # ROOT_DIR_SECTOR,
           pl \in HasSector \cup {"open_node"} => f.inode_sector # ROOT_DIR_SECTOR,
           \A u \in Thread : u # t /\ HoldsDir(pc[u], frame[u]) =>
             entries'[frame[u].ofs] = entries[frame[u].ofs],
           HoldsDir(pl, f) =>
             /\ f.ofs \in Slot /\ entries'[f.ofs].in_use
             /\ entries'[f.ofs].name = f.name /\ entries'[f.ofs].inode_sector = f.inode_sector
    PROVE  BaseInv'
<1>1. FileSysTypeOK /\ RootInv /\ EraseInv
  BY DEF BaseInv
<1>2. /\ disk' \in [Sector -> inode_disk] /\ lost' \subseteq Sector /\ created' \in 0..MaxFiles
      /\ panicked' \in BOOLEAN
      /\ \A s \in Sector : Data(disk'[s]) \subseteq Sector \ {ROOT_DIR_SECTOR}
  BY <1>1 DEF FileSysTypeOK, RootInv, DiskStays
<1>3. /\ pc' \in [Thread -> Places] /\ frame' \in [Thread -> Frame]
      /\ file' \in [Thread -> Pointer \cup {NULL}]
  BY <1>1 DEF FileSysTypeOK, Move, HasOpen, Places
<1>4. FileSysTypeOK'
  BY <1>2, <1>3 DEF FileSysTypeOK, Places
<1>5. RootInv'
  BY <1>1, <1>2, RootStep
<1>6. EraseInv'
  BY <1>1, EraseStep
<1> QED BY <1>4, <1>5, <1>6 DEF BaseInv

\* The same where the directory does not change.
DirStays == UNCHANGED <<entries, free_map>>

LEMMA RestKeepsDir ==
    ASSUME BaseInv, NEW t \in Thread, NEW pl \in Places, NEW f \in Frame,
           NEW g \in Pointer \cup {NULL}, Move(t, pl, f), HasOpen(t, g),
           RefInv', CountInv', LocksInv', DiskStays, DirStays,
           /\ inode' \in [Pointer -> Inode] /\ open_inodes' \subseteq Pointer
           /\ inode_lock' \in Thread \cup {NoThread},
           \A p \in Pointer : ROOT_DIR_SECTOR \notin Data(inode'[p].data),
           pl \in HasSector \cup {"open_node"} => f.inode_sector # ROOT_DIR_SECTOR,
           HoldsDir(pl, f) =>
             /\ f.ofs \in Slot /\ entries[f.ofs].in_use
             /\ entries[f.ofs].name = f.name /\ entries[f.ofs].inode_sector = f.inode_sector
    PROVE  BaseInv'
<1>1. /\ entries' = entries /\ free_map' = free_map
      /\ entries \in [Slot -> dir_entry] /\ free_map \subseteq Sector
      /\ ROOT_DIR_SECTOR \in free_map
      /\ \A s \in Slot : entries[s].in_use => entries[s].inode_sector # ROOT_DIR_SECTOR
  BY DEF DirStays, BaseInv, FileSysTypeOK, RootInv, Listed
<1> QED BY <1>1, RestKeeps

\* What t has found in dir_remove.
LEMMA HereHolds ==
    ASSUME BaseInv, NEW t \in Thread, HoldsDir(pc[t], frame[t])
    PROVE  LET e == entries[frame[t].ofs]
           IN  /\ frame[t].ofs \in Slot /\ e.in_use
               /\ e.name = frame[t].name /\ e.inode_sector = frame[t].inode_sector
BY DEF BaseInv, EraseInv

\* Taking the lock of the list.
LEMMA TakeListKeeps ==
    ASSUME BaseInv, NEW t \in Thread, OpenFound(t) \/ CloseLock(t)
    PROVE  BaseInv'
<1>1. /\ pc[t] \in Opening \cup {"close_root", "close_node"}
      /\ inode_lock = NoThread /\ inode_lock' = t
      /\ inode' = inode /\ open_inodes' = open_inodes /\ file' = file /\ UNCHANGED <<pc, frame>>
      /\ DiskStays /\ DirStays
  BY DEF OpenFound, CloseLock, At, Opening, DiskStays, DirStays, dirVars, mapVars,
         BaseInv, FileSysTypeOK
<1>2. /\ FileSysTypeOK /\ RefInv /\ CountInv /\ LocksInv /\ RootInv
  BY DEF BaseInv
<1>3. /\ pc[t] \in Places /\ frame[t] \in Frame /\ file[t] \in Pointer \cup {NULL}
      /\ FrameOK(pc[t], frame[t]) /\ (frame[t].op = "open" => file[t] = NULL)
      /\ Move(t, pc[t], frame[t]) /\ HasOpen(t, file[t])
  BY <1>1, Here
<1>4. RefInv' /\ CountInv'
  BY <1>1, <1>2, <1>3, StayStep
<1>5. LocksInv'
  <2>1. \A p \in Pointer :
          /\ inode'[p].inode_lock = t <=> HoldsDir(pc[t], frame[t]) /\ frame[t].dir = p
          /\ \A u \in Thread : u # t => (inode'[p].inode_lock = u <=> inode[p].inode_lock = u)
    BY <1>1, <1>2 DEF LocksInv
  <2>2. \A u \in Thread : u # t => (inode_lock' = u <=> inode_lock = u)
    BY <1>1, FileSysAssumption
  <2> QED BY <1>1, <1>2, <1>3, <2>1, <2>2, LockStep
<1>6. /\ inode' \in [Pointer -> Inode] /\ open_inodes' \subseteq Pointer
      /\ inode_lock' \in Thread \cup {NoThread}
      /\ \A p \in Pointer : ROOT_DIR_SECTOR \notin Data(inode'[p].data)
      /\ pc[t] \in HasSector \cup {"open_node"} => frame[t].inode_sector # ROOT_DIR_SECTOR
  BY <1>1, <1>2 DEF FileSysTypeOK, RootInv
<1>7. HoldsDir(pc[t], frame[t]) =>
             /\ frame[t].ofs \in Slot /\ entries[frame[t].ofs].in_use
             /\ entries[frame[t].ofs].name = frame[t].name
             /\ entries[frame[t].ofs].inode_sector = frame[t].inode_sector
  BY HereHolds
<1> QED BY <1>1, <1>3, <1>4, <1>5, <1>6, <1>7, RestKeepsDir

LEMMA NullNoPointer == NULL \notin Pointer
BY DEF NULL, Pointer

\* The call under way hands its inode over as the open file, or the other way.
LEMMA HandOver ==
    ASSUME BaseInv, NEW t \in Thread, NEW pl \in {"idle", "close_node"}, NEW f \in Frame,
           NEW g \in Pointer \cup {NULL}, Move(t, pl, f), HasOpen(t, g), FrameOK(pl, f),
           pc[t] \in {"idle", "file_open"}, f.op = "open" => g = NULL,
           f.dir = NULL, frame[t].dir = NULL,
           \/ f.node = NULL /\ file[t] = NULL /\ g = frame[t].node
           \/ g = NULL /\ frame[t].node = NULL /\ f.node = file[t] /\ f.node # NULL,
           UNCHANGED inodeVars, DiskStays, DirStays
    PROVE  BaseInv'
<1>1. FileSysTypeOK /\ RefInv /\ CountInv /\ LocksInv /\ RootInv
  BY DEF BaseInv
<1>2. inode' = inode /\ open_inodes' = open_inodes /\ inode_lock' = inode_lock
  BY DEF inodeVars
<1>3. /\ pl \in Places /\ pl \notin Releasing \cup HasSector \cup Opening
      /\ pc[t] \notin Releasing \cup {"open_node", "remove_erase"}
      /\ inode_lock # t /\ ~HoldsDir(pl, f) /\ ~HoldsDir(pc[t], frame[t])
      /\ "open_node" \in Opening
  BY Here DEF Places, Releasing, HasSector, Opening, HoldsDir
<1>4. \A u \in Thread : \A p \in {frame[u].dir, frame[u].node, file[u]} \ {NULL} :
        inode'[p].sector = inode[p].sector /\ (p \in open_inodes' <=> p \in open_inodes)
  BY <1>2
<1>5. RefInv'
  <2>1. /\ frame[t].node # NULL => frame[t].node \in open_inodes /\ inode[frame[t].node].sector # ROOT_DIR_SECTOR
        /\ file[t] # NULL => file[t] \in open_inodes /\ inode[file[t]].sector # ROOT_DIR_SECTOR
    BY <1>1, <1>3 DEF RefInv, IsRoot
  <2>2. /\ f.node # NULL =>
             /\ inode'[f.node].sector # ROOT_DIR_SECTOR
             /\ pl \in Releasing <=> f.node \notin open_inodes'
        /\ g # NULL => g \in open_inodes' /\ inode'[g].sector # ROOT_DIR_SECTOR
    BY <1>2, <1>3, <2>1
  <2> QED BY <1>1, <1>4, <2>2, RefStep
<1>6. CountInv'
  <2>1. \A p, q \in open_inodes' : inode'[p].sector = inode'[q].sector => p = q
    BY <1>1, <1>2 DEF CountInv
  <2>2. ASSUME NEW p \in open_inodes'
        PROVE  inode'[p].open_cnt =
                 Refs(frame, file, p) + Bits(f, g, p) - Bits(frame[t], file[t], p)
    <3>1. p \in Pointer /\ p # NULL
      BY <1>1, <1>2, NullNoPointer DEF FileSysTypeOK
    <3>2. Refs(frame, file, p) \in Nat
      BY <1>1, RefsMove DEF FileSysTypeOK
    <3>3. inode'[p].open_cnt = Refs(frame, file, p)
      BY <1>1, <1>2 DEF CountInv
    <3>4. Bits(f, g, p) = Bits(frame[t], file[t], p) /\ Bits(f, g, p) \in Int
      BY <3>1 DEF Bits, Bit
    <3> QED BY <3>2, <3>3, <3>4
  <2> QED BY <1>1, <2>1, <2>2, CountStep
<1>7. LocksInv'
  <2>1. \A p \in Pointer : inode'[p].inode_lock = t <=> HoldsDir(pl, f) /\ f.dir = p
    BY <1>1, <1>2, <1>3 DEF LocksInv
  <2> QED BY <1>1, <1>2, <1>3, <2>1, LockStep
<1>8. /\ inode' \in [Pointer -> Inode] /\ open_inodes' \subseteq Pointer
      /\ inode_lock' \in Thread \cup {NoThread}
      /\ \A p \in Pointer : ROOT_DIR_SECTOR \notin Data(inode'[p].data)
  BY <1>1, <1>2 DEF FileSysTypeOK, RootInv
<1> QED BY <1>3, <1>5, <1>6, <1>7, <1>8, RestKeepsDir

LEMMA CallCloseKeeps ==
    ASSUME BaseInv, NEW t \in Thread, CallClose(t)
    PROVE  BaseInv'
<1> DEFINE f == [NoFrame EXCEPT !.op = "close", !.name = NoFrame.name, !.size = 0,
                                !.file = NULL, !.node = file[t]]
<1>1. /\ pc[t] = "idle" /\ file[t] # NULL
      /\ Move(t, "close_node", f) /\ HasOpen(t, NULL)
      /\ UNCHANGED inodeVars /\ DiskStays /\ DirStays
  BY DEF CallClose, Enter, Goto, At, Move, HasOpen, DiskStays, DirStays, dirVars, mapVars,
         BaseInv, FileSysTypeOK
<1>2. /\ FrameOK("idle", frame[t]) /\ file[t] \in Pointer \cup {NULL}
  BY <1>1, Here
<1>3. frame[t].dir = NULL /\ frame[t].node = NULL
  BY <1>2 DEF FrameOK
<1>4. /\ f \in Frame /\ f.op = "close" /\ f.dir = NULL /\ f.node = file[t]
  BY <1>2, NoFrameOK DEF Frame, Op
<1> HIDE DEF f
<1>5. FrameOK("close_node", f)
  BY <1>1, <1>4 DEF FrameOK, Creating, Releasing
<1> QED BY <1>1, <1>3, <1>4, <1>5, HandOver

LEMMA FileOpenKeeps ==
    ASSUME BaseInv, NEW t \in Thread, FileOpen(t)
    PROVE  BaseInv'
<1>1. /\ pc[t] = "file_open" /\ UNCHANGED inodeVars /\ DiskStays /\ DirStays
  BY DEF FileOpen, At, DiskStays, DirStays, dirVars, mapVars, BaseInv, FileSysTypeOK
<1>2. /\ FrameOK("file_open", frame[t]) /\ frame[t] \in Frame
      /\ frame[t].op = "open" => file[t] = NULL
  BY <1>1, Here
<1>3. /\ frame[t].op = "open" /\ frame[t].dir = NULL /\ frame[t].node # NULL /\ file[t] = NULL
      /\ frame[t].node \in Pointer \cup {NULL}
  BY <1>2 DEF FrameOK, Frame
<1>4. CASE file' = [file EXCEPT ![t] = frame[t].node] /\ Return(t)
  <2>1. Move(t, "idle", NoFrame) /\ HasOpen(t, frame[t].node)
    BY <1>4 DEF Return, Goto, Move, HasOpen
  <2>2. FrameOK("idle", NoFrame)
    BY NoFrameOK DEF FrameOK, Creating, Releasing
  <2> QED BY <1>1, <1>3, <2>1, <2>2, NoFrameOK, HandOver
<1>5. CASE Goto(t, "close_node") /\ UNCHANGED <<file, frame>>
  <2>1. Move(t, "close_node", frame[t]) /\ Quiet
    BY <1>1, <1>5, Here DEF Goto, Move, Quiet, BaseInv, FileSysTypeOK
  <2>2. FrameOK("close_node", frame[t])
    BY <1>3 DEF FrameOK, Creating, Releasing
  <2>3. /\ ~HoldsDir("close_node", frame[t]) /\ ~HoldsDir(pc[t], frame[t])
        /\ "close_node" \in Places /\ "close_node" \notin HasSector \cup {"open_node"}
        /\ "close_node" \in Releasing <=> pc[t] \in Releasing
    BY <1>1 DEF HoldsDir, Places, HasSector, Releasing
  <2>4. /\ UNCHANGED mapVars /\ UNCHANGED entries /\ created' \in 0..MaxFiles
        /\ UNCHANGED panicked
    BY DEF FileOpen, dirVars, BaseInv, FileSysTypeOK
  <2> QED BY <1>2, <1>3, <2>1, <2>2, <2>3, <2>4, QuieterKeeps
<1> QED BY <1>4, <1>5 DEF FileOpen

\* The lock of the directory changes hands, the rest of the inodes stays.
LEMMA LockDir ==
    ASSUME BaseInv, NEW t \in Thread, NEW pl \in Places, NEW f \in Frame, Move(t, pl, f),
           FrameOK(pl, f), f.op = frame[t].op, f.dir = frame[t].dir, f.node = frame[t].node,
           f.dir # NULL,
           pl \notin Releasing, pc[t] \notin Releasing,
           inode_lock # t, UNCHANGED <<open_inodes, inode_lock, file>>, DiskStays,
           inode' \in [Pointer -> Inode],
           \A p \in Pointer :
             /\ inode'[p].sector = inode[p].sector /\ inode'[p].open_cnt = inode[p].open_cnt
             /\ inode'[p].data = inode[p].data
             /\ p # f.dir => inode'[p].inode_lock = inode[p].inode_lock,
           inode[f.dir].inode_lock \in {t, NoThread},
           inode'[f.dir].inode_lock = (IF HoldsDir(pl, f) THEN t ELSE NoThread)
    PROVE  /\ RefInv' /\ CountInv' /\ LocksInv' /\ HasOpen(t, file[t])
           /\ open_inodes' \subseteq Pointer /\ inode_lock' \in Thread \cup {NoThread}
           /\ \A p \in Pointer : ROOT_DIR_SECTOR \notin Data(inode'[p].data)
           /\ \A u \in Thread : u # t => ~HoldsDir(pc[u], frame[u])
<1>1. FileSysTypeOK /\ RefInv /\ CountInv /\ LocksInv /\ RootInv
  BY DEF BaseInv
<1>2. RefInv' /\ CountInv'
  <2>1. f.op = "open" => file[t] = NULL
    BY Here
  <2> QED BY <1>1, <2>1, StayStep
<1>3. f.dir \in Pointer
  BY OneDirectory
<1>4. LocksInv'
  <2>1. ASSUME NEW p \in Pointer
        PROVE  /\ inode'[p].inode_lock = t <=> HoldsDir(pl, f) /\ f.dir = p
               /\ \A u \in Thread : u # t => (inode'[p].inode_lock = u <=> inode[p].inode_lock = u)
    <3>1. CASE p = f.dir
      BY <3>1, FileSysAssumption
    <3>2. CASE p # f.dir
      BY <1>1, <3>2 DEF LocksInv
    <3> QED BY <3>1, <3>2
  <2> QED BY <1>1, <2>1, LockStep
<1>5. \A u \in Thread : u # t => ~HoldsDir(pc[u], frame[u])
  BY NoneHolds
<1> QED BY <1>1, <1>2, <1>4, <1>5 DEF FileSysTypeOK, HasOpen, RootInv

LEMMA RemoveFindKeeps ==
    ASSUME BaseInv, NEW t \in Thread, RemoveFind(t)
    PROVE  BaseInv'
<1> DEFINE d == frame[t].dir
<1>1. /\ pc[t] = "remove_find" /\ inode[d].inode_lock = NoThread
      /\ UNCHANGED <<open_inodes, inode_lock, file>> /\ DiskStays /\ DirStays
  BY DEF RemoveFind, At, DiskStays, DirStays, dirVars, mapVars, BaseInv, FileSysTypeOK
<1>2. FileSysTypeOK /\ RootInv
  BY DEF BaseInv
<1>3. /\ frame[t] \in Frame /\ FrameOK("remove_find", frame[t]) /\ inode_lock # t
      /\ file[t] \in Pointer \cup {NULL}
      /\ pc[t] \notin Releasing
  BY <1>1, Here DEF Opening, Releasing
<1>4. frame[t].op = "remove" /\ d # NULL /\ frame[t].node = NULL /\ d \in Pointer
  BY <1>3, OneDirectory DEF FrameOK
<1>5. PICK pl \in {"open_node", "close_root"}, f \in Frame :
        /\ Move(t, pl, f)
        /\ f.op = frame[t].op /\ f.dir = d /\ f.node = frame[t].node
        /\ pl = "open_node" =>
             /\ f.inode_sector # ROOT_DIR_SECTOR
             /\ f.ofs \in Slot /\ entries[f.ofs].in_use
             /\ entries[f.ofs].name = f.name /\ entries[f.ofs].inode_sector = f.inode_sector
             /\ inode' = [inode EXCEPT ![d].inode_lock = t]
        /\ pl = "close_root" => inode' = inode
  <2>1. PICK n \in Seen :
         LET found == Named(frame[t].name, n) IN
         \/ /\ found # {}
            /\ LET s == Least(found) IN
                 frame' = [frame EXCEPT ![t].ofs = s,
                             ![t].inode_sector = entries[s].inode_sector]
            /\ inode' = [inode EXCEPT ![d].inode_lock = t]
            /\ Goto(t, "open_node")
         \/ /\ found = {}
            /\ Goto(t, "close_root")
            /\ UNCHANGED <<inode, frame>>
    BY DEF RemoveFind
  <2> DEFINE found == Named(frame[t].name, n)
             s == Least(found)
  <2>2. CASE found # {} /\ frame' = [frame EXCEPT ![t].ofs = s,
                                       ![t].inode_sector = entries[s].inode_sector]
             /\ inode' = [inode EXCEPT ![d].inode_lock = t] /\ Goto(t, "open_node")
    <3> DEFINE f == [frame[t] EXCEPT !.ofs = s, !.inode_sector = entries[s].inode_sector]
    <3>1. n \in 0..DirSize /\ found \in SUBSET Nat
      BY FileSysAssumption DEF Seen, Named
    <3>2. s \in found
      BY <2>2, <3>1, LeastIn
    <3>3. s \in Slot /\ entries[s].in_use /\ entries[s].name = frame[t].name
      BY <3>1, <3>2, FileSysAssumption DEF Named, Slot
    <3> HIDE DEF s, found
    <3>4. entries[s].inode_sector \in Sector \ {ROOT_DIR_SECTOR}
      BY <1>2, <3>3 DEF RootInv, Listed, FileSysTypeOK, dir_entry
    <3>5. /\ f \in Frame /\ f.ofs = s /\ f.inode_sector = entries[s].inode_sector
          /\ f.name = frame[t].name
          /\ f.op = frame[t].op /\ f.dir = d /\ f.node = frame[t].node
      <4> DEFINE e == entries[s].inode_sector
      <4>1. s \in Nat /\ e \in Sector
        BY <3>3, <3>4, FileSysAssumption DEF Slot
      <4> HIDE DEF e
      <4>2. f = [frame[t] EXCEPT !.ofs = s, !.inode_sector = e]
        BY DEF e
      <4>3. e = entries[s].inode_sector
        BY DEF e
      <4> HIDE DEF f
      <4> QED BY <1>3, <4>1, <4>2, <4>3 DEF Frame
    <3>6. Move(t, "open_node", f)
      BY <2>2, <1>2 DEF Move, Goto, FileSysTypeOK
    <3> HIDE DEF f
    <3> QED BY <2>2, <3>3, <3>4, <3>5, <3>6
  <2>3. CASE Goto(t, "close_root") /\ UNCHANGED <<inode, frame>>
    <3>1. Move(t, "close_root", frame[t])
      BY <2>3, <1>2 DEF Move, Goto, FileSysTypeOK
    <3> QED BY <1>3, <2>3, <3>1
  <2> QED BY <2>1, <2>2, <2>3
<1> HIDE DEF d
<1>6. /\ FrameOK(pl, f) /\ pl \in Places /\ pl \notin Releasing
      /\ HoldsDir(pl, f) <=> pl = "open_node"
      /\ pl \notin HasSector
  BY <1>3, <1>4, <1>5 DEF FrameOK, Places, HoldsDir, Creating, Releasing, HasSector, d
<1>7. /\ inode' \in [Pointer -> Inode]
      /\ \A p \in Pointer :
             /\ inode'[p].sector = inode[p].sector /\ inode'[p].open_cnt = inode[p].open_cnt
             /\ inode'[p].data = inode[p].data
             /\ p # d => inode'[p].inode_lock = inode[p].inode_lock
      /\ inode'[d].inode_lock = (IF HoldsDir(pl, f) THEN t ELSE NoThread)
  <2>1. inode \in [Pointer -> Inode]
    BY <1>2 DEF FileSysTypeOK
  <2>2. CASE pl = "open_node"
    BY <1>4, <1>5, <1>6, <2>1, <2>2 DEF Inode
  <2>3. CASE pl = "close_root"
    BY <1>1, <1>5, <1>6, <2>1, <2>3 DEF d
  <2> QED BY <1>5, <2>2, <2>3
<1>8. /\ RefInv' /\ CountInv' /\ LocksInv' /\ HasOpen(t, file[t])
      /\ open_inodes' \subseteq Pointer /\ inode_lock' \in Thread \cup {NoThread}
      /\ \A p \in Pointer : ROOT_DIR_SECTOR \notin Data(inode'[p].data)
  BY <1>1, <1>3, <1>4, <1>5, <1>6, <1>7, LockDir DEF d
<1> QED BY <1>1, <1>3, <1>5, <1>6, <1>7, <1>8, RestKeepsDir

LEMMA RemoveEraseKeeps ==
    ASSUME BaseInv, NEW t \in Thread, RemoveErase(t)
    PROVE  BaseInv'
<1> DEFINE d == frame[t].dir
           ofs == frame[t].ofs
<1>1. /\ pc[t] = "remove_erase" /\ UNCHANGED <<open_inodes, inode_lock, file>> /\ DiskStays
      /\ UNCHANGED frame /\ UNCHANGED free_map /\ Goto(t, "close_node")
      /\ entries' = entries \/ entries' = [entries EXCEPT ![ofs].in_use = FALSE]
  BY DEF RemoveErase, At, DiskStays, dirVars, mapVars, BaseInv, FileSysTypeOK
<1>2. FileSysTypeOK /\ RootInv /\ LocksInv
  BY DEF BaseInv
<1>3. /\ frame[t] \in Frame /\ FrameOK("remove_erase", frame[t]) /\ inode_lock # t
      /\ file[t] \in Pointer \cup {NULL}
      /\ pc[t] \notin Releasing
  BY <1>1, Here DEF Opening, Releasing
<1>4. frame[t].op = "remove" /\ d # NULL /\ frame[t].node # NULL /\ d \in Pointer
      /\ HoldsDir(pc[t], frame[t]) /\ inode[d].inode_lock = t
  BY <1>1, <1>2, <1>3, OneDirectory DEF FrameOK, HoldsDir
<1>5. Move(t, "close_node", frame[t])
  BY <1>1, <1>2 DEF Move, Goto, FileSysTypeOK
<1>6. /\ FrameOK("close_node", frame[t]) /\ "close_node" \in Places /\ "close_node" \notin Releasing
      /\ ~HoldsDir("close_node", frame[t])
      /\ "close_node" \notin HasSector \cup {"open_node"}
  BY <1>4 DEF FrameOK, Places, HoldsDir, Creating, Releasing, HasSector
<1>7. /\ inode' \in [Pointer -> Inode]
      /\ \A p \in Pointer :
             /\ inode'[p].sector = inode[p].sector /\ inode'[p].open_cnt = inode[p].open_cnt
             /\ inode'[p].data = inode[p].data
             /\ p # d => inode'[p].inode_lock = inode[p].inode_lock
      /\ inode'[d].inode_lock = NoThread
  <2> DEFINE released == [inode EXCEPT ![d].inode_lock = NoThread]
  <2>1. /\ inode \in [Pointer -> Inode]
        /\ inode' = released \/ inode' = [released EXCEPT ![frame[t].node].removed = TRUE]
    BY <1>2, <1>4 DEF FileSysTypeOK, RemoveErase, Unlocked
  <2>2. /\ released \in [Pointer -> Inode]
        /\ \A p \in Pointer :
             /\ released[p].sector = inode[p].sector /\ released[p].open_cnt = inode[p].open_cnt
             /\ released[p].data = inode[p].data
             /\ p # d => released[p].inode_lock = inode[p].inode_lock
        /\ released[d].inode_lock = NoThread
    BY <1>4, <2>1 DEF Inode
  <2> HIDE DEF released, d
  <2>3. CASE inode' = released
    BY <2>2, <2>3
  <2>4. CASE inode' = [released EXCEPT ![frame[t].node].removed = TRUE]
    <3>1. /\ inode' \in [Pointer -> Inode]
          /\ \A p \in Pointer :
               /\ inode'[p].sector = released[p].sector /\ inode'[p].open_cnt = released[p].open_cnt
               /\ inode'[p].data = released[p].data
               /\ inode'[p].inode_lock = released[p].inode_lock
      <4> DEFINE n == frame[t].node
                 r == [released[n] EXCEPT !.removed = TRUE]
      <4>1. n \in Pointer /\ released[n] \in Inode
        BY <1>3, <1>4, <2>2 DEF Frame
      <4>2. /\ r \in Inode /\ r.sector = released[n].sector /\ r.open_cnt = released[n].open_cnt
            /\ r.data = released[n].data /\ r.inode_lock = released[n].inode_lock
        BY <4>1 DEF Inode
      <4>3. inode' = [released EXCEPT ![n] = r]
        BY <2>4
      <4> HIDE DEF n, r
      <4> QED BY <2>2, <4>1, <4>2, <4>3
    <3> QED BY <1>4, <2>2, <3>1
  <2> QED BY <2>1, <2>3, <2>4
<1>8. /\ RefInv' /\ CountInv' /\ LocksInv' /\ HasOpen(t, file[t])
      /\ open_inodes' \subseteq Pointer /\ inode_lock' \in Thread \cup {NoThread}
      /\ \A p \in Pointer : ROOT_DIR_SECTOR \notin Data(inode'[p].data)
      /\ \A u \in Thread : u # t => ~HoldsDir(pc[u], frame[u])
  BY <1>1, <1>3, <1>4, <1>5, <1>6, <1>7, LockDir
<1>9. /\ entries' \in [Slot -> dir_entry]
      /\ \A s \in Slot : entries'[s].in_use => entries'[s].inode_sector # ROOT_DIR_SECTOR
      /\ free_map' \subseteq Sector /\ ROOT_DIR_SECTOR \in free_map'
  <2>1. /\ entries \in [Slot -> dir_entry]
        /\ \A s \in Slot : entries[s].in_use => entries[s].inode_sector # ROOT_DIR_SECTOR
        /\ free_map' \subseteq Sector /\ ROOT_DIR_SECTOR \in free_map'
    BY <1>1, <1>2 DEF FileSysTypeOK, RootInv, Listed
  <2> HIDE DEF ofs
  <2>2. CASE entries' = [entries EXCEPT ![ofs].in_use = FALSE]
    <3>1. entries' \in [Slot -> dir_entry]
      BY <2>1, <2>2 DEF dir_entry
    <3>2. ASSUME NEW s \in Slot, entries'[s].in_use PROVE entries'[s] = entries[s]
      BY <2>1, <2>2, <3>2 DEF dir_entry
    <3> QED BY <2>1, <3>1, <3>2
  <2> QED BY <1>1, <2>1, <2>2
<1> QED BY <1>1, <1>3, <1>5, <1>6, <1>7, <1>8, <1>9, RestKeeps

\* Who refers to what, for a thread t that has the list to itself.
LEMMA OnlyInList ==
    ASSUME BaseInv, NEW t \in Thread, inode_lock \in {t, NoThread}, NEW u \in Thread, u # t
    PROVE  /\ frame[u].dir # NULL => frame[u].dir \in open_inodes
           /\ frame[u].node # NULL => frame[u].node \in open_inodes
           /\ file[u] # NULL => file[u] \in open_inodes
           /\ pc[u] \notin Releasing
BY FileSysAssumption DEF BaseInv, RefInv, LocksInv

\* inode_open has given t the inode p.
LEMMA OpenedKeeps ==
    ASSUME BaseInv, NEW t \in Thread, pc[t] \in Opening, NEW p \in Pointer, OpenReturns(t, p),
           inode_lock \in {t, NoThread}, inode_lock' = NoThread,
           open_inodes' = open_inodes \cup {p}, file' = file,
           DiskStays, DirStays, inode' \in [Pointer -> Inode],
           \A q \in Pointer : q # p => inode'[q] = inode[q],
           p \in open_inodes => inode'[p].sector = inode[p].sector,
           \A u \in Thread : inode[p].inode_lock # u,
           inode'[p].sector = Wanted(t), inode'[p].inode_lock = NoThread,
           inode'[p].open_cnt = Refs(frame, file, p) + 1,
           ROOT_DIR_SECTOR \notin Data(inode'[p].data),
           p \notin open_inodes => Opened(Wanted(t)) = {}
    PROVE  BaseInv'
<1> DEFINE g == file[t]
<1>1. FileSysTypeOK /\ RefInv /\ CountInv /\ LocksInv /\ RootInv
  BY DEF BaseInv
<1>2. PICK pl, f :
             /\ Move(t, pl, f) /\ pl \in Places /\ f \in Frame /\ FrameOK(pl, f)
             /\ pl \notin Releasing \cup HasSector \cup {"open_node"}
             /\ f.dir = (IF pc[t] = "open_root" THEN p ELSE frame[t].dir)
             /\ f.node = (IF pc[t] = "open_root" THEN NULL ELSE p)
             /\ f.op = "open" => frame[t].op = "open"
             /\ HoldsDir(pl, f) <=> HoldsDir(pc[t], frame[t]) /\ p # NULL
             /\ HoldsDir(pl, f) => f = [frame[t] EXCEPT !.node = p]
  BY <1>1, OpenReturnsMoves
<1>3. /\ frame[t] \in Frame /\ FrameOK(pc[t], frame[t]) /\ g \in Pointer \cup {NULL}
      /\ frame[t].op = "open" => g = NULL
      /\ p # NULL /\ HasOpen(t, g)
  BY Here, NullNoPointer
<1>4. /\ pc[t] = "open_root" => /\ frame[t].dir = NULL /\ frame[t].node = NULL
                                /\ inode'[p].sector = ROOT_DIR_SECTOR
      /\ pc[t] # "open_root" => /\ frame[t].dir # NULL /\ frame[t].node = NULL
                                /\ inode'[p].sector # ROOT_DIR_SECTOR
  BY <1>1, <1>3 DEF FrameOK, Wanted, Opening, RootInv
<1>5. /\ g # NULL => g \in open_inodes /\ g \in Pointer /\ inode[g].sector # ROOT_DIR_SECTOR
      /\ frame[t].dir # NULL => /\ frame[t].dir \in open_inodes /\ frame[t].dir \in Pointer
                                /\ inode[frame[t].dir].sector = ROOT_DIR_SECTOR
  BY <1>1 DEF RefInv, IsRoot, FileSysTypeOK
<1>6. \A q \in open_inodes : q \in open_inodes' /\ q \in Pointer /\ inode'[q].sector = inode[q].sector
  BY <1>1 DEF FileSysTypeOK
<1> HIDE DEF g
<1>7. RefInv'
  <2>1. \A u \in Thread : u # t =>
           \A q \in {frame[u].dir, frame[u].node, file[u]} \ {NULL} :
               inode'[q].sector = inode[q].sector /\ (q \in open_inodes' <=> q \in open_inodes)
    BY <1>6, OnlyInList
  <2>2. f.op = "open" => g = NULL
    BY <1>2, <1>3
  <2>3. f.dir # NULL => f.dir \in open_inodes' /\ inode'[f.dir].sector = ROOT_DIR_SECTOR
    BY <1>2, <1>4, <1>5, <1>6
  <2>4. f.node # NULL =>
             /\ inode'[f.node].sector # ROOT_DIR_SECTOR
             /\ pl \in Releasing <=> f.node \notin open_inodes'
    BY <1>2, <1>4
  <2>5. g # NULL => g \in open_inodes' /\ inode'[g].sector # ROOT_DIR_SECTOR
    BY <1>5, <1>6
  <2> QED BY <1>1, <1>2, <1>3, <2>1, <2>2, <2>3, <2>4, <2>5, RefStep
<1>8. CountInv'
  <2>1. ASSUME NEW q \in open_inodes', NEW r \in open_inodes', inode'[q].sector = inode'[r].sector
        PROVE  q = r
    <3>1. CASE q \in open_inodes /\ r \in open_inodes
      BY <1>1, <1>6, <2>1, <3>1 DEF CountInv
    <3>2. CASE q \notin open_inodes \/ r \notin open_inodes
      <4>1. p \notin open_inodes
        BY <3>2
      <4>2. \A x \in open_inodes : inode[x].sector # Wanted(t)
        BY <4>1 DEF Opened
      <4> QED BY <1>6, <2>1, <3>2, <4>2
    <3> QED BY <3>1, <3>2
  <2>2. ASSUME NEW q \in open_inodes'
        PROVE  inode'[q].open_cnt = Refs(frame, file, q) + Bits(f, g, q) - Bits(frame[t], file[t], q)
    <3>1. q \in Pointer /\ q # NULL
      BY <1>1, NullNoPointer DEF FileSysTypeOK
    <3>2. Refs(frame, file, q) \in Nat
      BY <1>1, RefsMove DEF FileSysTypeOK
    <3>3. inode'[q].open_cnt = Refs(frame, file, q) + Bit(q = p)
      <4>1. CASE q = p
        BY <4>1 DEF Bit
      <4>2. CASE q # p
        BY <1>1, <3>1, <3>2, <4>2 DEF CountInv, Bit
      <4> QED BY <4>1, <4>2
    <3>4. /\ Bits(f, g, q) \in Int /\ Bits(frame[t], g, q) \in Int /\ Bit(q = p) \in Int
          /\ Bits(f, g, q) = Bits(frame[t], g, q) + Bit(q = p)
      <4>1. /\ f.dir = q <=> frame[t].dir = q \/ (pc[t] = "open_root" /\ q = p)
            /\ f.node = q <=> pc[t] # "open_root" /\ q = p
            /\ frame[t].dir = q => pc[t] # "open_root"
            /\ frame[t].node # q
        BY <1>2, <1>4, <3>1
      <4> QED BY <4>1 DEF Bits, Bit
    <3> QED BY <3>2, <3>3, <3>4 DEF g
  <2> QED BY <1>1, <1>2, <1>3, <2>1, <2>2, CountStep
<1>9. LocksInv'
  <2>1. HoldsDir(pl, f) => f.dir = frame[t].dir /\ HoldsDir(pc[t], frame[t]) /\ f.dir # p
    <3>1. SUFFICES ASSUME HoldsDir(pl, f) PROVE f.dir = frame[t].dir /\ HoldsDir(pc[t], frame[t]) /\ f.dir # p
      OBVIOUS
    <3>2. HoldsDir(pc[t], frame[t]) /\ pc[t] = "open_node"
      BY <1>2, <3>1 DEF HoldsDir, Opening
    <3>3. f.dir = frame[t].dir
      BY <1>2, <3>2
    <3>4. inode[p].inode_lock # t
      OBVIOUS
    <3> QED BY <1>1, <3>2, <3>3, <3>4 DEF LocksInv
  <2>2. ASSUME NEW q \in Pointer
        PROVE  /\ inode'[q].inode_lock = t <=> HoldsDir(pl, f) /\ f.dir = q
               /\ \A u \in Thread : u # t => (inode'[q].inode_lock = u <=> inode[q].inode_lock = u)
    <3>1. CASE q = p
      BY <2>1, <3>1, FileSysAssumption
    <3>2. CASE q # p
      <4>1. inode'[q].inode_lock = inode[q].inode_lock
        BY <3>2
      <4>2. inode[q].inode_lock = t <=> HoldsDir(pc[t], frame[t]) /\ frame[t].dir = q
        BY <1>1 DEF LocksInv
      <4> QED BY <1>2, <1>3, <2>1, <4>1, <4>2
    <3> QED BY <3>1, <3>2
  <2>3. \A u \in Thread : u # t => (inode_lock' = u <=> inode_lock = u)
    BY FileSysAssumption
  <2>4. inode_lock' # t /\ pl \notin Releasing
    BY <1>2, FileSysAssumption
  <2> QED BY <1>1, <1>2, <2>2, <2>3, <2>4, LockStep
<1>10. /\ open_inodes' \subseteq Pointer /\ inode_lock' \in Thread \cup {NoThread}
       /\ \A q \in Pointer : ROOT_DIR_SECTOR \notin Data(inode'[q].data)
  BY <1>1 DEF FileSysTypeOK, RootInv
<1>11. HoldsDir(pl, f) =>
             /\ f.ofs \in Slot /\ entries[f.ofs].in_use
             /\ entries[f.ofs].name = f.name /\ entries[f.ofs].inode_sector = f.inode_sector
  <2> SUFFICES ASSUME HoldsDir(pl, f)
      PROVE  /\ f.ofs \in Slot /\ entries[f.ofs].in_use
             /\ entries[f.ofs].name = f.name /\ entries[f.ofs].inode_sector = f.inode_sector
    OBVIOUS
  <2>1. HoldsDir(pc[t], frame[t]) /\ f = [frame[t] EXCEPT !.node = p]
    BY <1>2
  <2>2. f.ofs = frame[t].ofs /\ f.name = frame[t].name /\ f.inode_sector = frame[t].inode_sector
    BY <1>3, <2>1 DEF Frame
  <2> QED BY <2>1, <2>2, HereHolds
<1> QED BY <1>2, <1>3, <1>7, <1>8, <1>9, <1>10, <1>11, RestKeepsDir

LEMMA OpenReopenKeeps ==
    ASSUME BaseInv, NEW t \in Thread, OpenReopen(t)
    PROVE  BaseInv'
<1>1. FileSysTypeOK /\ CountInv /\ RootInv
  BY DEF BaseInv
<1>2. PICK p \in Opened(Wanted(t)) :
         /\ inode[p].inode_lock = NoThread
         /\ inode' = [inode EXCEPT ![p].open_cnt = @ + 1]
         /\ OpenReturns(t, p)
  BY DEF OpenReopen
<1>3. /\ pc[t] \in Opening /\ inode_lock = t /\ inode_lock' = NoThread
      /\ open_inodes' = open_inodes /\ file' = file /\ DiskStays /\ DirStays
  BY DEF OpenReopen, At, Opening, DiskStays, DirStays, dirVars, mapVars, BaseInv, FileSysTypeOK
<1>4. p \in open_inodes /\ p \in Pointer /\ inode[p].sector = Wanted(t)
  BY <1>1 DEF Opened, FileSysTypeOK
<1>5. inode[p].open_cnt = Refs(frame, file, p) /\ inode[p].open_cnt \in Nat
  BY <1>1, <1>4 DEF CountInv, FileSysTypeOK, Inode
<1>6. /\ inode' \in [Pointer -> Inode]
      /\ \A q \in Pointer : q # p => inode'[q] = inode[q]
      /\ inode'[p].sector = inode[p].sector /\ inode'[p].inode_lock = inode[p].inode_lock
      /\ inode'[p].data = inode[p].data /\ inode'[p].open_cnt = inode[p].open_cnt + 1
  <2> DEFINE r == [inode[p] EXCEPT !.open_cnt = @ + 1]
  <2>1. /\ r \in Inode /\ r.sector = inode[p].sector /\ r.inode_lock = inode[p].inode_lock
        /\ r.data = inode[p].data /\ r.open_cnt = inode[p].open_cnt + 1
    BY <1>1, <1>4 DEF FileSysTypeOK, Inode
  <2>2. inode' = [inode EXCEPT ![p] = r] /\ inode \in [Pointer -> Inode]
    BY <1>1, <1>2 DEF FileSysTypeOK
  <2> HIDE DEF r
  <2> QED BY <1>4, <2>1, <2>2
<1>7. \A u \in Thread : inode[p].inode_lock # u
  BY <1>2, FileSysAssumption
<1>8. open_inodes' = open_inodes \cup {p}
  BY <1>3, <1>4
<1>9. ROOT_DIR_SECTOR \notin Data(inode'[p].data)
  BY <1>1, <1>4, <1>6 DEF RootInv
<1> QED BY <1>2, <1>3, <1>4, <1>5, <1>6, <1>7, <1>8, <1>9, OpenedKeeps

LEMMA OpenNewKeeps ==
    ASSUME BaseInv, NEW t \in Thread, OpenNew(t)
    PROVE  BaseInv'
<1> DEFINE p == Least(Pointer \ open_inodes)
           r == [sector |-> Wanted(t), open_cnt |-> 1, removed |-> FALSE,
                 data |-> disk[Wanted(t)], inode_lock |-> NoThread]
<1>1. FileSysTypeOK /\ CountInv /\ RootInv /\ RefInv /\ LocksInv
  BY DEF BaseInv
<1>2. /\ pc[t] \in Opening /\ inode_lock = NoThread /\ inode_lock' = NoThread
      /\ Opened(Wanted(t)) = {}
      /\ open_inodes' = open_inodes \cup {p} /\ file' = file /\ DiskStays /\ DirStays
      /\ inode' = [inode EXCEPT ![p] = r] /\ OpenReturns(t, p)
  BY DEF OpenNew, At, Opening, DiskStays, DirStays, dirVars, mapVars, BaseInv, FileSysTypeOK
<1>3. p \in Pointer /\ p \notin open_inodes
  <2>1. Pointer \ open_inodes \in SUBSET Nat /\ Pointer \ open_inodes # {}
    BY FileSysAssumption DEF OpenNew, Pointer
  <2>2. p \in Pointer \ open_inodes
    BY <2>1, LeastIn
  <2> QED BY <2>2
<1> HIDE DEF p
<1>4. \A u \in Thread : frame[u].dir # p /\ frame[u].node # p /\ file[u] # p
  <2>1. \A u \in Thread : pc[u] \notin Releasing
    BY <1>1, <1>2, FileSysAssumption DEF LocksInv
  <2> QED BY <1>1, <1>3, <2>1, NullNoPointer DEF RefInv
<1>5. Refs(frame, file, p) = 0
  BY <1>4, RefsNone
<1>6. Wanted(t) \in Sector /\ disk[Wanted(t)] \in inode_disk
      /\ ROOT_DIR_SECTOR \notin Data(disk[Wanted(t)])
  <2>1. Wanted(t) \in Sector
    BY <1>1, FileSysAssumption DEF Wanted, FileSysTypeOK, Frame, Sector, ROOT_DIR_SECTOR
  <2> QED BY <1>1, <2>1 DEF FileSysTypeOK, RootInv
<1>7. /\ r \in Inode /\ r.sector = Wanted(t) /\ r.inode_lock = NoThread /\ r.open_cnt = 0 + 1
      /\ r.data = disk[Wanted(t)]
  BY <1>6 DEF Inode
<1> HIDE DEF r
<1>8. /\ inode' \in [Pointer -> Inode] /\ inode'[p] = r
      /\ \A q \in Pointer : q # p => inode'[q] = inode[q]
  BY <1>1, <1>2, <1>3, <1>7 DEF FileSysTypeOK
<1>9. \A u \in Thread : inode[p].inode_lock # u
  BY <1>1, <1>3, <1>4 DEF LocksInv
<1> QED BY <1>2, <1>3, <1>5, <1>6, <1>7, <1>8, <1>9, OpenedKeeps

LEMMA OpenFailsKeeps ==
    ASSUME BaseInv, NEW t \in Thread, OpenFails(t)
    PROVE  BaseInv'
<1>1. FileSysTypeOK /\ RefInv /\ CountInv /\ LocksInv /\ RootInv
  BY DEF BaseInv
<1>2. /\ pc[t] \in Opening /\ inode_lock = NoThread /\ inode_lock' = NoThread
      /\ open_inodes' = open_inodes /\ file' = file /\ DiskStays /\ DirStays
      /\ inode' = Unlocked(t) /\ OpenReturns(t, NULL)
  BY DEF OpenFails, At, Opening, DiskStays, DirStays, dirVars, mapVars, BaseInv, FileSysTypeOK
<1>3. PICK pl, f :
             /\ Move(t, pl, f) /\ pl \in Places /\ f \in Frame /\ FrameOK(pl, f)
             /\ pl \notin Releasing \cup HasSector \cup {"open_node"}
             /\ f.dir = (IF pc[t] = "open_root" THEN NULL ELSE frame[t].dir)
             /\ f.node = NULL
             /\ f.op = "open" => frame[t].op = "open"
             /\ ~HoldsDir(pl, f)
  BY <1>1, <1>2, OpenReturnsMoves
<1>4. /\ frame[t] \in Frame /\ FrameOK(pc[t], frame[t]) /\ file[t] \in Pointer \cup {NULL}
      /\ frame[t].op = "open" => file[t] = NULL
      /\ HasOpen(t, file[t])
  BY <1>2, Here
<1>5. /\ pc[t] = "open_root" => frame[t].dir = NULL /\ frame[t].node = NULL
      /\ pc[t] # "open_root" => frame[t].dir # NULL /\ frame[t].node = NULL
      /\ frame[t].dir # NULL => frame[t].dir \in Pointer
      /\ pc[t] \notin Releasing
      /\ HoldsDir(pc[t], frame[t]) <=> frame[t].op = "remove" /\ frame[t].dir # NULL
  BY <1>2, <1>4 DEF FrameOK, Opening, Releasing, Frame, HoldsDir
<1>6. /\ inode \in [Pointer -> Inode] /\ inode' \in [Pointer -> Inode]
      /\ \A p \in Pointer :
           /\ inode'[p].sector = inode[p].sector /\ inode'[p].open_cnt = inode[p].open_cnt
           /\ inode'[p].data = inode[p].data
           /\ inode'[p].inode_lock =
                IF HoldsDir(pc[t], frame[t]) /\ p = frame[t].dir THEN NoThread ELSE inode[p].inode_lock
  <2>1. inode \in [Pointer -> Inode]
    BY <1>1 DEF FileSysTypeOK
  <2>2. CASE HoldsDir(pc[t], frame[t])
    <3>1. inode' = [inode EXCEPT ![frame[t].dir].inode_lock = NoThread] /\ frame[t].dir \in Pointer
      BY <1>2, <1>5, <2>2 DEF Unlocked
    <3> QED BY <2>1, <2>2, <3>1 DEF Inode
  <2>3. CASE ~HoldsDir(pc[t], frame[t])
    <3>1. inode' = inode
      BY <1>2, <1>5, <2>3 DEF Unlocked
    <3> QED BY <2>1, <2>3, <3>1
  <2> QED BY <2>2, <2>3
<1>7. RefInv' /\ CountInv'
  <2>1. f.op = "open" => file[t] = NULL
    BY <1>3, <1>4
  <2>2. f.dir = frame[t].dir /\ f.node = frame[t].node /\ (pl \in Releasing <=> pc[t] \in Releasing)
    BY <1>3, <1>5
  <2> QED BY <1>1, <1>2, <1>3, <1>6, <2>1, <2>2, StayStep
<1>8. LocksInv'
  <2>1. ASSUME NEW q \in Pointer
        PROVE  /\ inode'[q].inode_lock = t <=> HoldsDir(pl, f) /\ f.dir = q
               /\ \A u \in Thread : u # t => (inode'[q].inode_lock = u <=> inode[q].inode_lock = u)
    <3>1. inode[q].inode_lock = t <=> HoldsDir(pc[t], frame[t]) /\ frame[t].dir = q
      BY <1>1 DEF LocksInv
    <3>2. NoThread # t /\ \A u \in Thread : u # NoThread
      BY FileSysAssumption
    <3> QED BY <1>3, <1>6, <3>1, <3>2
  <2>2. inode_lock' # t /\ \A u \in Thread : u # t => (inode_lock' = u <=> inode_lock = u)
    BY <1>2, FileSysAssumption
  <2> QED BY <1>1, <1>3, <2>1, <2>2, LockStep
<1>9. /\ open_inodes' \subseteq Pointer /\ inode_lock' \in Thread \cup {NoThread}
      /\ \A q \in Pointer : ROOT_DIR_SECTOR \notin Data(inode'[q].data)
  BY <1>1, <1>2, <1>6 DEF FileSysTypeOK, RootInv
<1> QED BY <1>2, <1>3, <1>4, <1>6, <1>7, <1>8, <1>9, RestKeepsDir

\* The last reference to p goes, and p leaves the list.
LEMMA DropKeeps ==
    ASSUME BaseInv, NEW t \in Thread, pc[t] \in {"close_root", "close_node", "release_data"},
           NEW pl \in {"idle", "file_open", "close_root", "release_inode"}, NEW f \in Frame,
           Move(t, pl, f), FrameOK(pl, f), f.op = "open" => file[t] = NULL,
           NEW p \in Pointer, inode_lock = t,
           inode_lock' = (IF pl = "release_inode" THEN t ELSE NoThread),
           \A u \in Thread : u # t => frame[u].dir # p /\ frame[u].node # p /\ file[u] # p,
           file[t] # p,
           f.dir # p, f.dir \in {NULL, frame[t].dir}, frame[t].dir # p => f.dir = frame[t].dir,
           f.node \in {NULL, frame[t].node}, frame[t].node # p => f.node = frame[t].node,
           f.node = p <=> pl = "release_inode",
           pc[t] = "release_data" => frame[t].node = p,
           pl = "release_inode" => inode'[p].sector # ROOT_DIR_SECTOR,
           open_inodes' = open_inodes \ {p}, file' = file,
           inode' \in [Pointer -> Inode], \A q \in Pointer : q # p => inode'[q] = inode[q],
           inode'[p].inode_lock = NoThread, ROOT_DIR_SECTOR \notin Data(inode'[p].data),
           DiskStays, entries' = entries, free_map' \subseteq Sector, ROOT_DIR_SECTOR \in free_map'
    PROVE  BaseInv'
<1> DEFINE g == file[t]
<1>1. FileSysTypeOK /\ RefInv /\ CountInv /\ LocksInv /\ RootInv
  BY DEF BaseInv
<1>2. /\ frame[t] \in Frame /\ g \in Pointer \cup {NULL} /\ HasOpen(t, g)
      /\ pl \in Places /\ pl \notin HasSector \cup {"open_node"}
      /\ ~HoldsDir(pl, f) /\ ~HoldsDir(pc[t], frame[t])
      /\ pl \in Releasing <=> pl = "release_inode"
      /\ p # NULL
  BY Here, NullNoPointer DEF Places, HasSector, HoldsDir, Releasing
<1>3. \A q \in Pointer : q # p =>
        inode'[q].sector = inode[q].sector /\ (q \in open_inodes' <=> q \in open_inodes)
  OBVIOUS
<1>4. RefInv'
  <2>1. \A u \in Thread : u # t =>
           \A q \in {frame[u].dir, frame[u].node, file[u]} \ {NULL} :
               inode'[q].sector = inode[q].sector /\ (q \in open_inodes' <=> q \in open_inodes)
    <3>1. ASSUME NEW u \in Thread, u # t,
                 NEW q \in {frame[u].dir, frame[u].node, file[u]} \ {NULL}
          PROVE  q \in Pointer /\ q # p
      BY <1>1, <3>1, OnlyInList DEF FileSysTypeOK
    <3> QED BY <1>3, <3>1
  <2>2. f.dir # NULL => f.dir \in open_inodes' /\ inode'[f.dir].sector = ROOT_DIR_SECTOR
    <3>1. frame[t].dir # NULL => /\ frame[t].dir \in open_inodes /\ frame[t].dir \in Pointer
                                 /\ inode[frame[t].dir].sector = ROOT_DIR_SECTOR
      BY <1>1 DEF RefInv, IsRoot, FileSysTypeOK
    <3> QED BY <1>3, <3>1
  <2>3. f.node # NULL =>
             /\ inode'[f.node].sector # ROOT_DIR_SECTOR
             /\ pl \in Releasing <=> f.node \notin open_inodes'
    <3>1. CASE pl = "release_inode"
      BY <1>2, <3>1
    <3>2. CASE pl # "release_inode"
      <4>1. f.node # NULL => f.node = frame[t].node /\ f.node # p /\ pc[t] # "release_data"
        BY <3>2
      <4>2. f.node # NULL => /\ f.node \in open_inodes /\ f.node \in Pointer
                             /\ inode[f.node].sector # ROOT_DIR_SECTOR
        BY <1>1, <4>1 DEF RefInv, IsRoot, Releasing, FileSysTypeOK
      <4> QED BY <1>2, <1>3, <3>2, <4>1, <4>2
    <3> QED BY <3>1, <3>2
  <2>4. g # NULL => g \in open_inodes' /\ inode'[g].sector # ROOT_DIR_SECTOR
    <3>1. g # NULL => g \in open_inodes /\ g \in Pointer /\ inode[g].sector # ROOT_DIR_SECTOR
      BY <1>1 DEF RefInv, IsRoot, FileSysTypeOK
    <3> QED BY <1>3, <3>1
  <2>5. f.op = "open" => g = NULL
    OBVIOUS
  <2> HIDE DEF g
  <2> QED BY <1>1, <1>2, <2>1, <2>2, <2>3, <2>4, <2>5, RefStep
<1>5. CountInv'
  <2>1. \A q, r \in open_inodes' : inode'[q].sector = inode'[r].sector => q = r
    BY <1>1, <1>3 DEF CountInv, FileSysTypeOK
  <2>2. ASSUME NEW q \in open_inodes'
        PROVE  inode'[q].open_cnt = Refs(frame, file, q) + Bits(f, g, q) - Bits(frame[t], file[t], q)
    <3>1. q \in Pointer /\ q # NULL /\ q # p /\ q \in open_inodes
      BY <1>1, NullNoPointer DEF FileSysTypeOK
    <3>2. Refs(frame, file, q) \in Nat
      BY <1>1, RefsMove DEF FileSysTypeOK
    <3>3. inode'[q].open_cnt = Refs(frame, file, q)
      BY <1>1, <3>1 DEF CountInv
    <3>4. Bits(f, g, q) = Bits(frame[t], g, q) /\ Bits(f, g, q) \in Int
      <4>1. (f.dir = q <=> frame[t].dir = q) /\ (f.node = q <=> frame[t].node = q)
        BY <3>1
      <4> QED BY <4>1 DEF Bits, Bit
    <3> QED BY <3>2, <3>3, <3>4
  <2> HIDE DEF g
  <2> QED BY <1>1, <1>2, <2>1, <2>2, CountStep
<1>6. LocksInv'
  <2>1. ASSUME NEW q \in Pointer
        PROVE  /\ inode'[q].inode_lock # t
               /\ \A u \in Thread : u # t => (inode'[q].inode_lock = u <=> inode[q].inode_lock = u)
    <3>1. CASE q = p
      <4>1. \A u \in Thread : u # t => inode[p].inode_lock # u
        BY <1>1 DEF LocksInv
      <4> QED BY <3>1, <4>1, FileSysAssumption
    <3>2. CASE q # p
      BY <1>1, <1>2, <3>2 DEF LocksInv
    <3> QED BY <3>1, <3>2
  <2>2. /\ \A u \in Thread : u # t => (inode_lock' = u <=> inode_lock = u)
        /\ inode_lock' = t => pl \in Opening \cup Releasing \cup {"close_root", "close_node"}
        /\ pl \in Releasing => inode_lock' = t
    BY <1>2, FileSysAssumption
  <2> QED BY <1>1, <1>2, <2>1, <2>2, LockStep
<1>7. /\ open_inodes' \subseteq Pointer /\ inode_lock' \in Thread \cup {NoThread}
      /\ \A q \in Pointer : ROOT_DIR_SECTOR \notin Data(inode'[q].data)
      /\ entries' \in [Slot -> dir_entry]
      /\ \A s \in Slot : entries'[s].in_use => entries'[s].inode_sector # ROOT_DIR_SECTOR
  BY <1>1 DEF FileSysTypeOK, RootInv, Listed
<1> HIDE DEF g
<1> QED BY <1>2, <1>4, <1>5, <1>6, <1>7, RestKeeps

LEMMA NoInodeData == Data(NoInode.data) = {} /\ NoInode \in Inode /\ NoInode.inode_lock = NoThread
BY NoFrameOK DEF Data, NoInode, Zeros

\* What t is about to close: its inode is in the list, t refers to it once, and the
\* rest of what it refers to is something else.
LEMMA ClosingRefers ==
    ASSUME BaseInv, NEW t \in Thread, pc[t] \in {"close_root", "close_node"}
    PROVE  LET p == Closing(t)
           IN  /\ p \in open_inodes /\ p \in Pointer /\ p # NULL
               /\ p = (IF pc[t] = "close_root" THEN frame[t].dir ELSE frame[t].node)
               /\ frame[t].dir = p => pc[t] = "close_root" /\ frame[t].node # p /\ file[t] # p
               /\ frame[t].node = p => pc[t] # "close_root"
               /\ inode[p].open_cnt \in Nat /\ inode[p].open_cnt >= 1
               /\ inode[p].open_cnt <= 1 =>
                    /\ file[t] # p
                    /\ \A u \in Thread : u # t => frame[u].dir # p /\ frame[u].node # p /\ file[u] # p
<1> DEFINE p == Closing(t)
<1>1. FileSysTypeOK /\ RefInv /\ CountInv
  BY DEF BaseInv
<1>2. /\ p = (IF pc[t] = "close_root" THEN frame[t].dir ELSE frame[t].node) /\ p # NULL
  BY Here DEF Closing, FrameOK, Creating, Releasing
<1>3. /\ p \in open_inodes
      /\ inode[p].sector = ROOT_DIR_SECTOR <=> pc[t] = "close_root"
  BY <1>1, <1>2 DEF RefInv, IsRoot, Releasing
<1>4. /\ p \in Pointer
      /\ frame \in [Thread -> Frame] /\ file \in [Thread -> Pointer \cup {NULL}]
  BY <1>1, <1>3 DEF FileSysTypeOK
<1>5. /\ frame[t].dir = p => pc[t] = "close_root" /\ frame[t].node # p /\ file[t] # p
      /\ frame[t].node = p => pc[t] # "close_root"
      /\ frame[t].dir = p \/ frame[t].node = p
  BY <1>1, <1>2, <1>3 DEF RefInv, IsRoot
<1> HIDE DEF p
<1>6. /\ Refs(frame, file, p) \in Nat /\ Bits(frame[t], file[t], p) \in Nat
      /\ Bits(frame[t], file[t], p) <= Refs(frame, file, p)
      /\ Refs(frame, file, p) = Bits(frame[t], file[t], p) =>
           \A u \in Thread : u # t => frame[u].dir # p /\ frame[u].node # p /\ file[u] # p
  BY <1>4, RefsAlone
<1>7. inode[p].open_cnt = Refs(frame, file, p)
  BY <1>1, <1>3 DEF CountInv
<1>8. /\ Bits(frame[t], file[t], p) >= 1
      /\ Bits(frame[t], file[t], p) <= 1 => file[t] # p
  BY <1>5 DEF Bits, Bit
<1>9. /\ inode[p].open_cnt \in Nat /\ inode[p].open_cnt >= 1
      /\ inode[p].open_cnt <= 1 =>
           Bits(frame[t], file[t], p) <= 1 /\ Refs(frame, file, p) = Bits(frame[t], file[t], p)
  <2> DEFINE r == Refs(frame, file, p)
             b == Bits(frame[t], file[t], p)
  <2>1. r \in Nat /\ b \in Nat /\ b <= r /\ b >= 1
    BY <1>6, <1>8
  <2> HIDE DEF r, b
  <2>2. r >= 1 /\ (r <= 1 => b <= 1 /\ r = b)
    BY <2>1
  <2> QED BY <1>7, <2>1, <2>2 DEF r, b
<1> QED BY <1>2, <1>3, <1>4, <1>5, <1>6, <1>8, <1>9 DEF p

LEMMA CloseCountKeeps ==
    ASSUME BaseInv, NEW t \in Thread, CloseCount(t)
    PROVE  BaseInv'
<1> DEFINE p == Closing(t)
           g == file[t]
<1>1. FileSysTypeOK /\ RefInv /\ CountInv /\ LocksInv /\ RootInv
  BY DEF BaseInv
<1>2. /\ pc[t] \in {"close_root", "close_node"} /\ inode_lock = t /\ inode_lock' = NoThread
      /\ inode[p].inode_lock = NoThread
      /\ file' = file /\ DiskStays /\ DirStays /\ entries' = entries /\ CloseReturns(t)
      /\ IF inode[p].open_cnt > 1
         THEN inode' = [inode EXCEPT ![p].open_cnt = @ - 1] /\ open_inodes' = open_inodes
         ELSE inode' = [inode EXCEPT ![p] = NoInode] /\ open_inodes' = open_inodes \ {p}
  BY DEF CloseCount, At, DiskStays, DirStays, dirVars, mapVars, BaseInv, FileSysTypeOK
<1>3. /\ p \in open_inodes /\ p \in Pointer /\ p # NULL
      /\ p = (IF pc[t] = "close_root" THEN frame[t].dir ELSE frame[t].node)
      /\ frame[t].dir = p => pc[t] = "close_root" /\ frame[t].node # p /\ file[t] # p
      /\ frame[t].node = p => pc[t] # "close_root"
      /\ inode[p].open_cnt \in Nat /\ inode[p].open_cnt >= 1
      /\ inode[p].open_cnt <= 1 =>
           /\ file[t] # p
           /\ \A u \in Thread : u # t => frame[u].dir # p /\ frame[u].node # p /\ file[u] # p
  BY <1>2, ClosingRefers
<1>4. PICK pl, f :
             /\ Move(t, pl, f) /\ f \in Frame /\ FrameOK(pl, f)
             /\ pl \in {"idle", "file_open", "close_root"}
             /\ f.dir = (IF pc[t] = "close_root" THEN NULL ELSE frame[t].dir)
             /\ f.node = (IF pc[t] = "close_root" THEN frame[t].node ELSE NULL)
             /\ f.op \in {"none", frame[t].op}
  BY <1>1, <1>2, CloseReturnsMoves
<1>5. /\ frame[t] \in Frame /\ g \in Pointer \cup {NULL} /\ HasOpen(t, g)
      /\ f.op = "open" => g = NULL
      /\ pl \in Places /\ pl \notin HasSector \cup {"open_node"} \cup Releasing
      /\ ~HoldsDir(pl, f) /\ ~HoldsDir(pc[t], frame[t])
  BY <1>2, <1>4, Here DEF Places, HasSector, HoldsDir, Releasing
<1> HIDE DEF p
<1>6. CASE inode[p].open_cnt > 1
  <2>1. /\ inode' \in [Pointer -> Inode]
        /\ \A q \in Pointer :
             /\ inode'[q].sector = inode[q].sector /\ inode'[q].data = inode[q].data
             /\ inode'[q].inode_lock = inode[q].inode_lock
             /\ q # p => inode'[q] = inode[q]
        /\ inode'[p].open_cnt = inode[p].open_cnt - 1
    <3> DEFINE r == [inode[p] EXCEPT !.open_cnt = @ - 1]
    <3>1. /\ r \in Inode /\ r.sector = inode[p].sector /\ r.inode_lock = inode[p].inode_lock
          /\ r.data = inode[p].data /\ r.open_cnt = inode[p].open_cnt - 1
      BY <1>1, <1>3, <1>6 DEF FileSysTypeOK, Inode
    <3>2. inode' = [inode EXCEPT ![p] = r] /\ inode \in [Pointer -> Inode]
      BY <1>1, <1>2, <1>6 DEF FileSysTypeOK
    <3> HIDE DEF r
    <3> QED BY <1>3, <3>1, <3>2
  <2>2. open_inodes' = open_inodes /\ open_inodes \subseteq Pointer
    BY <1>1, <1>2, <1>6 DEF FileSysTypeOK
  <2>3. RefInv'
    <3>1. \A u \in Thread : u # t =>
             \A q \in {frame[u].dir, frame[u].node, file[u]} \ {NULL} :
                 inode'[q].sector = inode[q].sector /\ (q \in open_inodes' <=> q \in open_inodes)
      BY <1>2, <2>1, <2>2, OnlyInList
    <3>2. /\ g # NULL => g \in open_inodes /\ inode[g].sector # ROOT_DIR_SECTOR
          /\ frame[t].dir # NULL => frame[t].dir \in open_inodes
                                    /\ inode[frame[t].dir].sector = ROOT_DIR_SECTOR
          /\ frame[t].node # NULL => frame[t].node \in open_inodes
                                     /\ inode[frame[t].node].sector # ROOT_DIR_SECTOR
      BY <1>1, <1>2 DEF RefInv, IsRoot, Releasing
    <3>3. /\ f.dir # NULL => f.dir \in open_inodes' /\ inode'[f.dir].sector = ROOT_DIR_SECTOR
          /\ f.node # NULL =>
               /\ inode'[f.node].sector # ROOT_DIR_SECTOR
               /\ pl \in Releasing <=> f.node \notin open_inodes'
          /\ g # NULL => g \in open_inodes' /\ inode'[g].sector # ROOT_DIR_SECTOR
      BY <1>4, <1>5, <2>1, <2>2, <3>2
    <3> HIDE DEF g
    <3> QED BY <1>1, <1>4, <1>5, <3>1, <3>3, RefStep
  <2>4. CountInv'
    <3>1. \A q, r \in open_inodes' : inode'[q].sector = inode'[r].sector => q = r
      BY <1>1, <2>1, <2>2 DEF CountInv
    <3>2. ASSUME NEW q \in open_inodes'
          PROVE  inode'[q].open_cnt = Refs(frame, file, q) + Bits(f, g, q) - Bits(frame[t], file[t], q)
      <4>1. q \in Pointer /\ q # NULL /\ q \in open_inodes
        BY <2>2, NullNoPointer
      <4>2. Refs(frame, file, q) \in Nat
        BY <1>1, RefsMove DEF FileSysTypeOK
      <4>3. inode'[q].open_cnt = Refs(frame, file, q) - Bit(q = p)
        <5>1. inode[q].open_cnt = Refs(frame, file, q)
          BY <1>1, <4>1 DEF CountInv
        <5>2. CASE q = p
          BY <2>1, <5>1, <5>2 DEF Bit
        <5>3. CASE q # p
          BY <2>1, <4>1, <4>2, <5>1, <5>3 DEF Bit
        <5> QED BY <5>2, <5>3
      <4>4. /\ Bits(f, g, q) \in Int /\ Bits(frame[t], g, q) \in Int /\ Bit(q = p) \in Int
            /\ Bits(f, g, q) = Bits(frame[t], g, q) - Bit(q = p)
        <5>1. /\ f.dir = q <=> frame[t].dir = q /\ q # p
              /\ f.node = q <=> frame[t].node = q /\ q # p
              /\ q = p => (frame[t].dir = q <=> frame[t].node # q)
          BY <1>2, <1>3, <1>4, <4>1
        <5> QED BY <5>1 DEF Bits, Bit
      <4> QED BY <4>2, <4>3, <4>4
    <3> HIDE DEF g
    <3> QED BY <1>1, <1>4, <1>5, <3>1, <3>2, CountStep
  <2>5. LocksInv'
    <3>1. \A q \in Pointer :
             /\ inode'[q].inode_lock = t <=> HoldsDir(pl, f) /\ f.dir = q
             /\ \A u \in Thread : u # t => (inode'[q].inode_lock = u <=> inode[q].inode_lock = u)
      BY <1>1, <1>5, <2>1 DEF LocksInv
    <3>2. inode_lock' # t /\ \A u \in Thread : u # t => (inode_lock' = u <=> inode_lock = u)
      BY <1>2, FileSysAssumption
    <3> QED BY <1>1, <1>4, <1>5, <3>1, <3>2, LockStep
  <2>6. /\ open_inodes' \subseteq Pointer /\ inode_lock' \in Thread \cup {NoThread}
        /\ \A q \in Pointer : ROOT_DIR_SECTOR \notin Data(inode'[q].data)
    BY <1>1, <1>2, <2>1, <2>2 DEF RootInv
  <2> HIDE DEF g
  <2> QED BY <1>2, <1>4, <1>5, <2>1, <2>3, <2>4, <2>5, <2>6, RestKeepsDir
<1>7. CASE ~(inode[p].open_cnt > 1)
  <2>1. /\ inode' \in [Pointer -> Inode] /\ inode'[p] = NoInode
        /\ \A q \in Pointer : q # p => inode'[q] = inode[q]
        /\ open_inodes' = open_inodes \ {p}
    BY <1>1, <1>2, <1>3, <1>7, NoInodeData DEF FileSysTypeOK
  <2>2. /\ file[t] # p
        /\ \A u \in Thread : u # t => frame[u].dir # p /\ frame[u].node # p /\ file[u] # p
    BY <1>3, <1>7
  <2>3. /\ f.dir # p /\ f.dir \in {NULL, frame[t].dir} /\ (frame[t].dir # p => f.dir = frame[t].dir)
        /\ f.node \in {NULL, frame[t].node} /\ (frame[t].node # p => f.node = frame[t].node)
        /\ f.node # p
    BY <1>2, <1>3, <1>4
  <2>4. inode'[p].inode_lock = NoThread /\ ROOT_DIR_SECTOR \notin Data(inode'[p].data)
    BY <2>1, NoInodeData
  <2>5. /\ pl # "release_inode" /\ pc[t] # "release_data"
        /\ f.op = "open" => file[t] = NULL
        /\ free_map' \subseteq Sector /\ ROOT_DIR_SECTOR \in free_map'
    BY <1>1, <1>2, <1>4, <1>5 DEF DirStays, RootInv, FileSysTypeOK
  <2> QED BY <1>2, <1>3, <1>4, <2>1, <2>2, <2>3, <2>4, <2>5, DropKeeps
<1> QED BY <1>6, <1>7

LEMMA CloseRemovedKeeps ==
    ASSUME BaseInv, NEW t \in Thread, CloseRemoved(t)
    PROVE  BaseInv'
<1> DEFINE p == Closing(t)
<1>1. FileSysTypeOK /\ RefInv /\ RootInv
  BY DEF BaseInv
<1>2. /\ pc[t] = "close_node" /\ inode_lock = t /\ inode_lock' = t
      /\ inode[p].inode_lock = NoThread /\ inode[p].open_cnt = 1
      /\ inode' = [inode EXCEPT ![p].open_cnt = 0] /\ open_inodes' = open_inodes \ {p}
      /\ Goto(t, "release_inode") /\ frame' = frame
      /\ file' = file /\ DiskStays /\ DirStays /\ entries' = entries /\ free_map' = free_map
  BY DEF CloseRemoved, At, DiskStays, DirStays, dirVars, mapVars, BaseInv, FileSysTypeOK
<1>3. /\ p \in open_inodes /\ p \in Pointer /\ p # NULL
      /\ p = frame[t].node /\ frame[t].dir # p /\ file[t] # p
      /\ \A u \in Thread : u # t => frame[u].dir # p /\ frame[u].node # p /\ file[u] # p
  BY <1>2, ClosingRefers
<1> HIDE DEF p
<1>4. /\ inode' \in [Pointer -> Inode] /\ \A q \in Pointer : q # p => inode'[q] = inode[q]
      /\ inode'[p].sector = inode[p].sector /\ inode'[p].data = inode[p].data
      /\ inode'[p].inode_lock = inode[p].inode_lock
  BY <1>1, <1>2, <1>3 DEF FileSysTypeOK, Inode
<1>5. Move(t, "release_inode", frame[t]) /\ frame[t] \in Frame
  BY <1>1, <1>2 DEF Move, Goto, FileSysTypeOK
<1>6. FrameOK("release_inode", frame[t]) /\ (frame[t].op = "open" => file[t] = NULL)
  BY <1>2, Here DEF FrameOK, Creating, Releasing
<1>7. /\ inode'[p].sector # ROOT_DIR_SECTOR
      /\ inode'[p].inode_lock = NoThread /\ ROOT_DIR_SECTOR \notin Data(inode'[p].data)
      /\ free_map' \subseteq Sector /\ ROOT_DIR_SECTOR \in free_map'
  BY <1>1, <1>2, <1>3, <1>4 DEF RefInv, IsRoot, RootInv, FileSysTypeOK
<1> QED BY <1>2, <1>3, <1>4, <1>5, <1>6, <1>7, DropKeeps

LEMMA ReleaseDataKeeps ==
    ASSUME BaseInv, NEW t \in Thread, ReleaseData(t)
    PROVE  BaseInv'
<1> DEFINE p == frame[t].node
<1>1. FileSysTypeOK /\ RefInv /\ RootInv /\ LocksInv
  BY DEF BaseInv
<1>2. /\ pc[t] = "release_data" /\ inode_lock' = NoThread
      /\ inode' = [inode EXCEPT ![p] = NoInode] /\ open_inodes' = open_inodes
      /\ free_map' = free_map \ Data(inode[p].data)
      /\ file' = file /\ DiskStays /\ entries' = entries /\ CloseReturns(t)
  BY DEF ReleaseData, At, free_map_release, Asserts, DiskStays, dirVars, BaseInv, FileSysTypeOK
<1>3. /\ frame[t] \in Frame /\ FrameOK("release_data", frame[t])
      /\ frame[t].op = "open" => file[t] = NULL
  BY <1>2, Here
<1>4. /\ p # NULL /\ p \in Pointer /\ inode_lock = t
      /\ p \notin open_inodes
  BY <1>1, <1>2, <1>3 DEF FrameOK, Frame, Releasing, RefInv, LocksInv
<1>5. /\ file[t] # p /\ frame[t].dir # p
      /\ \A u \in Thread : u # t => frame[u].dir # p /\ frame[u].node # p /\ file[u] # p
  BY <1>1, <1>4, OnlyInList DEF RefInv
<1>6. PICK pl, f :
             /\ Move(t, pl, f) /\ f \in Frame /\ FrameOK(pl, f)
             /\ pl \in {"idle", "file_open", "close_root"}
             /\ f.dir = frame[t].dir /\ f.node = NULL
             /\ f.op \in {"none", frame[t].op}
  BY <1>1, <1>2, CloseReturnsMoves
<1> HIDE DEF p
<1>7. /\ inode' \in [Pointer -> Inode] /\ inode'[p] = NoInode
      /\ \A q \in Pointer : q # p => inode'[q] = inode[q]
      /\ inode'[p].inode_lock = NoThread /\ ROOT_DIR_SECTOR \notin Data(inode'[p].data)
  BY <1>1, <1>2, <1>4, NoInodeData DEF FileSysTypeOK
<1>8. /\ free_map' \subseteq Sector /\ ROOT_DIR_SECTOR \in free_map'
      /\ open_inodes' = open_inodes \ {p}
  BY <1>1, <1>2, <1>4 DEF RootInv, FileSysTypeOK
<1>9. /\ f.op = "open" => file[t] = NULL
      /\ f.dir # p /\ f.dir \in {NULL, frame[t].dir} /\ f.node \in {NULL, frame[t].node}
      /\ frame[t].node = p /\ f.node # p /\ pl # "release_inode"
  BY <1>3, <1>4, <1>5, <1>6 DEF p
<1> QED BY <1>2, <1>4, <1>5, <1>6, <1>7, <1>8, <1>9, DropKeeps

-----------------------------------------------------------------------------
(* The properties that follow.                                             *)

LEMMA BaseInit == Init => BaseInv
<1> SUFFICES ASSUME Init PROVE BaseInv
  OBVIOUS
<1>1. /\ FREE_MAP_SECTOR \in Sector /\ ROOT_DIR_SECTOR \in Sector /\ 0 \in Sector
      /\ Data(Zeros) = {} /\ Zeros \in inode_disk
      /\ \A u \in Thread : u # NoThread
  BY FileSysAssumption, NoFrameOK DEF Sector, FREE_MAP_SECTOR, ROOT_DIR_SECTOR, Data, Zeros
<1>2. FileSysTypeOK
  <2>1. 0 \in 0..MaxFiles
    BY FileSysAssumption
  <2> QED BY <1>1, <2>1, NoFrameOK DEF Init, FileSysTypeOK
<1>3. RefInv
  BY NoFrameOK DEF Init, RefInv, FrameOK, Creating, Releasing
<1>4. LocksInv
  BY <1>1, NoInodeData DEF Init, LocksInv, HoldsDir, Releasing
<1>5. CountInv
  BY DEF Init, CountInv
<1>6. RootInv
  BY <1>1, NoInodeData DEF Init, RootInv, Listed, HasSector
<1>7. EraseInv
  BY DEF Init, EraseInv, HoldsDir
<1> QED BY <1>2, <1>3, <1>4, <1>5, <1>6, <1>7 DEF BaseInv

LEMMA BaseNext == BaseInv /\ [Next]_vars => BaseInv'
<1> SUFFICES ASSUME BaseInv, [Next]_vars PROVE BaseInv'
  OBVIOUS
<1>1. CASE UNCHANGED vars
  BY <1>1 DEF vars, dirVars, mapVars, inodeVars, BaseInv, FileSysTypeOK, RefInv, IsRoot, LocksInv,
              CountInv, RootInv, Listed, EraseInv, Data, FrameOK, HoldsDir
<1>2. ASSUME NEW t \in Thread, Call(t) \/ Step(t) PROVE BaseInv'
  BY <1>2, CallsKeep, CallCloseKeeps, TakeListKeeps, OpenReopenKeeps, OpenNewKeeps,
     OpenFailsKeeps, CloseCountKeeps, CloseRemovedKeeps, ReleaseInodeKeeps, ReleaseDataKeeps,
     AllocateKeeps, InodeCreateKeeps, DirAddKeeps, ReleaseSectorKeeps, LookupKeeps,
     FileOpenKeeps, RemoveFindKeeps, RemoveEraseKeeps
     DEF Call, Step
<1> QED BY <1>1, <1>2 DEF Next

LEMMA BaseAlways == Spec => []BaseInv
BY BaseInit, BaseNext, PTL DEF Spec

\* open_cnt counts the references to an inode, each inode is in memory once, and
\* nobody refers to one that was freed: inode_open, inode_reopen and inode_close.
THEOREM OpenInodesAreCounted == Spec => []OpenInodesCounted
<1>1. BaseInv => OpenInodesCounted
  BY DEF BaseInv, CountInv, RefInv, Refs, OpenInodesCounted
<1> QED BY <1>1, BaseAlways, PTL

\* Every way out of inode_open, inode_close, dir_add and dir_remove, also on an
\* error, has returned its locks, and nobody waits for a lock it holds.
THEOREM LocksAreReturned == Spec => []LocksReturned
<1>1. ASSUME BaseInv, NEW t \in Thread
      PROVE  /\ pc[t] = "idle" => inode_lock # t
             /\ pc[t] = "idle" => \A p \in open_inodes : inode[p].inode_lock # t
             /\ \A p \in Target(t) : inode[p].inode_lock # t
  <2>1. FileSysTypeOK /\ RefInv /\ LocksInv /\ RootInv
    BY <1>1 DEF BaseInv
  <2>2. \A p \in Pointer : inode[p].inode_lock = t =>
          /\ pc[t] \in {"open_node", "remove_erase"}
          /\ frame[t].dir = p
    BY <2>1 DEF LocksInv, HoldsDir
  <2>3. open_inodes \subseteq Pointer
    BY <2>1 DEF FileSysTypeOK
  <2>4. pc[t] = "idle" => inode_lock # t
    BY <2>1 DEF LocksInv, Opening, Releasing
  <2>5. CASE pc[t] = "open_node"
    <3>1. ASSUME NEW p \in Target(t), inode[p].inode_lock = t PROVE FALSE
      <4>1. p \in open_inodes /\ inode[p].sector = frame[t].inode_sector
        BY <2>5, <3>1 DEF Target, Opened, Wanted
      <4>2. frame[t].dir = p /\ p # NULL
        BY <2>2, <2>3, <3>1, <4>1, NullNoPointer
      <4>3. inode[p].sector = ROOT_DIR_SECTOR
        BY <2>1, <4>2 DEF RefInv, IsRoot
      <4> QED BY <2>1, <2>5, <4>1, <4>3 DEF RootInv
    <3> QED BY <2>5, <3>1
  <2>6. CASE pc[t] = "remove_erase"
    BY <2>6 DEF Target
  <2>7. CASE pc[t] \notin {"open_node", "remove_erase"}
    <3>1. \A p \in Target(t) : p \in Pointer
      <4>1. pc[t] = "open_root" => Target(t) \subseteq open_inodes
        BY DEF Target, Opened
      <4>2. pc[t] \in {"close_root", "close_node"} => Target(t) = {Closing(t)} /\ Closing(t) \in Pointer
        BY <1>1, ClosingRefers DEF Target
      <4>3. pc[t] \in {"dir_add", "remove_find"} => Target(t) = {frame[t].dir} /\ frame[t].dir \in Pointer
        BY <1>1, Here DEF Target, FrameOK, Creating, Frame
      <4>4. pc[t] \notin {"open_root", "open_node", "close_root", "close_node", "dir_add", "remove_find"}
              => Target(t) = {}
        BY DEF Target
      <4> QED BY <2>3, <2>7, <4>1, <4>2, <4>3, <4>4
    <3> QED BY <2>2, <2>3, <2>4, <2>7, <3>1
  <2> QED BY <2>3, <2>4, <2>5, <2>6, <2>7
<1>2. BaseInv => LocksReturned
  BY <1>1 DEF LocksReturned
<1> QED BY <1>2, BaseAlways, PTL

\* What dir_add does to the directory, when it can read all of it.
LEMMA DirAddSlot ==
    ASSUME BaseInv, ~MallocFails, NEW t \in Thread, DirAdd(t)
    PROVE  \/ entries' = entries
           \/ \E s \in Slot :
                /\ ~entries[s].in_use
                /\ \A r \in Slot : entries[r].in_use => entries[r].name # frame[t].name
                /\ entries' = [entries EXCEPT ![s] = [inode_sector |-> frame[t].inode_sector,
                                                      name |-> frame[t].name, in_use |-> TRUE]]
                /\ Goto(t, "close_root") /\ UNCHANGED lost
<1>1. SUFFICES ASSUME entries' # entries
      PROVE  \E s \in Slot :
                /\ ~entries[s].in_use
                /\ \A r \in Slot : entries[r].in_use => entries[r].name # frame[t].name
                /\ entries' = [entries EXCEPT ![s] = [inode_sector |-> frame[t].inode_sector,
                                                      name |-> frame[t].name, in_use |-> TRUE]]
                /\ Goto(t, "close_root") /\ UNCHANGED lost
  OBVIOUS
<1>2. Seen = {DirSize}
  BY DEF Seen
<1> DEFINE s == FreeSlot(DirSize)
           S == {r \in 1..DirSize : ~entries[r].in_use} \cup {DirSize + 1}
<1>3. /\ Named(frame[t].name, DirSize) = {} /\ s \in Slot
      /\ entries' = [entries EXCEPT ![s] = [inode_sector |-> frame[t].inode_sector,
                                            name |-> frame[t].name, in_use |-> TRUE]]
      /\ Goto(t, "close_root") /\ UNCHANGED lost
  BY <1>1, <1>2 DEF DirAdd
<1>4. S \in SUBSET Nat /\ S # {}
  BY FileSysAssumption
<1>5. s \in S
  BY <1>4, LeastIn DEF FreeSlot
<1>6. ~entries[s].in_use
  BY <1>3, <1>5, FileSysAssumption DEF Slot
<1>7. \A r \in Slot : entries[r].in_use => entries[r].name # frame[t].name
  BY <1>3 DEF Named, Slot
<1> HIDE DEF s
<1> QED BY <1>3, <1>6, <1>7

\* How a step changes the directory.
EntryStep(t) ==
    \/ entries' = entries
    \/ \E s \in Slot :
         /\ ~entries[s].in_use
         /\ \A r \in Slot : entries[r].in_use => entries[r].name # frame[t].name
         /\ entries' = [entries EXCEPT ![s] = [inode_sector |-> frame[t].inode_sector,
                                               name |-> frame[t].name, in_use |-> TRUE]]
    \/ /\ pc[t] = "remove_erase" /\ frame[t].ofs \in Slot
       /\ entries[frame[t].ofs].name = frame[t].name
       /\ entries' = [entries EXCEPT ![frame[t].ofs].in_use = FALSE]

LEMMA EntrySteps ==
    ASSUME BaseInv, ~MallocFails, NEW t \in Thread, Call(t) \/ Step(t)
    PROVE  EntryStep(t)
<1>1. CASE DirAdd(t)
  BY <1>1, DirAddSlot DEF EntryStep
<1>2. CASE RemoveErase(t)
  <2>1. pc[t] = "remove_erase" /\ FrameOK("remove_erase", frame[t])
    BY <1>2, Here DEF RemoveErase, At
  <2>2. HoldsDir(pc[t], frame[t])
    BY <2>1 DEF FrameOK, HoldsDir
  <2>3. frame[t].ofs \in Slot /\ entries[frame[t].ofs].name = frame[t].name
    BY <2>2, HereHolds
  <2> QED BY <1>2, <2>1, <2>3 DEF EntryStep, RemoveErase
<1>3. CASE ~DirAdd(t) /\ ~RemoveErase(t)
  BY <1>3 DEF Call, CallCreate, CallOpen, CallRemove, CallClose, Step, OpenFound, OpenReopen,
              OpenNew, OpenFails, CloseLock, CloseCount, CloseRemoved, ReleaseInode, ReleaseData,
              Allocate, InodeCreate, DirAddBad, ReleaseSector, Lookup, FileOpen, RemoveFind,
              dirVars, EntryStep
<1> QED BY <1>1, <1>2, <1>3

\* Creations of one name at the same time make one entry, and an entry in use changes
\* only when its file is removed: dir_add and dir_remove, while the directory can be
\* read to its end.
THEOREM EntriesDoStay == ~MallocFails => (Spec => EntriesStay)
<1> SUFFICES ASSUME ~MallocFails PROVE Spec => EntriesStay
  OBVIOUS
<1>1. Init => NamesUnique
  BY DEF Init, NamesUnique, Listed
<1>2. ASSUME BaseInv, NamesUnique, [Next]_vars
      PROVE  /\ NamesUnique'
             /\ [\A s \in Listed :
                   entries'[s] # entries[s] =>
                     \E t \in Thread :
                         pc[t] = "remove_erase" /\ frame[t].name = entries[s].name]_vars
  <2>1. entries \in [Slot -> dir_entry]
    BY <1>2 DEF BaseInv, FileSysTypeOK
  <2>2. CASE entries' = entries
    <3>1. NamesUnique'
      BY <1>2, <2>2 DEF NamesUnique, Listed
    <3> QED BY <2>2, <3>1
  <2>3. ASSUME NEW t \in Thread, EntryStep(t), entries' # entries
        PROVE  /\ NamesUnique'
               /\ \A s \in Listed :
                   entries'[s] # entries[s] =>
                     \E u \in Thread :
                         pc[u] = "remove_erase" /\ frame[u].name = entries[s].name
    <3>1. CASE \E s \in Slot :
                 /\ ~entries[s].in_use
                 /\ \A r \in Slot : entries[r].in_use => entries[r].name # frame[t].name
                 /\ entries' = [entries EXCEPT ![s] = [inode_sector |-> frame[t].inode_sector,
                                                       name |-> frame[t].name, in_use |-> TRUE]]
      <4>1. PICK s \in Slot :
                 /\ ~entries[s].in_use
                 /\ \A r \in Slot : entries[r].in_use => entries[r].name # frame[t].name
                 /\ entries' = [entries EXCEPT ![s] = [inode_sector |-> frame[t].inode_sector,
                                                       name |-> frame[t].name, in_use |-> TRUE]]
        BY <3>1
      <4>2. /\ entries'[s].name = frame[t].name
            /\ \A r \in Slot : r # s => entries'[r] = entries[r]
        BY <2>1, <4>1
      <4>3. NamesUnique'
        BY <1>2, <4>1, <4>2 DEF NamesUnique, Listed
      <4> QED BY <4>1, <4>2, <4>3 DEF Listed
    <3>2. CASE /\ pc[t] = "remove_erase" /\ frame[t].ofs \in Slot
               /\ entries[frame[t].ofs].name = frame[t].name
               /\ entries' = [entries EXCEPT ![frame[t].ofs].in_use = FALSE]
      <4>1. /\ \A r \in Slot : r # frame[t].ofs => entries'[r] = entries[r]
            /\ ~entries'[frame[t].ofs].in_use
        BY <2>1, <3>2 DEF dir_entry
      <4>2. NamesUnique'
        BY <1>2, <3>2, <4>1 DEF NamesUnique, Listed
      <4> QED BY <3>2, <4>1, <4>2 DEF Listed
    <3> QED BY <2>3, <3>1, <3>2 DEF EntryStep
  <2>4. CASE UNCHANGED vars
    BY <2>2, <2>4 DEF vars, dirVars
  <2>5. ASSUME NEW t \in Thread, Call(t) \/ Step(t) PROVE EntryStep(t)
    BY <1>2, <2>5, EntrySteps
  <2> QED BY <1>2, <2>2, <2>3, <2>4, <2>5 DEF Next
<1> QED BY <1>1, <1>2, BaseAlways, PTL DEF Spec, EntriesStay

-----------------------------------------------------------------------------
(* Owners.                                                                 *)

\* What the threads at the places S with program counters c and frames fr have found
\* or allocated.
Claims(c, fr, S) == {fr[t].inode_sector : t \in {u \in Thread : c[u] \in S}}

ListedSectors == {entries[s].inode_sector : s \in Listed}
OpenSectors   == {inode[p].sector : p \in open_inodes}
FoundSectors  == Claims(pc, frame, {"open_node"})
AddedSectors  == Claims(pc, frame, {"dir_add"})
NewSectors    == Claims(pc, frame, {"inode_create", "release_sector"})
FreedSectors  == {inode[frame[t].node].sector : t \in {u \in Thread : pc[u] = "release_inode"}}
FreedData     == UNION {Data(inode[frame[t].node].data) :
                          t \in {u \in Thread : pc[u] = "release_data"}}

\* The inodes on disk that belong to a file.
Live == {FREE_MAP_SECTOR, ROOT_DIR_SECTOR} \cup ListedSectors \cup OpenSectors
          \cup FoundSectors \cup AddedSectors \cup FreedSectors

\* L are the inodes of files on the disk dk, N, D and lo loose sectors: of new inodes,
\* of files that were removed and of failed creations.  Nothing belongs to two of
\* them, and all is marked in the free map fm.
Own(L, N, D, fm, dk, lo) ==
    /\ \A s \in L : Extent(s, dk[s]) \subseteq fm /\ s \notin Data(dk[s])
    /\ \A r, s \in L : r # s => Extent(r, dk[r]) \cap Extent(s, dk[s]) = {}
    /\ \A s \in L : Extent(s, dk[s]) \cap (N \cup D \cup lo) = {}
    /\ N \cup D \cup lo \subseteq fm
    /\ N \cap D = {} /\ (N \cup D) \cap lo = {}

\* Everything marked belongs to something.
Cover(L, N, D, fm, dk, lo) ==
    \A x \in fm : x \in N \cup D \cup lo \/ \E s \in L : x \in Extent(s, dk[s])

\* The sources of Live that exclude each other.
Apart(li, op, fo, ad, fr) ==
    /\ FREE_MAP_SECTOR \notin li \cup op \cup fo \cup fr
    /\ ad \cap ({FREE_MAP_SECTOR, ROOT_DIR_SECTOR} \cup li \cup op \cup fo \cup fr) = {}
    /\ fr \cap (li \cup op \cup fo) = {}

AloneInv ==
    \A t, u \in Thread :
        InFileSystem(t) /\ InFileSystem(u) /\ t # u => frame[t].op # "remove"

OwnInv ==
    /\ disk[FREE_MAP_SECTOR] = Zeros /\ disk[ROOT_DIR_SECTOR] = Zeros
    /\ Own(Live, NewSectors, FreedData, free_map, disk, lost)

SourceInv ==
    /\ Apart(ListedSectors, OpenSectors, FoundSectors, AddedSectors, FreedSectors)
    /\ \A r, s \in Listed : entries[r].inode_sector = entries[s].inode_sector => r = s
    /\ \A t, u \in Thread :
         pc[t] \in HasSector /\ pc[u] \in HasSector /\ t # u =>
             frame[t].inode_sector # frame[u].inode_sector
    /\ \A p \in open_inodes : inode[p].removed =>
         inode[p].sector \notin ListedSectors \cup FoundSectors

\* What a thread at place p with frame f knows of the inodes on disk and in memory.
Knows(p, f, dk, in) ==
    /\ p = "open_node" /\ f.op = "open" => dk[f.inode_sector].file = f.file
    /\ p = "remove_erase" => in[f.node].sector = f.inode_sector
    /\ f.op = "open" /\ f.node # NULL /\ p \in {"close_root", "file_open"} =>
         in[f.node].data.file = f.file
    /\ p = "release_inode" => in[f.node].data = dk[in[f.node].sector]

CopyInv ==
    /\ \A p \in open_inodes : inode[p].data = disk[inode[p].sector]
    /\ \A t \in Thread : Knows(pc[t], frame[t], disk, inode)

OwnerInv == AloneInv /\ OwnInv /\ SourceInv /\ CopyInv

AllInv ==
    /\ Cover(Live, NewSectors, FreedData, free_map, disk, lost)
    /\ FoundSectors \subseteq ListedSectors
    /\ \A p \in open_inodes : ~IsRoot(p) /\ ~inode[p].removed => inode[p].sector \in ListedSectors

-----------------------------------------------------------------------------
(* What happens to sectors, whoever owns them.                             *)

\* Owners go.
LEMMA OwnFewer ==
    ASSUME NEW L, NEW N, NEW D, NEW fm, NEW dk, NEW lo, Own(L, N, D, fm, dk, lo),
           NEW L2 \in SUBSET L, NEW N2 \in SUBSET N, NEW D2 \in SUBSET D
    PROVE  Own(L2, N2, D2, fm, dk, lo)
BY DEF Own

\* A free sector is taken for a new inode.
LEMMA OwnAllocate ==
    ASSUME NEW L, NEW N, NEW D, NEW fm, NEW dk, NEW lo, Own(L, N, D, fm, dk, lo),
           NEW x, x \notin fm
    PROVE  /\ Own(L, N \cup {x}, D, fm \cup {x}, dk, lo)
           /\ Cover(L, N, D, fm, dk, lo) => Cover(L, N \cup {x}, D, fm \cup {x}, dk, lo)
           /\ x \notin L
<1>1. \A s \in L : s \in Extent(s, dk[s])
  BY DEF Extent
<1> QED BY <1>1 DEF Own, Cover

\* The disk dk2 has inode x with data on free sectors, and the other inodes of L.
Creates(L, x, fm, dk, dk2) ==
    /\ Data(dk2[x]) \cap fm = {}
    /\ \A s \in L : s # x /\ s \notin Data(dk2[x]) => dk2[s] = dk[s]

\* The new inode is written and gets free sectors for its data.
LEMMA OwnCreate ==
    ASSUME NEW L, NEW N, NEW D, NEW fm, NEW dk, NEW lo, Own(L, N, D, fm, dk, lo),
           NEW x \in N, NEW dk2, Creates(L, x, fm, dk, dk2),
           NEW L2, NEW N2, NEW fm2,
           L2 = L \cup {x}, N2 = N \ {x}, fm2 = fm \cup Data(dk2[x])
    PROVE  /\ Own(L2, N2, D, fm2, dk2, lo)
           /\ Cover(L, N, D, fm, dk, lo) => Cover(L2, N2, D, fm2, dk2, lo)
           /\ x \notin L /\ \A s \in L : dk2[s] = dk[s]
<1> DEFINE E == Data(dk2[x])
<1>1. \A s \in L : s \in Extent(s, dk[s]) /\ Extent(s, dk[s]) = {s} \cup Data(dk[s])
  BY DEF Extent
<1>2. Extent(x, dk2[x]) = {x} \cup E
  BY DEF Extent
<1>3. x \in fm /\ x \notin L /\ x \notin D /\ x \notin lo
  BY <1>1 DEF Own
<1>4. \A s \in L : dk2[s] = dk[s]
  BY <1>1, <1>3 DEF Own, Creates
<1> HIDE DEF E
<1>5. E \cap fm = {} /\ \A s \in L : Extent(s, dk2[s]) = Extent(s, dk[s])
  BY <1>4 DEF E, Creates
<1>6. Own(L \cup {x}, N \ {x}, D, fm \cup E, dk2, lo)
  <2>1. \A s \in L \cup {x} : Extent(s, dk2[s]) \subseteq fm \cup E /\ s \notin Data(dk2[s])
    BY <1>2, <1>3, <1>4, <1>5 DEF Own, E
  <2>2. \A s \in L : Extent(s, dk2[s]) \cap Extent(x, dk2[x]) = {}
    BY <1>2, <1>5 DEF Own
  <2>3. \A r, s \in L \cup {x} : r # s => Extent(r, dk2[r]) \cap Extent(s, dk2[s]) = {}
    BY <1>5, <2>2 DEF Own
  <2>4. \A s \in L \cup {x} : Extent(s, dk2[s]) \cap ((N \ {x}) \cup D \cup lo) = {}
    BY <1>2, <1>3, <1>5 DEF Own
  <2> QED BY <2>1, <2>3, <2>4 DEF Own
<1>7. Cover(L, N, D, fm, dk, lo) => Cover(L \cup {x}, N \ {x}, D, fm \cup E, dk2, lo)
  BY <1>2, <1>5 DEF Cover
<1>8. L2 = L \cup {x} /\ N2 = N \ {x} /\ fm2 = fm \cup E
  BY DEF E
<1> QED BY <1>3, <1>4, <1>6, <1>7, <1>8

\* The file is not added to the directory: its data is lost.
LEMMA OwnAddFails ==
    ASSUME NEW L, NEW N, NEW D, NEW fm, NEW dk, NEW lo, Own(L, N, D, fm, dk, lo),
           NEW x \in L
    PROVE  /\ Own(L \ {x}, N \cup {x}, D, fm, dk, lo \cup Data(dk[x]))
           /\ Cover(L, N, D, fm, dk, lo) =>
                Cover(L \ {x}, N \cup {x}, D, fm, dk, lo \cup Data(dk[x]))
<1>1. Extent(x, dk[x]) = {x} \cup Data(dk[x])
  BY DEF Extent
<1> QED BY <1>1 DEF Own, Cover

\* The sector of a new inode is given back.
LEMMA OwnReleaseSector ==
    ASSUME NEW L, NEW N, NEW D, NEW fm, NEW dk, NEW lo, Own(L, N, D, fm, dk, lo),
           NEW x \in N
    PROVE  /\ Own(L, N \ {x}, D, fm \ {x}, dk, lo) /\ x \in fm
           /\ Cover(L, N, D, fm, dk, lo) => Cover(L, N \ {x}, D, fm \ {x}, dk, lo)
BY DEF Own, Cover

\* The sector of a removed file's inode is given back, and its data when it is the turn.
LEMMA OwnReleaseInode ==
    ASSUME NEW L, NEW N, NEW D, NEW fm, NEW dk, NEW lo, Own(L, N, D, fm, dk, lo),
           NEW x \in L
    PROVE  /\ Own(L \ {x}, N, D \cup Data(dk[x]), fm \ {x}, dk, lo) /\ x \in fm
           /\ Cover(L, N, D, fm, dk, lo) => Cover(L \ {x}, N, D \cup Data(dk[x]), fm \ {x}, dk, lo)
<1>1. Extent(x, dk[x]) = {x} \cup Data(dk[x])
  BY DEF Extent
<1> QED BY <1>1 DEF Own, Cover

LEMMA OwnReleaseData ==
    ASSUME NEW L, NEW N, NEW D, NEW fm, NEW dk, NEW lo, Own(L, N, D, fm, dk, lo)
    PROVE  /\ Own(L, N, {}, fm \ D, dk, lo) /\ D \subseteq fm
           /\ Cover(L, N, D, fm, dk, lo) => Cover(L, N, {}, fm \ D, dk, lo)
BY DEF Own, Cover

\* Fewer owners cover the same while those that are left do.
LEMMA CoverSame ==
    ASSUME NEW L, NEW N, NEW D, NEW fm, NEW dk, NEW lo, Cover(L, N, D, fm, dk, lo),
           NEW L2, NEW N2, NEW D2, L \subseteq L2, N \subseteq N2, D \subseteq D2
    PROVE  Cover(L2, N2, D2, fm, dk, lo)
BY DEF Cover

-----------------------------------------------------------------------------
(* Removing alone.                                                         *)

LEMMA AloneKeeps ==
    ASSUME RemoveAlone, BaseInv, AloneInv, NEW t \in Thread, Call(t) \/ Step(t)
    PROVE  AloneInv'
<1>1. FileSysTypeOK /\ RefInv
  BY DEF BaseInv
<1>2. CASE CallCreate(t) \/ CallOpen(t) \/ CallRemove(t)
  <2>1. PICK op, name, size, fl :
          MayCall(op) /\ Enter(t, op, "open_root", name, size, fl, NULL)
    BY <1>2 DEF CallCreate, CallOpen, CallRemove
  <2>2. \A u \in Thread : InFileSystem(u) => op # "remove" /\ frame[u].op # "remove"
    BY <2>1 DEF MayCall
  <2> DEFINE f == [NoFrame EXCEPT !.op = op, !.name = name, !.size = size, !.file = fl, !.node = NULL]
  <2>3. Move(t, "open_root", f) /\ f.op = op
    BY <2>1 DEF Enter, Goto, Move, NoFrame
  <2> HIDE DEF f
  <2>4. /\ frame'[t].op = op
        /\ \A u \in Thread : u # t => pc'[u] = pc[u] /\ frame'[u] = frame[u]
    BY <1>1, <2>3, Moved
  <2>5. ASSUME NEW u \in Thread, NEW v \in Thread, InFileSystem(u)', InFileSystem(v)', u # v
        PROVE  frame'[u].op # "remove"
    <3>1. /\ u # t => InFileSystem(u)
          /\ v # t => InFileSystem(v)
      BY <2>4, <2>5 DEF InFileSystem
    <3> QED BY <2>2, <2>4, <2>5, <3>1 DEF AloneInv
  <2> QED BY <2>5 DEF AloneInv, InFileSystem
<1>3. CASE ~(CallCreate(t) \/ CallOpen(t) \/ CallRemove(t))
  <2>1. /\ \A u \in Thread : u # t => pc'[u] = pc[u] /\ frame'[u] = frame[u]
        /\ pc'[t] # "idle" /\ frame'[t].op # "close" => InFileSystem(t) /\ frame'[t].op = frame[t].op
    <3>1. CASE CallClose(t)
      <4> DEFINE f == [NoFrame EXCEPT !.op = "close", !.name = NoFrame.name, !.size = 0,
                                      !.file = NULL, !.node = file[t]]
      <4>1. Move(t, "close_node", f) /\ f.op = "close"
        BY <3>1 DEF CallClose, Enter, Goto, Move, NoFrame
      <4> HIDE DEF f
      <4> QED BY <1>1, <4>1, Moved
    <3>2. CASE UNCHANGED <<pc, frame>>
      BY <3>2 DEF InFileSystem
    <3>3. CASE \E p \in Pointer \cup {NULL} : pc[t] \in Opening /\ OpenReturns(t, p)
      <4>1. PICK p \in Pointer \cup {NULL} : pc[t] \in Opening /\ OpenReturns(t, p)
        BY <3>3
      <4>2. \/ Move(t, "idle", NoFrame)
            \/ \E pl, f : Move(t, pl, f) /\ f.op = frame[t].op
        <5>1. CASE pc[t] = "open_root" /\ p = NULL
          BY <4>1, <5>1 DEF OpenReturns, Return, Goto, Move
        <5>2. CASE pc[t] = "open_root" /\ p # NULL
          <6> DEFINE f == [frame[t] EXCEPT !.dir = p]
          <6>1. frame' = [frame EXCEPT ![t] = f] /\ f.op = frame[t].op
            BY <1>1, <4>1, <5>2 DEF OpenReturns, FileSysTypeOK, Frame
          <6>2. \E pl : pc' = [pc EXCEPT ![t] = pl]
            BY <4>1, <5>2 DEF OpenReturns, Goto
          <6> HIDE DEF f
          <6> QED BY <6>1, <6>2 DEF Move
        <5>3. CASE pc[t] = "open_node"
          <6> DEFINE f == [frame[t] EXCEPT !.node = p]
          <6>1. frame' = [frame EXCEPT ![t] = f] /\ f.op = frame[t].op
            BY <1>1, <4>1, <5>3 DEF OpenReturns, FileSysTypeOK, Frame
          <6>2. \E pl : pc' = [pc EXCEPT ![t] = pl]
            BY <4>1, <5>3 DEF OpenReturns, Goto
          <6> HIDE DEF f
          <6> QED BY <6>1, <6>2 DEF Move
        <5> QED BY <4>1, <5>1, <5>2, <5>3 DEF Opening
      <4>3. CASE Move(t, "idle", NoFrame)
        BY <1>1, <4>3, Moved
      <4>4. ASSUME NEW pl, NEW f, Move(t, pl, f), f.op = frame[t].op
            PROVE  /\ \A u \in Thread : u # t => pc'[u] = pc[u] /\ frame'[u] = frame[u]
                   /\ frame'[t].op = frame[t].op
        BY <1>1, <4>4, Moved
      <4>5. pc[t] # "idle"
        BY <4>1 DEF Opening
      <4> QED BY <4>2, <4>3, <4>4, <4>5 DEF InFileSystem
    <3>4. CASE pc[t] \in {"close_root", "close_node", "release_data"} /\ CloseReturns(t)
      <4>1. PICK pl, f : /\ Move(t, pl, f) /\ FrameOK(pl, f)
                         /\ pl \in {"idle", "file_open", "close_root"}
                         /\ f.op \in {"none", frame[t].op}
        BY <1>1, <3>4, CloseReturnsMoves
      <4>2. pl # "idle" => f.op = frame[t].op
        BY <4>1 DEF FrameOK
      <4> QED BY <1>1, <3>4, <4>1, <4>2, Moved DEF InFileSystem
    <3>5. CASE \/ CloseRemoved(t) \/ ReleaseInode(t) \/ InodeCreate(t) \/ DirAdd(t)
               \/ ReleaseSector(t) \/ RemoveErase(t)
      <4>1. pc[t] # "idle" /\ frame' = frame /\ \E pl : pc' = [pc EXCEPT ![t] = pl]
        BY <3>5 DEF CloseRemoved, ReleaseInode, InodeCreate, DirAdd, ReleaseSector, RemoveErase,
                    At, Goto
      <4> QED BY <1>1, <4>1 DEF FileSysTypeOK, InFileSystem
    <3>6. CASE Allocate(t) \/ Lookup(t) \/ RemoveFind(t)
      <4>1. /\ pc[t] \in {"allocate", "lookup", "remove_find"}
            /\ \E pl : pc' = [pc EXCEPT ![t] = pl]
        <5>1. pc' = pc => pc' = [pc EXCEPT ![t] = pc[t]]
          BY <1>1 DEF FileSysTypeOK
        <5> QED BY <3>6, <5>1 DEF Allocate, Lookup, RemoveFind, At, Goto
      <4>2. \/ frame' = frame
            \/ \E x : frame' = [frame EXCEPT ![t].inode_sector = x]
            \/ \E x, y : frame' = [frame EXCEPT ![t].inode_sector = x, ![t].file = y]
            \/ \E x : frame' = [frame EXCEPT ![t].ofs = x]
            \/ \E x, y : frame' = [frame EXCEPT ![t].ofs = x, ![t].inode_sector = y]
        <5>1. CASE Allocate(t)
          BY <5>1 DEF Allocate
        <5>2. CASE Lookup(t)
          BY <5>2, <1>1 DEF Lookup, FileSysTypeOK
        <5>3. CASE RemoveFind(t)
          BY <5>3 DEF RemoveFind
        <5> QED BY <3>6, <5>1, <5>2, <5>3
      <4>3. /\ \A u \in Thread : u # t => frame'[u] = frame[u]
            /\ frame'[t].op = frame[t].op
        <5>1. frame \in [Thread -> Frame]
          BY <1>1 DEF FileSysTypeOK
        <5> QED BY <4>2, <5>1 DEF Frame
      <4> QED BY <1>1, <4>1, <4>3 DEF FileSysTypeOK, InFileSystem
    <3>7. CASE FileOpen(t)
      <4>1. /\ pc[t] # "idle"
            /\ \/ Move(t, "idle", NoFrame)
               \/ frame' = frame /\ pc' = [pc EXCEPT ![t] = "close_node"]
        BY <3>7 DEF FileOpen, At, Return, Goto, Move
      <4>2. CASE Move(t, "idle", NoFrame)
        BY <1>1, <4>2, Moved
      <4>3. CASE frame' = frame /\ pc' = [pc EXCEPT ![t] = "close_node"]
        BY <1>1, <4>1, <4>3 DEF FileSysTypeOK, InFileSystem
      <4> QED BY <4>1, <4>2, <4>3
    <3>8. CASE OpenFound(t) \/ CloseLock(t) \/ DirAddBad(t)
      BY <3>2, <3>8 DEF OpenFound, CloseLock, DirAddBad
    <3>9. CASE OpenReopen(t) \/ OpenNew(t) \/ OpenFails(t)
      <4>1. \E p \in Pointer \cup {NULL} : pc[t] \in Opening /\ OpenReturns(t, p)
        <5>1. CASE OpenReopen(t)
          BY <1>1, <5>1 DEF OpenReopen, Opened, FileSysTypeOK, At, Opening
        <5>2. CASE OpenNew(t)
          <6>1. Pointer \ open_inodes # {} /\ Pointer \ open_inodes \in SUBSET Nat
            BY <5>2, FileSysAssumption DEF OpenNew, Pointer
          <6>2. Least(Pointer \ open_inodes) \in Pointer
            BY <6>1, LeastIn
          <6> QED BY <5>2, <6>2 DEF OpenNew, At, Opening
        <5>3. CASE OpenFails(t)
          BY <5>3 DEF OpenFails, At, Opening
        <5> QED BY <3>9, <5>1, <5>2, <5>3
      <4> QED BY <3>3, <4>1
    <3>10. CASE CloseCount(t) \/ ReleaseData(t)
      BY <3>4, <3>10 DEF CloseCount, ReleaseData, At
    <3> QED BY <1>3, <3>1, <3>5, <3>6, <3>7, <3>8, <3>9, <3>10 DEF Call, Step
  <2>2. ASSUME NEW u \in Thread, NEW v \in Thread, InFileSystem(u)', InFileSystem(v)', u # v
        PROVE  frame'[u].op # "remove"
    BY <2>1, <2>2 DEF AloneInv, InFileSystem
  <2> QED BY <2>2 DEF AloneInv, InFileSystem
<1> QED BY <1>2, <1>3

-----------------------------------------------------------------------------
(* What a step changes in who owns what.                                   *)

Claim(p, f, S) == IF p \in S THEN {f.inode_sector} ELSE {}

LEMMA ClaimsMove ==
    ASSUME FileSysTypeOK, NEW t \in Thread, NEW pl, NEW f, Move(t, pl, f), NEW S
    PROVE  /\ Claims(pc', frame', S) \subseteq Claims(pc, frame, S) \cup Claim(pl, f, S)
           /\ Claims(pc, frame, S) \subseteq Claims(pc', frame', S) \cup Claim(pc[t], frame[t], S)
           /\ Claim(pl, f, S) \subseteq Claims(pc', frame', S)
           /\ Claim(pc[t], frame[t], S) \subseteq Claims(pc, frame, S)
<1>1. /\ pc'[t] = pl /\ frame'[t] = f
      /\ \A u \in Thread : u # t => pc'[u] = pc[u] /\ frame'[u] = frame[u]
  BY Moved
<1> QED BY <1>1 DEF Claims, Claim

\* Who has a sector of a new inode has it alone.
LEMMA ClaimsAlone ==
    ASSUME FileSysTypeOK, SourceInv, NEW t \in Thread, NEW pl, NEW f, Move(t, pl, f),
           pc[t] \in HasSector, NEW S \in SUBSET HasSector, pl \notin S
    PROVE  Claims(pc', frame', S) = Claims(pc, frame, S) \ {frame[t].inode_sector}
<1>1. /\ pc'[t] = pl
      /\ \A u \in Thread : u # t => pc'[u] = pc[u] /\ frame'[u] = frame[u]
  BY Moved
<1>2. \A u \in Thread : u # t /\ pc[u] \in S => frame[u].inode_sector # frame[t].inode_sector
  BY DEF SourceInv
<1> QED BY <1>1, <1>2 DEF Claims

\* Where no sector is claimed for a new inode, or it is the one it was.
LEMMA SectorsDiffer ==
    ASSUME FileSysTypeOK, SourceInv, NEW t \in Thread, NEW pl, NEW f, Move(t, pl, f),
           pl \in HasSector => pc[t] \in HasSector /\ f.inode_sector = frame[t].inode_sector
    PROVE  \A u, v \in Thread :
             pc'[u] \in HasSector /\ pc'[v] \in HasSector /\ u # v =>
                 frame'[u].inode_sector # frame'[v].inode_sector
<1>1. /\ pc'[t] = pl /\ frame'[t] = f
      /\ \A u \in Thread : u # t => pc'[u] = pc[u] /\ frame'[u] = frame[u]
  BY Moved
<1> QED BY <1>1 DEF SourceInv

\* The inodes in memory keep their sectors, and what they know of the disk.
InodesStay == \A p \in Pointer : inode'[p].sector = inode[p].sector /\ inode'[p].data = inode[p].data

LEMMA FreedStay ==
    ASSUME FileSysTypeOK, RefInv, NEW t \in Thread, NEW pl, NEW f, Move(t, pl, f),
           pc[t] \notin Releasing, pl \notin Releasing, InodesStay
    PROVE  FreedSectors' = FreedSectors /\ FreedData' = FreedData
<1>1. /\ pc'[t] = pl
      /\ \A u \in Thread : u # t => pc'[u] = pc[u] /\ frame'[u] = frame[u]
  BY Moved
<1>2. ASSUME NEW u \in Thread, pc[u] \in Releasing \/ pc'[u] \in Releasing
      PROVE  /\ pc'[u] = pc[u] /\ frame'[u] = frame[u]
             /\ inode'[frame[u].node].sector = inode[frame[u].node].sector
             /\ inode'[frame[u].node].data = inode[frame[u].node].data
  <2>1. u # t /\ pc[u] \in Releasing /\ frame[u].node \in Pointer \cup {NULL}
    BY <1>1, <1>2 DEF FileSysTypeOK, Frame
  <2>2. frame[u].node # NULL
    BY <2>1 DEF RefInv, FrameOK
  <2> QED BY <1>1, <2>1, <2>2 DEF InodesStay
<1>3. \A u \in Thread : \A w \in {"release_inode", "release_data"} :
         pc'[u] = w <=> pc[u] = w
  BY <1>2 DEF Releasing
<1>4. FreedSectors' = FreedSectors
  BY <1>2, <1>3 DEF FreedSectors, Releasing
<1>5. FreedData' = FreedData
  <2>1. {u \in Thread : pc'[u] = "release_data"} = {u \in Thread : pc[u] = "release_data"}
    BY <1>3
  <2>2. \A u \in {v \in Thread : pc[v] = "release_data"} :
          Data(inode'[frame'[u].node].data) = Data(inode[frame[u].node].data)
    BY <1>2 DEF Releasing
  <2> QED BY <2>1, <2>2 DEF FreedData
<1> QED BY <1>4, <1>5

\* With the lock of the list in its hands a thread is the only one that releases.
LEMMA FreedHere ==
    ASSUME BaseInv, NEW t \in Thread, inode_lock \in {t, NoThread}
    PROVE  /\ FreedSectors = (IF pc[t] = "release_inode" THEN {inode[frame[t].node].sector} ELSE {})
           /\ FreedData = (IF pc[t] = "release_data" THEN Data(inode[frame[t].node].data) ELSE {})
<1>1. \A u \in Thread : u # t => pc[u] \notin Releasing
  BY OnlyInList
<1> QED BY <1>1 DEF FreedSectors, FreedData, Releasing

LEMMA FreedNext ==
    ASSUME BaseInv, NEW t \in Thread, inode_lock \in {t, NoThread},
           NEW pl, NEW f, Move(t, pl, f)
    PROVE  /\ FreedSectors' = (IF pl = "release_inode" THEN {inode'[f.node].sector} ELSE {})
           /\ FreedData' = (IF pl = "release_data" THEN Data(inode'[f.node].data) ELSE {})
<1>1. \A u \in Thread : u # t => pc[u] \notin Releasing
  BY OnlyInList
<1>2. /\ pc'[t] = pl /\ frame'[t] = f
      /\ \A u \in Thread : u # t => pc'[u] = pc[u] /\ frame'[u] = frame[u]
  BY Moved DEF BaseInv
<1> QED BY <1>1, <1>2 DEF FreedSectors, FreedData, Releasing

\* The inodes of files are on the disk.
LEMMA LiveSectors ==
    ASSUME BaseInv
    PROVE  Live \subseteq Sector /\ NewSectors \subseteq Sector
<1>1. {FREE_MAP_SECTOR, ROOT_DIR_SECTOR} \subseteq Sector
  BY FileSysAssumption DEF FREE_MAP_SECTOR, ROOT_DIR_SECTOR, Sector
<1>2. \A t \in Thread : frame[t].inode_sector \in Sector /\ frame[t].node \in Pointer \cup {NULL}
  BY DEF BaseInv, FileSysTypeOK, Frame
<1>3. \A p \in Pointer : inode[p].sector \in Sector
  BY DEF BaseInv, FileSysTypeOK, Inode
<1>4. ListedSectors \subseteq Sector
  BY DEF ListedSectors, Listed, BaseInv, FileSysTypeOK, dir_entry
<1>5. OpenSectors \subseteq Sector
  BY <1>3 DEF OpenSectors, BaseInv, FileSysTypeOK
<1>6. \A S : Claims(pc, frame, S) \subseteq Sector
  BY <1>2 DEF Claims
<1>7. FreedSectors \subseteq Sector
  <2>1. \A t \in Thread : pc[t] = "release_inode" => frame[t].node \in Pointer
    BY <1>2 DEF BaseInv, RefInv, FrameOK, Releasing
  <2> QED BY <1>3, <2>1 DEF FreedSectors
<1> QED BY <1>1, <1>4, <1>5, <1>6, <1>7 DEF Live, FoundSectors, AddedSectors, NewSectors

\* Copies stay good while the inodes of files on disk do, and t's own are.
LEMMA CopyStep ==
    ASSUME FileSysTypeOK, CopyInv, NEW t \in Thread, NEW pl, NEW f, Move(t, pl, f),
           \A s \in Live : disk'[s] = disk[s],
           \A p \in open_inodes' :
             \/ inode'[p].data = disk'[inode'[p].sector]
             \/ /\ p \in open_inodes
                /\ inode'[p].sector = inode[p].sector /\ inode'[p].data = inode[p].data,
           \A u \in Thread : u # t /\ frame[u].node # NULL =>
             /\ inode'[frame[u].node].sector = inode[frame[u].node].sector
             /\ inode'[frame[u].node].data = inode[frame[u].node].data,
           \A u \in Thread : pc[u] = "release_inode" \/ pc[u] = "remove_erase" =>
             frame[u].node # NULL,
           Knows(pl, f, disk', inode')
    PROVE  CopyInv'
<1>1. /\ pc'[t] = pl /\ frame'[t] = f
      /\ \A u \in Thread : u # t => pc'[u] = pc[u] /\ frame'[u] = frame[u]
  BY Moved
<1>2. \A p \in open_inodes' : inode'[p].data = disk'[inode'[p].sector]
  BY DEF CopyInv, Live, OpenSectors
<1>3. ASSUME NEW u \in Thread, u # t PROVE Knows(pc[u], frame[u], disk', inode')
  <2>1. Knows(pc[u], frame[u], disk, inode)
    BY DEF CopyInv
  <2>2. pc[u] = "open_node" => disk'[frame[u].inode_sector] = disk[frame[u].inode_sector]
    BY DEF Live, FoundSectors, Claims
  <2>3. pc[u] = "release_inode" =>
          disk'[inode[frame[u].node].sector] = disk[inode[frame[u].node].sector]
    BY DEF Live, FreedSectors
  <2> QED BY <1>3, <2>1, <2>2, <2>3 DEF Knows
<1>4. \A u \in Thread : Knows(pc'[u], frame'[u], disk', inode')
  BY <1>1, <1>3
<1> QED BY <1>2, <1>4 DEF CopyInv, Knows

LEMMA ApartFewer ==
    ASSUME NEW li, NEW op, NEW fo, NEW ad, NEW fr, Apart(li, op, fo, ad, fr),
           NEW li2, NEW op2, NEW fo2, NEW ad2 \in SUBSET ad, NEW fr2 \in SUBSET fr,
           li2 \cup op2 \cup fo2 \subseteq li \cup op \cup fo
    PROVE  Apart(li2, op2, fo2, ad2, fr2)
BY DEF Apart

-----------------------------------------------------------------------------
(* Steps that change nothing that belongs to anybody.                       *)

Calm ==
    /\ UNCHANGED <<entries, free_map, disk, lost, open_inodes>>
    /\ \A p \in Pointer : inode'[p].removed = inode[p].removed

LEMMA CalmStep ==
    ASSUME BaseInv, OwnInv, SourceInv, CopyInv, NEW t \in Thread, NEW pl, NEW f, Move(t, pl, f),
           pc[t] \notin Releasing, pl \notin Releasing, InodesStay, Calm,
           pl = "open_node" =>
             f.inode_sector \in ListedSectors \cup Claim(pc[t], frame[t], {"open_node"}),
           pl \in HasSector \/ pc[t] \in HasSector =>
             /\ f.inode_sector = frame[t].inode_sector
             /\ pl = "dir_add" <=> pc[t] = "dir_add"
             /\ pl \in HasSector /\ pc[t] \in HasSector,
           Knows(pl, f, disk, inode')
    PROVE  OwnInv' /\ SourceInv' /\ CopyInv' /\ (AllInv => AllInv')
<1>1. FileSysTypeOK /\ RefInv
  BY DEF BaseInv
<1>2. /\ entries' = entries /\ free_map' = free_map /\ disk' = disk /\ lost' = lost
      /\ open_inodes' = open_inodes
      /\ \A p \in Pointer : inode'[p].removed = inode[p].removed
  BY DEF Calm
<1>3. ListedSectors' = ListedSectors /\ Listed' = Listed
  BY <1>2 DEF ListedSectors, Listed
<1>4. \A p \in open_inodes :
        /\ inode'[p].sector = inode[p].sector /\ inode'[p].removed = inode[p].removed
        /\ inode'[p].data = inode[p].data
  BY <1>1, <1>2 DEF InodesStay, FileSysTypeOK
<1>5. OpenSectors' = OpenSectors
  BY <1>2, <1>4 DEF OpenSectors
<1>6. FreedSectors' = FreedSectors /\ FreedData' = FreedData
  BY <1>1, FreedStay
<1>7. FoundSectors' \subseteq FoundSectors \cup ListedSectors
  <2>1. Claim(pl, f, {"open_node"}) \subseteq FoundSectors \cup ListedSectors
    BY <1>1, ClaimsMove DEF Claim, FoundSectors
  <2> QED BY <1>1, <2>1, ClaimsMove DEF FoundSectors
<1>8. AddedSectors' = AddedSectors
  <2>1. Claim(pl, f, {"dir_add"}) = Claim(pc[t], frame[t], {"dir_add"})
    BY DEF Claim, HasSector
  <2> DEFINE S == {"dir_add"}
             c == Claim(pl, f, S)
  <2>2. /\ Claims(pc', frame', S) \subseteq Claims(pc, frame, S) \cup c
        /\ Claims(pc, frame, S) \subseteq Claims(pc', frame', S) \cup c
        /\ c \subseteq Claims(pc', frame', S) /\ c \subseteq Claims(pc, frame, S)
    BY <1>1, <2>1, ClaimsMove
  <2>3. Claims(pc', frame', S) = Claims(pc, frame, S)
    BY <2>2
  <2> QED BY <2>3 DEF AddedSectors
<1>9. NewSectors' = NewSectors
  <2> DEFINE S == {"inode_create", "release_sector"}
  <2>1. Claim(pl, f, S) = Claim(pc[t], frame[t], S)
    BY DEF Claim, HasSector
  <2> DEFINE c == Claim(pl, f, S)
  <2> HIDE DEF S
  <2>2. /\ Claims(pc', frame', S) \subseteq Claims(pc, frame, S) \cup c
        /\ Claims(pc, frame, S) \subseteq Claims(pc', frame', S) \cup c
        /\ c \subseteq Claims(pc', frame', S) /\ c \subseteq Claims(pc, frame, S)
    BY <1>1, <2>1, ClaimsMove
  <2>3. Claims(pc', frame', S) = Claims(pc, frame, S)
    BY <2>2
  <2> QED BY <2>3 DEF NewSectors, S
<1>10. Live' \subseteq Live
  BY <1>3, <1>5, <1>6, <1>7, <1>8 DEF Live
<1>11. OwnInv'
  <2>1. Own(Live', NewSectors', FreedData', free_map, disk, lost)
    BY <1>6, <1>9, <1>10, OwnFewer DEF OwnInv
  <2> QED BY <1>2, <2>1 DEF OwnInv
<1>12. SourceInv'
  <2>1. Apart(ListedSectors', OpenSectors', FoundSectors', AddedSectors', FreedSectors')
    BY <1>3, <1>5, <1>6, <1>7, <1>8, ApartFewer DEF SourceInv
  <2>2. \A r, s \in Listed' : entries'[r].inode_sector = entries'[s].inode_sector => r = s
    BY <1>2, <1>3 DEF SourceInv
  <2>3. \A p \in open_inodes' : inode'[p].removed =>
          inode'[p].sector \notin ListedSectors' \cup FoundSectors'
    BY <1>2, <1>3, <1>4, <1>7 DEF SourceInv
  <2>4. \A u, v \in Thread :
             pc'[u] \in HasSector /\ pc'[v] \in HasSector /\ u # v =>
                 frame'[u].inode_sector # frame'[v].inode_sector
    BY <1>1, SectorsDiffer
  <2> QED BY <2>1, <2>2, <2>3, <2>4 DEF SourceInv, HasSector
<1>13. CopyInv'
  <2>1. \A u \in Thread : frame[u].node # NULL => frame[u].node \in Pointer
    BY <1>1 DEF FileSysTypeOK, Frame
  <2>2. \A u \in Thread : u # t /\ frame[u].node # NULL =>
             /\ inode'[frame[u].node].sector = inode[frame[u].node].sector
             /\ inode'[frame[u].node].data = inode[frame[u].node].data
    BY <2>1 DEF InodesStay
  <2>3. \A u \in Thread : pc[u] = "release_inode" \/ pc[u] = "remove_erase" =>
             frame[u].node # NULL
    BY <1>1 DEF RefInv, FrameOK, Releasing
  <2>4. \A s \in Live : disk'[s] = disk[s]
    BY <1>2
  <2>5. Knows(pl, f, disk', inode')
    BY <1>2
  <2>6. \A p \in open_inodes' :
             \/ inode'[p].data = disk'[inode'[p].sector]
             \/ /\ p \in open_inodes
                /\ inode'[p].sector = inode[p].sector /\ inode'[p].data = inode[p].data
    BY <1>2, <1>4
  <2> QED BY <1>1, <2>2, <2>3, <2>4, <2>5, <2>6, CopyStep
<1>14. ASSUME AllInv PROVE AllInv'
  <2>1. FoundSectors \subseteq ListedSectors
    BY <1>14 DEF AllInv
  <2>2. Live \subseteq Live'
    BY <1>3, <1>5, <1>6, <1>8, <2>1 DEF Live
  <2>3. Cover(Live', NewSectors', FreedData', free_map', disk', lost')
    <3>1. Cover(Live, NewSectors, FreedData, free_map, disk, lost)
      BY <1>14 DEF AllInv
    <3>2. Cover(Live', NewSectors', FreedData', free_map, disk, lost)
      BY <1>6, <1>9, <2>2, <3>1, CoverSame
    <3> QED BY <1>2, <3>2
  <2>4. \A p \in open_inodes' :
          inode'[p].sector # ROOT_DIR_SECTOR /\ ~inode'[p].removed =>
            inode'[p].sector \in ListedSectors'
    BY <1>2, <1>3, <1>4, <1>14 DEF AllInv, IsRoot
  <2> QED BY <1>3, <1>7, <2>1, <2>3, <2>4 DEF AllInv, IsRoot
<1> QED BY <1>11, <1>12, <1>13, <1>14

\* What a thread knows when inode_open has given it p, or NULL.
LEMMA OpenReturnsKnows ==
    ASSUME BaseInv, CopyInv, NEW t \in Thread, pc[t] \in Opening,
           NEW p \in Pointer \cup {NULL}, OpenReturns(t, p),
           p # NULL => inode'[p].sector = Wanted(t) /\ inode'[p].data = disk[Wanted(t)]
    PROVE  \E pl, f :
             /\ Move(t, pl, f) /\ pl \in Places /\ f \in Frame /\ FrameOK(pl, f)
             /\ pl \notin Releasing \cup HasSector \cup {"open_node"}
             /\ Knows(pl, f, disk, inode')
<1>1. FileSysTypeOK /\ RefInv
  BY DEF BaseInv
<1>2. PICK pl, f :
             /\ Move(t, pl, f) /\ pl \in Places /\ f \in Frame /\ FrameOK(pl, f)
             /\ pl \notin Releasing \cup HasSector \cup {"open_node"}
             /\ f.node = (IF pc[t] = "open_root" THEN NULL ELSE p)
             /\ f.op = "open" => frame[t].op = "open"
             /\ pc[t] = "open_node" => f = [frame[t] EXCEPT !.node = p]
  BY <1>1, OpenReturnsMoves
<1>3. frame[t] \in Frame
  BY <1>1 DEF FileSysTypeOK
<1>4. ASSUME f.node # NULL
      PROVE  /\ pc[t] = "open_node" /\ f.node = p /\ Wanted(t) = frame[t].inode_sector
             /\ f.inode_sector = frame[t].inode_sector /\ f.file = frame[t].file
             /\ inode'[p].sector = frame[t].inode_sector
             /\ inode'[p].data = disk[frame[t].inode_sector]
  <2>1. pc[t] = "open_node" /\ f.node = p
    BY <1>2, <1>4 DEF Opening
  <2>2. f = [frame[t] EXCEPT !.node = p]
    BY <1>2, <2>1
  <2>3. f.inode_sector = frame[t].inode_sector /\ f.file = frame[t].file
    BY <1>3, <2>2 DEF Frame
  <2> QED BY <1>4, <2>1, <2>3 DEF Wanted
<1>5. pl = "remove_erase" => inode'[f.node].sector = f.inode_sector
  BY <1>2, <1>4 DEF FrameOK
<1>6. ASSUME f.op = "open", f.node # NULL
      PROVE  inode'[f.node].data.file = f.file
  <2>1. Knows(pc[t], frame[t], disk, inode)
    BY DEF CopyInv
  <2> QED BY <1>2, <1>4, <1>6, <2>1 DEF Knows
<1>7. Knows(pl, f, disk, inode')
  BY <1>2, <1>5, <1>6 DEF Knows, Releasing
<1> QED BY <1>2, <1>7

LEMMA OpenReopenCalm ==
    ASSUME BaseInv, OwnInv, SourceInv, CopyInv, NEW t \in Thread, OpenReopen(t)
    PROVE  OwnInv' /\ SourceInv' /\ CopyInv' /\ (AllInv => AllInv')
<1>1. FileSysTypeOK
  BY DEF BaseInv
<1>2. /\ pc[t] \in Opening
      /\ UNCHANGED <<entries, free_map, disk, lost, open_inodes>>
  BY DEF OpenReopen, At, Opening, dirVars, mapVars
<1>3. PICK p \in open_inodes : /\ inode[p].sector = Wanted(t)
                               /\ inode' = [inode EXCEPT ![p].open_cnt = @ + 1]
                               /\ OpenReturns(t, p)
  BY DEF OpenReopen, Opened
<1>4. p \in Pointer
  BY <1>1 DEF FileSysTypeOK
<1>5. \A q \in Pointer : /\ inode'[q].sector = inode[q].sector /\ inode'[q].data = inode[q].data
                         /\ inode'[q].removed = inode[q].removed
  BY <1>1, <1>3 DEF FileSysTypeOK, Inode
<1>6. inode'[p].sector = Wanted(t) /\ inode'[p].data = disk[Wanted(t)]
  BY <1>3, <1>4, <1>5 DEF CopyInv
<1>7. PICK pl, f :
             /\ Move(t, pl, f) /\ pl \in Places /\ f \in Frame /\ FrameOK(pl, f)
             /\ pl \notin Releasing \cup HasSector \cup {"open_node"}
             /\ Knows(pl, f, disk, inode')
  BY <1>2, <1>3, <1>4, <1>6, OpenReturnsKnows
<1>8. InodesStay /\ Calm
  BY <1>2, <1>5 DEF InodesStay, Calm
<1>9. pc[t] \notin Releasing \cup HasSector
  BY <1>2 DEF Opening, Releasing, HasSector
<1> QED BY <1>7, <1>8, <1>9, CalmStep

LEMMA OpenFailsCalm ==
    ASSUME BaseInv, OwnInv, SourceInv, CopyInv, NEW t \in Thread, OpenFails(t)
    PROVE  OwnInv' /\ SourceInv' /\ CopyInv' /\ (AllInv => AllInv')
<1>1. FileSysTypeOK /\ RefInv
  BY DEF BaseInv
<1>2. /\ pc[t] \in Opening /\ OpenReturns(t, NULL) /\ inode' = Unlocked(t)
      /\ UNCHANGED <<entries, free_map, disk, lost, open_inodes>>
  BY DEF OpenFails, At, Opening, dirVars, mapVars
<1>5. \A q \in Pointer : /\ inode'[q].sector = inode[q].sector /\ inode'[q].data = inode[q].data
                         /\ inode'[q].removed = inode[q].removed
  BY <1>1, <1>2 DEF FileSysTypeOK, Inode, Unlocked
<1>7. PICK pl, f :
             /\ Move(t, pl, f) /\ pl \in Places /\ f \in Frame /\ FrameOK(pl, f)
             /\ pl \notin Releasing \cup HasSector \cup {"open_node"}
             /\ Knows(pl, f, disk, inode')
  BY <1>2, OpenReturnsKnows
<1>8. InodesStay /\ Calm
  BY <1>2, <1>5 DEF InodesStay, Calm
<1>9. pc[t] \notin Releasing \cup HasSector
  BY <1>2 DEF Opening, Releasing, HasSector
<1> QED BY <1>7, <1>8, <1>9, CalmStep

\* Nothing but where the thread is and what it found changes.
LEMMA StillCalm ==
    ASSUME BaseInv, OwnInv, SourceInv, CopyInv, NEW t \in Thread, NEW pl, NEW f, Move(t, pl, f),
           UNCHANGED <<entries, mapVars, open_inodes>>,
           \A q \in Pointer : /\ inode'[q].sector = inode[q].sector
                              /\ inode'[q].data = inode[q].data
                              /\ inode'[q].removed = inode[q].removed,
           pc[t] \notin Releasing \cup {"remove_erase"}, pl \notin Releasing \cup {"remove_erase"},
           pl = "open_node" =>
             /\ f.inode_sector \in ListedSectors \cup Claim(pc[t], frame[t], {"open_node"})
             /\ f.op = "open" => disk[f.inode_sector].file = f.file,
           pl \in HasSector \/ pc[t] \in HasSector =>
             /\ f.inode_sector = frame[t].inode_sector
             /\ pl = "dir_add" <=> pc[t] = "dir_add"
             /\ pl \in HasSector /\ pc[t] \in HasSector,
           f.op = "open" /\ f.node # NULL /\ pl \in {"close_root", "file_open"} =>
             inode[f.node].data.file = f.file,
           f.node \in Pointer \cup {NULL}
    PROVE  OwnInv' /\ SourceInv' /\ CopyInv' /\ (AllInv => AllInv')
<1>1. InodesStay /\ Calm
  BY DEF InodesStay, Calm, mapVars
<1>2. f.op = "open" /\ f.node # NULL /\ pl \in {"close_root", "file_open"} =>
        inode'[f.node].data.file = f.file
  OBVIOUS
<1>3. Knows(pl, f, disk, inode')
  BY <1>2 DEF Knows, Releasing
<1> QED BY <1>1, <1>3, CalmStep

LEMMA CallCalm ==
    ASSUME BaseInv, OwnInv, SourceInv, CopyInv, NEW t \in Thread, Call(t)
    PROVE  OwnInv' /\ SourceInv' /\ CopyInv' /\ (AllInv => AllInv')
<1>1. FileSysTypeOK
  BY DEF BaseInv
<1>2. PICK pl, f :
         pl \in {"open_root", "close_node"} /\ Move(t, pl, f) /\ f.node \in Pointer \cup {NULL}
  <2>1. ASSUME NEW op, NEW name, NEW size, NEW fl, Enter(t, op, "open_root", name, size, fl, NULL)
        PROVE  \E f : Move(t, "open_root", f) /\ f.node = NULL
    <3> DEFINE f == [NoFrame EXCEPT !.op = op, !.name = name, !.size = size, !.file = fl, !.node = NULL]
    <3>1. Move(t, "open_root", f) /\ f.node = NULL
      BY <2>1 DEF Enter, Goto, Move, NoFrame
    <3> HIDE DEF f
    <3> QED BY <3>1
  <2>2. CASE CallClose(t)
    <3> DEFINE f == [NoFrame EXCEPT !.op = "close", !.name = NoFrame.name, !.size = 0,
                                    !.file = NULL, !.node = file[t]]
    <3>1. Move(t, "close_node", f) /\ f.node = file[t]
      BY <2>2 DEF CallClose, Enter, Goto, Move, NoFrame
    <3> HIDE DEF f
    <3> QED BY <1>1, <3>1 DEF FileSysTypeOK
  <2> QED BY <2>1, <2>2 DEF Call, CallCreate, CallOpen, CallRemove
<1>3. /\ pc[t] = "idle"
      /\ UNCHANGED <<entries, mapVars, open_inodes>> /\ inode' = inode
  BY DEF Call, CallCreate, CallOpen, CallRemove, CallClose, At, dirVars, inodeVars
<1>4. /\ pc[t] \notin Releasing \cup {"remove_erase"} /\ pl \notin Releasing \cup {"remove_erase"}
      /\ pl \notin {"open_node", "close_root", "file_open"} \cup HasSector
      /\ pc[t] \notin HasSector
  BY <1>2, <1>3 DEF Releasing, HasSector
<1> QED BY <1>2, <1>3, <1>4, StillCalm

LEMMA WaitCalm ==
    ASSUME BaseInv, OwnInv, SourceInv, CopyInv, NEW t \in Thread,
           OpenFound(t) \/ CloseLock(t) \/ DirAddBad(t)
    PROVE  OwnInv' /\ SourceInv' /\ CopyInv' /\ (AllInv => AllInv')
<1>1. /\ pc[t] \in Opening \cup {"close_root", "close_node", "dir_add"}
      /\ UNCHANGED <<entries, mapVars, open_inodes, inode, pc, frame>>
  BY DEF OpenFound, CloseLock, DirAddBad, At, Opening, dirVars, inodeVars
<1>2. /\ Move(t, pc[t], frame[t]) /\ frame[t] \in Frame
  BY <1>1, Here
<1>3. Knows(pc[t], frame[t], disk, inode)
  BY DEF CopyInv
<1>4. pc[t] \notin Releasing \cup {"remove_erase"}
  BY <1>1 DEF Opening, Releasing
<1>5. InodesStay /\ Calm
  BY <1>1 DEF InodesStay, Calm, mapVars
<1>6. pc[t] = "open_node" =>
        frame[t].inode_sector \in ListedSectors \cup Claim(pc[t], frame[t], {"open_node"})
  BY DEF Claim
<1> QED BY <1>1, <1>2, <1>3, <1>4, <1>5, <1>6, CalmStep

LEMMA FileOpenCalm ==
    ASSUME BaseInv, OwnInv, SourceInv, CopyInv, NEW t \in Thread, FileOpen(t)
    PROVE  OwnInv' /\ SourceInv' /\ CopyInv' /\ (AllInv => AllInv')
<1>1. /\ pc[t] = "file_open" /\ UNCHANGED <<entries, mapVars, open_inodes, inode>>
  BY DEF FileOpen, At, dirVars, inodeVars
<1>2. frame[t] \in Frame /\ FileSysTypeOK
  BY Here DEF BaseInv
<1>3. PICK pl \in {"idle", "close_node"}, f \in Frame : Move(t, pl, f)
  <2>1. CASE Return(t)
    BY <2>1, NoFrameOK DEF Return, Goto, Move
  <2>2. CASE Goto(t, "close_node") /\ UNCHANGED frame
    <3>1. Move(t, "close_node", frame[t])
      BY <1>2, <2>2 DEF Goto, Move, FileSysTypeOK
    <3> QED BY <1>2, <3>1
  <2> QED BY <2>1, <2>2 DEF FileOpen
<1>4. /\ pc[t] \notin Releasing \cup {"remove_erase"} /\ pl \notin Releasing \cup {"remove_erase"}
      /\ pl \notin {"open_node", "close_root", "file_open"} \cup HasSector
      /\ pc[t] \notin HasSector /\ f.node \in Pointer \cup {NULL}
  BY <1>1 DEF Releasing, HasSector, Frame
<1> QED BY <1>1, <1>3, <1>4, StillCalm

LEMMA LookupCalm ==
    ASSUME BaseInv, OwnInv, SourceInv, CopyInv, NEW t \in Thread, Lookup(t)
    PROVE  OwnInv' /\ SourceInv' /\ CopyInv' /\ (AllInv => AllInv')
<1>1. /\ pc[t] = "lookup" /\ UNCHANGED <<entries, mapVars, open_inodes, inode>>
  BY DEF Lookup, At, dirVars, inodeVars
<1>2. frame[t] \in Frame /\ FileSysTypeOK /\ FrameOK("lookup", frame[t])
  BY <1>1, Here DEF BaseInv
<1>3. frame[t].node = NULL
  BY <1>2 DEF FrameOK
<1>4. PICK pl, f :
        /\ pl \in {"lookup", "open_node", "close_root"} /\ Move(t, pl, f) /\ f.node = NULL
        /\ pl = "open_node" => f.inode_sector \in ListedSectors
                               /\ disk[f.inode_sector].file = f.file
  <2> DEFINE e == entries[frame[t].ofs]
  <2>1. CASE /\ frame[t].ofs \in Slot /\ e.in_use
             /\ frame' = [frame EXCEPT ![t].inode_sector = e.inode_sector,
                                       ![t].file = disk[e.inode_sector].file]
             /\ Goto(t, "open_node")
    <3> DEFINE f == [frame[t] EXCEPT !.inode_sector = e.inode_sector,
                                     !.file = disk[e.inode_sector].file]
    <3>1. /\ f.node = NULL /\ f.inode_sector = e.inode_sector
          /\ f.file = disk[e.inode_sector].file
      BY <1>2, <1>3 DEF Frame
    <3>2. Move(t, "open_node", f)
      BY <2>1, <1>2 DEF Move, Goto, FileSysTypeOK
    <3>3. e.inode_sector \in ListedSectors
      BY <2>1 DEF ListedSectors, Listed
    <3> HIDE DEF f, e
    <3> QED BY <3>1, <3>2, <3>3
  <2>2. CASE frame' = [frame EXCEPT ![t].ofs = @ + 1] /\ UNCHANGED pc
    <3> DEFINE f == [frame[t] EXCEPT !.ofs = @ + 1]
    <3>1. f.node = NULL
      BY <1>2, <1>3 DEF Frame
    <3>2. Move(t, "lookup", f)
      BY <1>1, <2>2, <1>2 DEF Move, FileSysTypeOK
    <3> HIDE DEF f
    <3> QED BY <3>1, <3>2
  <2>3. CASE Goto(t, "close_root") /\ UNCHANGED frame
    <3>1. Move(t, "close_root", frame[t])
      BY <2>3, <1>2 DEF Move, Goto, FileSysTypeOK
    <3> QED BY <1>3, <3>1
  <2> QED BY <2>1, <2>2, <2>3 DEF Lookup
<1>5. /\ pc[t] \notin Releasing \cup {"remove_erase"} /\ pl \notin Releasing \cup {"remove_erase"}
      /\ pl \notin HasSector /\ pc[t] \notin HasSector
  BY <1>1, <1>4 DEF Releasing, HasSector
<1> QED BY <1>1, <1>4, <1>5, StillCalm

LEMMA RemoveFindCalm ==
    ASSUME BaseInv, OwnInv, SourceInv, CopyInv, NEW t \in Thread, RemoveFind(t)
    PROVE  OwnInv' /\ SourceInv' /\ CopyInv' /\ (AllInv => AllInv')
<1>1. /\ pc[t] = "remove_find" /\ UNCHANGED <<entries, mapVars, open_inodes>>
  BY DEF RemoveFind, At, dirVars
<1>2. frame[t] \in Frame /\ FileSysTypeOK /\ FrameOK("remove_find", frame[t])
  BY <1>1, Here DEF BaseInv
<1>3. frame[t].node = NULL /\ frame[t].op = "remove"
  BY <1>2 DEF FrameOK
<1>4. PICK n \in Seen :
         LET found == Named(frame[t].name, n) IN
         \/ /\ found # {}
            /\ LET s == Least(found) IN
                 frame' = [frame EXCEPT ![t].ofs = s,
                             ![t].inode_sector = entries[s].inode_sector]
            /\ inode' = [inode EXCEPT ![frame[t].dir].inode_lock = t]
            /\ Goto(t, "open_node")
         \/ /\ found = {}
            /\ Goto(t, "close_root")
            /\ UNCHANGED <<inode, frame>>
  BY DEF RemoveFind
<1>5. \A q \in Pointer : /\ inode'[q].sector = inode[q].sector /\ inode'[q].data = inode[q].data
                         /\ inode'[q].removed = inode[q].removed
  BY <1>2, <1>4 DEF FileSysTypeOK, Inode
<1>6. PICK pl, f :
        /\ pl \in {"open_node", "close_root"} /\ Move(t, pl, f) /\ f.node = NULL /\ f.op = "remove"
        /\ pl = "open_node" => f.inode_sector \in ListedSectors
  <2> DEFINE found == Named(frame[t].name, n)
             s == Least(found)
             e == entries[s].inode_sector
  <2>1. CASE /\ found # {} /\ Goto(t, "open_node")
             /\ frame' = [frame EXCEPT ![t].ofs = s, ![t].inode_sector = e]
    <3>1. n \in 0..DirSize /\ found \in SUBSET Nat
      BY FileSysAssumption DEF Seen, Named
    <3>2. s \in found
      BY <2>1, <3>1, LeastIn
    <3>3. s \in Slot /\ entries[s].in_use
      BY <3>1, <3>2, FileSysAssumption DEF Named, Slot
    <3> HIDE DEF s, found
    <3>4. e \in ListedSectors
      BY <3>3 DEF ListedSectors, Listed
    <3> HIDE DEF e
    <3> DEFINE f == [frame[t] EXCEPT !.ofs = s, !.inode_sector = e]
    <3>5. f.inode_sector = e /\ f.node = NULL /\ f.op = "remove"
      BY <1>2, <1>3 DEF Frame
    <3>6. Move(t, "open_node", f)
      BY <2>1, <1>2 DEF Move, Goto, FileSysTypeOK
    <3> HIDE DEF f
    <3> QED BY <3>4, <3>5, <3>6
  <2>2. CASE Goto(t, "close_root") /\ UNCHANGED <<inode, frame>>
    <3>1. Move(t, "close_root", frame[t])
      BY <2>2, <1>2 DEF Move, Goto, FileSysTypeOK
    <3> QED BY <1>3, <3>1
  <2> QED BY <1>4, <2>1, <2>2
<1>7. /\ pc[t] \notin Releasing \cup {"remove_erase"} /\ pl \notin Releasing \cup {"remove_erase"}
      /\ pl \notin HasSector /\ pc[t] \notin HasSector
  BY <1>1, <1>6 DEF Releasing, HasSector
<1> QED BY <1>1, <1>5, <1>6, <1>7, StillCalm

-----------------------------------------------------------------------------
(* Creating.                                                               *)

LEMMA FirstFree ==
    ASSUME FileSysTypeOK, Runs(1) # {}
    PROVE  Least(Runs(1)) \in Sector /\ Least(Runs(1)) \notin free_map
<1> DEFINE x == Least(Runs(1))
<1>1. x \in Sector /\ x .. x + 1 - 1 \subseteq Sector \ free_map
  BY LeastRun
<1>2. x \in x .. x + 1 - 1
  BY <1>1 DEF Sector
<1> QED BY <1>1, <1>2

\* What a step in filesys_create leaves alone.
LEMMA CreatingStays ==
    ASSUME BaseInv, NEW t \in Thread, NEW pl, NEW f, Move(t, pl, f),
           pc[t] \in Creating, pl \in Creating \cup {"close_root"},
           UNCHANGED <<inode, open_inodes>>
    PROVE  /\ OpenSectors' = OpenSectors /\ FoundSectors' = FoundSectors
           /\ FreedSectors' = FreedSectors /\ FreedData' = FreedData
<1>1. FileSysTypeOK /\ RefInv
  BY DEF BaseInv
<1>2. OpenSectors' = OpenSectors
  BY DEF OpenSectors
<1>3. FoundSectors' = FoundSectors
  <2> DEFINE S == {"open_node"}
  <2>1. Claim(pl, f, S) = {} /\ Claim(pc[t], frame[t], S) = {}
    BY DEF Claim, Creating
  <2>2. /\ Claims(pc', frame', S) \subseteq Claims(pc, frame, S) \cup Claim(pl, f, S)
        /\ Claims(pc, frame, S) \subseteq Claims(pc', frame', S) \cup Claim(pc[t], frame[t], S)
    BY <1>1, ClaimsMove
  <2>3. Claims(pc', frame', S) = Claims(pc, frame, S)
    BY <2>1, <2>2
  <2> QED BY <2>3 DEF FoundSectors
<1>4. InodesStay
  BY DEF InodesStay
<1>5. pc[t] \notin Releasing /\ pl \notin Releasing
  BY DEF Creating, Releasing
<1> QED BY <1>1, <1>2, <1>3, <1>4, <1>5, FreedStay

\* Nor does it touch what is in memory, as long as files' inodes stay on disk.
LEMMA CreatingCopies ==
    ASSUME BaseInv, CopyInv, NEW t \in Thread, NEW pl, NEW f, Move(t, pl, f),
           pl \in Creating \cup {"close_root"}, f.op = "create",
           UNCHANGED <<inode, open_inodes>>, \A s \in Live : disk'[s] = disk[s]
    PROVE  CopyInv'
<1>1. FileSysTypeOK /\ RefInv
  BY DEF BaseInv
<1>2. Knows(pl, f, disk', inode')
  BY DEF Knows, Creating
<1>3. \A u \in Thread : pc[u] = "release_inode" \/ pc[u] = "remove_erase" =>
             frame[u].node # NULL
  BY <1>1 DEF RefInv, FrameOK, Releasing
<1> QED BY <1>1, <1>2, <1>3, CopyStep

LEMMA AllocateOwns ==
    ASSUME BaseInv, OwnInv, SourceInv, CopyInv, NEW t \in Thread, Allocate(t)
    PROVE  OwnInv' /\ SourceInv' /\ CopyInv' /\ (AllInv => AllInv')
<1>1. /\ pc[t] = "allocate"
      /\ disk' = disk /\ lost' = lost /\ entries' = entries
      /\ UNCHANGED <<inode, open_inodes>>
  BY DEF Allocate, At, dirVars, inodeVars
<1>2. FileSysTypeOK /\ frame[t] \in Frame /\ FrameOK("allocate", frame[t])
  BY <1>1, Here DEF BaseInv
<1>3. frame[t].op = "create" /\ frame[t].node = NULL
  BY <1>2 DEF FrameOK, Creating
<1>4. CASE Goto(t, "close_root") /\ UNCHANGED <<free_map, frame>>
  <2>1. Move(t, "close_root", frame[t])
    BY <1>2, <1>4 DEF Goto, Move, FileSysTypeOK
  <2>2. /\ pc[t] \notin Releasing \cup {"remove_erase"} \cup HasSector
        /\ "close_root" \notin Releasing \cup {"remove_erase", "open_node"} \cup HasSector
        /\ UNCHANGED <<entries, mapVars, open_inodes>>
    BY <1>1, <1>4 DEF Releasing, HasSector, mapVars
  <2> QED BY <1>1, <1>3, <2>1, <2>2, StillCalm
<1>5. CASE /\ Runs(1) # {}
           /\ free_map' = free_map \cup {Least(Runs(1))}
           /\ frame' = [frame EXCEPT ![t].inode_sector = Least(Runs(1))]
           /\ Goto(t, "inode_create")
  <2> DEFINE x == Least(Runs(1))
             f == [frame[t] EXCEPT !.inode_sector = x]
             pl == "inode_create"
             S == {"inode_create", "release_sector"}
  <2>1. x \in Sector /\ x \notin free_map
    BY <1>2, <1>5, FirstFree
  <2>2. free_map' = free_map \cup {x}
    BY <1>5
  <2>3. Move(t, pl, f)
    BY <1>2, <1>5 DEF Goto, Move, FileSysTypeOK
  <2> HIDE DEF x
  <2>4. f.inode_sector = x /\ f.op = "create"
    BY <1>2, <1>3 DEF Frame
  <2> HIDE DEF f
  <2>5. /\ OpenSectors' = OpenSectors /\ FoundSectors' = FoundSectors
        /\ FreedSectors' = FreedSectors /\ FreedData' = FreedData
    BY <1>1, <2>3, CreatingStays DEF Creating
  <2>6. ListedSectors' = ListedSectors /\ Listed' = Listed
    BY <1>1 DEF ListedSectors, Listed
  <2>7. AddedSectors' = AddedSectors
    <3>1. Claim(pl, f, {"dir_add"}) = {} /\ Claim(pc[t], frame[t], {"dir_add"}) = {}
      BY <1>1 DEF Claim
    <3>2. /\ Claims(pc', frame', {"dir_add"}) \subseteq
               Claims(pc, frame, {"dir_add"}) \cup Claim(pl, f, {"dir_add"})
          /\ Claims(pc, frame, {"dir_add"}) \subseteq
               Claims(pc', frame', {"dir_add"}) \cup Claim(pc[t], frame[t], {"dir_add"})
      BY <1>2, <2>3, ClaimsMove
    <3>3. Claims(pc', frame', {"dir_add"}) = Claims(pc, frame, {"dir_add"})
      BY <3>1, <3>2
    <3> QED BY <3>3 DEF AddedSectors
  <2>8. NewSectors' = NewSectors \cup {x}
    <3>1. Claim(pl, f, S) = {x} /\ Claim(pc[t], frame[t], S) = {}
      BY <1>1, <2>4 DEF Claim
    <3> HIDE DEF S
    <3>2. /\ Claims(pc', frame', S) \subseteq Claims(pc, frame, S) \cup Claim(pl, f, S)
          /\ Claims(pc, frame, S) \subseteq Claims(pc', frame', S) \cup Claim(pc[t], frame[t], S)
          /\ Claim(pl, f, S) \subseteq Claims(pc', frame', S)
      BY <1>2, <2>3, ClaimsMove
    <3>3. Claims(pc', frame', S) = Claims(pc, frame, S) \cup {x}
      BY <3>1, <3>2
    <3> QED BY <3>3 DEF NewSectors, S
  <2>9. Live' = Live
    BY <2>5, <2>6, <2>7 DEF Live
  <2>10. OwnInv'
    BY <1>1, <2>1, <2>2, <2>5, <2>8, <2>9, OwnAllocate DEF OwnInv
  <2>11. \A u \in Thread : pc[u] \in HasSector => frame[u].inode_sector \in free_map
    <3>1. NewSectors \subseteq free_map /\ AddedSectors \subseteq free_map
      BY DEF OwnInv, Own, Live, Extent
    <3> QED BY <3>1 DEF NewSectors, AddedSectors, Claims, HasSector
  <2>12. \A u, v \in Thread :
             pc'[u] \in HasSector /\ pc'[v] \in HasSector /\ u # v =>
                 frame'[u].inode_sector # frame'[v].inode_sector
    <3>1. /\ frame'[t].inode_sector = x
          /\ \A u \in Thread : u # t => pc'[u] = pc[u] /\ frame'[u] = frame[u]
      BY <1>2, <2>3, <2>4, Moved
    <3> QED BY <2>1, <2>11, <3>1 DEF SourceInv
  <2>13. SourceInv'
    <3>1. Apart(ListedSectors', OpenSectors', FoundSectors', AddedSectors', FreedSectors')
      BY <2>5, <2>6, <2>7 DEF SourceInv
    <3>2. \A r, s \in Listed' : entries'[r].inode_sector = entries'[s].inode_sector => r = s
      BY <1>1, <2>6 DEF SourceInv
    <3>3. \A p \in open_inodes' : inode'[p].removed =>
            inode'[p].sector \notin ListedSectors' \cup FoundSectors'
      BY <1>1, <2>5, <2>6 DEF SourceInv
    <3> QED BY <2>12, <3>1, <3>2, <3>3 DEF SourceInv, HasSector
  <2>14. CopyInv'
    BY <1>1, <2>3, <2>4, CreatingCopies DEF Creating
  <2>15. ASSUME AllInv PROVE AllInv'
    <3>1. Cover(Live', NewSectors', FreedData', free_map', disk', lost')
      BY <1>1, <2>1, <2>2, <2>5, <2>8, <2>9, <2>15, OwnAllocate DEF OwnInv, AllInv
    <3>2. \A p \in open_inodes' :
            inode'[p].sector # ROOT_DIR_SECTOR /\ ~inode'[p].removed =>
              inode'[p].sector \in ListedSectors'
      BY <1>1, <2>6, <2>15 DEF AllInv, IsRoot
    <3> QED BY <2>5, <2>6, <2>15, <3>1, <3>2 DEF AllInv, IsRoot
  <2> QED BY <2>10, <2>13, <2>14, <2>15
<1> QED BY <1>4, <1>5 DEF Allocate

LEMMA InodeCreateOwns ==
    ASSUME BaseInv, OwnInv, SourceInv, CopyInv, NEW t \in Thread, InodeCreate(t)
    PROVE  OwnInv' /\ SourceInv' /\ CopyInv' /\ (AllInv => AllInv')
<1>1. /\ pc[t] = "inode_create"
      /\ lost' = lost /\ entries' = entries /\ frame' = frame
      /\ UNCHANGED <<inode, open_inodes>>
  BY DEF InodeCreate, At, dirVars, inodeVars
<1>2. FileSysTypeOK /\ frame[t] \in Frame /\ FrameOK("inode_create", frame[t])
  BY <1>1, Here DEF BaseInv
<1>3. frame[t].op = "create" /\ frame[t].node = NULL
  BY <1>2 DEF FrameOK, Creating
<1> DEFINE n == frame[t].size
           x == frame[t].inode_sector
           d == [start |-> Least(Runs(n)), sectors |-> n, file |-> frame[t].file]
           S == {"inode_create", "release_sector"}
<1>4. CASE Goto(t, "release_sector") /\ UNCHANGED <<free_map, disk>>
  <2>1. Move(t, "release_sector", frame[t])
    BY <1>1, <1>2, <1>4 DEF Goto, Move, FileSysTypeOK
  <2>2. /\ pc[t] \notin Releasing \cup {"remove_erase", "dir_add"} /\ pc[t] \in HasSector
        /\ "release_sector" \notin Releasing \cup {"remove_erase", "open_node"}
        /\ "release_sector" \in HasSector
        /\ UNCHANGED <<entries, mapVars, open_inodes>>
    BY <1>1, <1>4 DEF Releasing, HasSector, mapVars
  <2> QED BY <1>1, <1>3, <2>1, <2>2, StillCalm
<1>5. CASE /\ Runs(n) # {}
           /\ free_map' = free_map \cup Data(d)
           /\ disk' = [s \in Sector |->
                         IF s = x THEN d ELSE IF s \in Data(d) THEN Zeros ELSE disk[s]]
           /\ Goto(t, "dir_add")
  <2>1. Data(d) \cap free_map = {}
    <3>1. n \in Nat
      BY <1>2 DEF Frame
    <3> QED BY <1>2, <1>5, <3>1, LeastRun DEF Data
  <2>2. Move(t, "dir_add", frame[t]) /\ x \in Sector
    BY <1>1, <1>2, <1>5 DEF Goto, Move, FileSysTypeOK, Frame
  <2> HIDE DEF d, x
  <2>3. /\ disk'[x] = d
        /\ \A s \in Sector : s # x /\ s \notin Data(d) => disk'[s] = disk[s]
    BY <1>5, <2>2
  <2>4. x \in NewSectors
    BY <1>1 DEF NewSectors, Claims, x
  <2>5. /\ OpenSectors' = OpenSectors /\ FoundSectors' = FoundSectors
        /\ FreedSectors' = FreedSectors /\ FreedData' = FreedData
    BY <1>1, <2>2, CreatingStays DEF Creating
  <2>6. ListedSectors' = ListedSectors /\ Listed' = Listed
    BY <1>1 DEF ListedSectors, Listed
  <2>7. AddedSectors' = AddedSectors \cup {x}
    <3>1. Claim("dir_add", frame[t], {"dir_add"}) = {x} /\ Claim(pc[t], frame[t], {"dir_add"}) = {}
      BY <1>1 DEF Claim, x
    <3>2. /\ Claims(pc', frame', {"dir_add"}) \subseteq
               Claims(pc, frame, {"dir_add"}) \cup Claim("dir_add", frame[t], {"dir_add"})
          /\ Claims(pc, frame, {"dir_add"}) \subseteq
               Claims(pc', frame', {"dir_add"}) \cup Claim(pc[t], frame[t], {"dir_add"})
          /\ Claim("dir_add", frame[t], {"dir_add"}) \subseteq Claims(pc', frame', {"dir_add"})
      BY <1>2, <2>2, ClaimsMove
    <3>3. Claims(pc', frame', {"dir_add"}) = Claims(pc, frame, {"dir_add"}) \cup {x}
      BY <3>1, <3>2
    <3> QED BY <3>3 DEF AddedSectors
  <2>8. NewSectors' = NewSectors \ {x}
    BY <1>1, <1>2, <2>2, ClaimsAlone DEF NewSectors, HasSector, x
  <2>9. Live' = Live \cup {x}
    BY <2>5, <2>6, <2>7 DEF Live
  <2>10. /\ Own(Live', NewSectors', FreedData', free_map', disk', lost')
         /\ Cover(Live, NewSectors, FreedData, free_map, disk, lost) =>
              Cover(Live', NewSectors', FreedData', free_map', disk', lost')
         /\ x \notin Live /\ \A s \in Live : disk'[s] = disk[s]
    <3>1. \A s \in Live : s # x /\ s \notin Data(disk'[x]) => disk'[s] = disk[s]
      BY <2>3, LiveSectors
    <3>2. Own(Live, NewSectors, FreedData, free_map, disk, lost)
      BY DEF OwnInv
    <3>3. Data(disk'[x]) \cap free_map = {}
      BY <2>1, <2>3
    <3>4. free_map' = free_map \cup Data(disk'[x])
      BY <1>5, <2>3
    <3>5. Creates(Live, x, free_map, disk, disk')
      BY <3>1, <3>3 DEF Creates
    <3>6. /\ Own(Live', NewSectors', FreedData, free_map', disk', lost)
          /\ Cover(Live, NewSectors, FreedData, free_map, disk, lost) =>
               Cover(Live', NewSectors', FreedData, free_map', disk', lost)
          /\ x \notin Live /\ \A s \in Live : disk'[s] = disk[s]
      BY <2>4, <2>8, <2>9, <3>2, <3>4, <3>5, OwnCreate
    <3> QED BY <1>1, <2>5, <3>6
  <2>11. OwnInv'
    BY <2>10 DEF OwnInv, Live
  <2>12. SourceInv'
    <3>1. Apart(ListedSectors', OpenSectors', FoundSectors', AddedSectors', FreedSectors')
      BY <2>5, <2>6, <2>7, <2>10 DEF SourceInv, Apart, Live
    <3>2. \A r, s \in Listed' : entries'[r].inode_sector = entries'[s].inode_sector => r = s
      BY <1>1, <2>6 DEF SourceInv
    <3>3. \A p \in open_inodes' : inode'[p].removed =>
            inode'[p].sector \notin ListedSectors' \cup FoundSectors'
      BY <1>1, <2>5, <2>6 DEF SourceInv
    <3>4. \A u, v \in Thread :
               pc'[u] \in HasSector /\ pc'[v] \in HasSector /\ u # v =>
                   frame'[u].inode_sector # frame'[v].inode_sector
      BY <1>1, <1>2, <2>2, SectorsDiffer DEF HasSector
    <3> QED BY <3>1, <3>2, <3>3, <3>4 DEF SourceInv, HasSector
  <2>13. CopyInv'
    BY <1>1, <1>3, <2>2, <2>10, CreatingCopies DEF Creating
  <2>14. ASSUME AllInv PROVE AllInv'
    <3>1. Cover(Live', NewSectors', FreedData', free_map', disk', lost')
      BY <2>10, <2>14 DEF AllInv
    <3>2. \A p \in open_inodes' :
            inode'[p].sector # ROOT_DIR_SECTOR /\ ~inode'[p].removed =>
              inode'[p].sector \in ListedSectors'
      BY <1>1, <2>6, <2>14 DEF AllInv, IsRoot
    <3> QED BY <2>5, <2>6, <2>14, <3>1, <3>2 DEF AllInv, IsRoot
  <2> QED BY <2>11, <2>12, <2>13, <2>14
<1> QED BY <1>4, <1>5 DEF InodeCreate

LEMMA ReleaseSectorOwns ==
    ASSUME BaseInv, OwnInv, SourceInv, CopyInv, NEW t \in Thread, ReleaseSector(t)
    PROVE  OwnInv' /\ SourceInv' /\ CopyInv' /\ (AllInv => AllInv')
<1> DEFINE x == frame[t].inode_sector
<1>1. /\ pc[t] = "release_sector" /\ Goto(t, "close_root") /\ free_map' = free_map \ {x}
      /\ lost' = lost /\ disk' = disk /\ entries' = entries /\ frame' = frame
      /\ UNCHANGED <<inode, open_inodes>>
  BY DEF ReleaseSector, free_map_release, At, dirVars, inodeVars
<1>2. FileSysTypeOK /\ frame[t] \in Frame /\ FrameOK("release_sector", frame[t])
  BY <1>1, Here DEF BaseInv
<1>3. frame[t].op = "create" /\ frame[t].node = NULL
  BY <1>2 DEF FrameOK, Creating
<1>4. Move(t, "close_root", frame[t])
  BY <1>1, <1>2 DEF Goto, Move, FileSysTypeOK
<1>5. x \in NewSectors
  BY <1>1 DEF NewSectors, Claims
<1>6. NewSectors' = NewSectors \ {x}
  BY <1>1, <1>2, <1>4, ClaimsAlone DEF NewSectors, HasSector
<1>7. AddedSectors' = AddedSectors
  <2>1. AddedSectors' = AddedSectors \ {x}
    BY <1>1, <1>2, <1>4, ClaimsAlone DEF AddedSectors, HasSector
  <2>2. x \notin AddedSectors
    BY <1>1 DEF SourceInv, AddedSectors, Claims, HasSector
  <2> QED BY <2>1, <2>2
<1> HIDE DEF x
<1>8. /\ OpenSectors' = OpenSectors /\ FoundSectors' = FoundSectors
      /\ FreedSectors' = FreedSectors /\ FreedData' = FreedData
  BY <1>1, <1>4, CreatingStays DEF Creating
<1>9. ListedSectors' = ListedSectors /\ Listed' = Listed
  BY <1>1 DEF ListedSectors, Listed
<1>10. Live' = Live
  BY <1>7, <1>8, <1>9 DEF Live
<1>11. OwnInv'
  BY <1>1, <1>5, <1>6, <1>8, <1>10, OwnReleaseSector DEF OwnInv
<1>12. SourceInv'
  <2>1. Apart(ListedSectors', OpenSectors', FoundSectors', AddedSectors', FreedSectors')
    BY <1>7, <1>8, <1>9 DEF SourceInv
  <2>2. \A r, s \in Listed' : entries'[r].inode_sector = entries'[s].inode_sector => r = s
    BY <1>1, <1>9 DEF SourceInv
  <2>3. \A p \in open_inodes' : inode'[p].removed =>
          inode'[p].sector \notin ListedSectors' \cup FoundSectors'
    BY <1>1, <1>8, <1>9 DEF SourceInv
  <2>4. \A u, v \in Thread :
             pc'[u] \in HasSector /\ pc'[v] \in HasSector /\ u # v =>
                 frame'[u].inode_sector # frame'[v].inode_sector
    BY <1>1, <1>2, <1>4, SectorsDiffer DEF HasSector
  <2> QED BY <2>1, <2>2, <2>3, <2>4 DEF SourceInv, HasSector
<1>13. CopyInv'
  BY <1>1, <1>3, <1>4, CreatingCopies DEF Creating
<1>14. ASSUME AllInv PROVE AllInv'
  <2>1. Cover(Live', NewSectors', FreedData', free_map', disk', lost')
    BY <1>1, <1>5, <1>6, <1>8, <1>10, <1>14, OwnReleaseSector DEF OwnInv, AllInv
  <2>2. \A p \in open_inodes' :
          inode'[p].sector # ROOT_DIR_SECTOR /\ ~inode'[p].removed =>
            inode'[p].sector \in ListedSectors'
    BY <1>1, <1>9, <1>14 DEF AllInv, IsRoot
  <2> QED BY <1>8, <1>9, <1>14, <2>1, <2>2 DEF AllInv, IsRoot
<1> QED BY <1>11, <1>12, <1>13, <1>14

\* The entry is written, in a slot that is in use only where memory ran out.
LEMMA DirAddOwns ==
    ASSUME BaseInv, OwnInv, SourceInv, CopyInv, NEW t \in Thread, DirAdd(t)
    PROVE  OwnInv' /\ SourceInv' /\ CopyInv' /\ (~MallocFails /\ AllInv => AllInv')
<1> DEFINE x == frame[t].inode_sector
<1>1. /\ pc[t] = "dir_add"
      /\ disk' = disk /\ free_map' = free_map /\ frame' = frame
      /\ UNCHANGED <<inode, open_inodes>>
  BY DEF DirAdd, At, inodeVars
<1>2. FileSysTypeOK /\ frame[t] \in Frame /\ FrameOK("dir_add", frame[t])
  BY <1>1, Here DEF BaseInv
<1>3. frame[t].op = "create" /\ frame[t].node = NULL
  BY <1>2 DEF FrameOK, Creating
<1>4. x \in AddedSectors /\ x \in Live
  BY <1>1 DEF AddedSectors, Claims, Live
<1>5. PICK pl \in {"close_root", "release_sector"} :
        /\ Move(t, pl, frame[t])
        /\ \/ /\ pl = "release_sector"
              /\ lost' = lost \cup Data(disk[x]) /\ entries' = entries
           \/ /\ pl = "close_root" /\ lost' = lost
              /\ \E s \in Slot : entries' = [entries EXCEPT ![s] =
                     [inode_sector |-> x, name |-> frame[t].name, in_use |-> TRUE]]
  <2>1. \/ /\ Goto(t, "release_sector")
           /\ lost' = lost \cup Data(disk[x]) /\ entries' = entries
        \/ /\ Goto(t, "close_root") /\ lost' = lost
           /\ \E s \in Slot : entries' = [entries EXCEPT ![s] =
                  [inode_sector |-> x, name |-> frame[t].name, in_use |-> TRUE]]
    BY DEF DirAdd
  <2>2. \A w : Goto(t, w) => Move(t, w, frame[t])
    BY <1>1, <1>2 DEF Goto, Move, FileSysTypeOK
  <2> QED BY <2>1, <2>2
<1>6. AddedSectors' = AddedSectors \ {x}
  BY <1>1, <1>2, <1>5, ClaimsAlone DEF AddedSectors, HasSector
<1>7. /\ OpenSectors' = OpenSectors /\ FoundSectors' = FoundSectors
      /\ FreedSectors' = FreedSectors /\ FreedData' = FreedData
  BY <1>1, <1>5, CreatingStays DEF Creating
<1>8. CopyInv'
  BY <1>1, <1>3, <1>5, CreatingCopies DEF Creating
<1>9. \A u, v \in Thread :
           pc'[u] \in HasSector /\ pc'[v] \in HasSector /\ u # v =>
               frame'[u].inode_sector # frame'[v].inode_sector
  BY <1>1, <1>2, <1>5, SectorsDiffer DEF HasSector
<1>10. x \notin {FREE_MAP_SECTOR, ROOT_DIR_SECTOR} \cup ListedSectors \cup OpenSectors
                   \cup FoundSectors \cup FreedSectors
  BY <1>4 DEF SourceInv, Apart
<1>11. CASE /\ pl = "release_sector"
            /\ lost' = lost \cup Data(disk[x]) /\ entries' = entries
  <2>1. ListedSectors' = ListedSectors /\ Listed' = Listed
    BY <1>11 DEF ListedSectors, Listed
  <2>2. NewSectors' = NewSectors \cup {x}
    <3> DEFINE S == {"inode_create", "release_sector"}
    <3>1. Claim(pl, frame[t], S) = {x} /\ Claim(pc[t], frame[t], S) = {}
      BY <1>1, <1>11 DEF Claim
    <3> HIDE DEF S, x
    <3>2. /\ Claims(pc', frame', S) \subseteq Claims(pc, frame, S) \cup Claim(pl, frame[t], S)
          /\ Claims(pc, frame, S) \subseteq Claims(pc', frame', S) \cup Claim(pc[t], frame[t], S)
          /\ Claim(pl, frame[t], S) \subseteq Claims(pc', frame', S)
      BY <1>2, <1>5, ClaimsMove
    <3>3. Claims(pc', frame', S) = Claims(pc, frame, S) \cup {x}
      BY <3>1, <3>2
    <3> QED BY <3>3 DEF NewSectors, S
  <2> HIDE DEF x
  <2>3. Live' = Live \ {x}
    BY <1>6, <1>7, <1>10, <2>1 DEF Live
  <2>4. OwnInv'
    BY <1>1, <1>4, <1>7, <1>11, <2>2, <2>3, OwnAddFails DEF OwnInv
  <2>5. SourceInv'
    <3>1. Apart(ListedSectors', OpenSectors', FoundSectors', AddedSectors', FreedSectors')
      BY <1>6, <1>7, <2>1 DEF SourceInv, Apart
    <3>2. \A r, s \in Listed' : entries'[r].inode_sector = entries'[s].inode_sector => r = s
      BY <1>11, <2>1 DEF SourceInv
    <3>3. \A p \in open_inodes' : inode'[p].removed =>
            inode'[p].sector \notin ListedSectors' \cup FoundSectors'
      BY <1>1, <1>7, <2>1 DEF SourceInv
    <3> QED BY <1>9, <3>1, <3>2, <3>3 DEF SourceInv, HasSector
  <2>6. ASSUME AllInv PROVE AllInv'
    <3>1. Cover(Live', NewSectors', FreedData', free_map', disk', lost')
      BY <1>1, <1>4, <1>7, <1>11, <2>2, <2>3, <2>6, OwnAddFails DEF OwnInv, AllInv
    <3>2. \A p \in open_inodes' :
            inode'[p].sector # ROOT_DIR_SECTOR /\ ~inode'[p].removed =>
              inode'[p].sector \in ListedSectors'
      BY <1>1, <2>1, <2>6 DEF AllInv, IsRoot
    <3> QED BY <1>7, <2>1, <2>6, <3>1, <3>2 DEF AllInv, IsRoot
  <2> QED BY <1>8, <2>4, <2>5, <2>6
<1>12. CASE pl = "close_root" /\ lost' = lost /\ entries' # entries
  <2>1. PICK s \in Slot : entries' = [entries EXCEPT ![s] =
                     [inode_sector |-> x, name |-> frame[t].name, in_use |-> TRUE]]
    BY <1>5, <1>12
  <2>2. /\ entries'[s].in_use /\ entries'[s].inode_sector = x
        /\ \A r \in Slot : r # s => entries'[r] = entries[r]
    BY <1>2, <2>1 DEF FileSysTypeOK
  <2>3. ~MallocFails => ~entries[s].in_use
    <3>1. ASSUME ~MallocFails
          PROVE  \E r \in Slot : ~entries[r].in_use /\ entries' = [entries EXCEPT ![r] =
                     [inode_sector |-> frame[t].inode_sector, name |-> frame[t].name,
                      in_use |-> TRUE]]
      BY <1>12, <3>1, DirAddSlot
    <3> QED BY <1>2, <2>2, <3>1 DEF FileSysTypeOK
  <2>4. NewSectors' = NewSectors
    <3>1. NewSectors' = NewSectors \ {x}
      BY <1>1, <1>2, <1>5, <1>12, ClaimsAlone DEF NewSectors, HasSector
    <3>2. x \notin NewSectors
      BY <1>1 DEF SourceInv, NewSectors, Claims, HasSector
    <3> QED BY <3>1, <3>2
  <2> HIDE DEF x
  <2>5. /\ Listed' \subseteq Listed \cup {s}
        /\ ListedSectors' \subseteq ListedSectors \cup {x} /\ x \in ListedSectors'
    BY <2>2 DEF Listed, ListedSectors
  <2>6. ~MallocFails => ListedSectors \subseteq ListedSectors'
    BY <2>2, <2>3 DEF Listed, ListedSectors
  <2>7. Live' \subseteq Live /\ (~MallocFails => Live \subseteq Live')
    BY <1>4, <1>6, <1>7, <2>5, <2>6 DEF Live
  <2>8. OwnInv'
    <3>1. Own(Live', NewSectors', FreedData', free_map, disk, lost)
      BY <1>7, <2>4, <2>7, OwnFewer DEF OwnInv
    <3> QED BY <1>1, <1>12, <3>1 DEF OwnInv
  <2>9. SourceInv'
    <3>1. Apart(ListedSectors', OpenSectors', FoundSectors', AddedSectors', FreedSectors')
      BY <1>6, <1>7, <1>10, <2>5 DEF SourceInv, Apart
    <3>2. \A r \in Listed : entries[r].inode_sector # x
      BY <1>10 DEF ListedSectors
    <3>3. \A q, r \in Listed' : entries'[q].inode_sector = entries'[r].inode_sector => q = r
      BY <2>2, <2>5, <3>2 DEF SourceInv, Listed
    <3>4. \A p \in open_inodes : inode[p].sector # x
      BY <1>10 DEF OpenSectors
    <3>5. \A p \in open_inodes' : inode'[p].removed =>
            inode'[p].sector \notin ListedSectors' \cup FoundSectors'
      BY <1>1, <1>7, <2>5, <3>4 DEF SourceInv
    <3> QED BY <1>9, <3>1, <3>3, <3>5 DEF SourceInv, HasSector
  <2>10. ASSUME ~MallocFails, AllInv PROVE AllInv'
    <3>1. Cover(Live', NewSectors', FreedData', free_map, disk, lost)
      BY <1>7, <2>4, <2>7, <2>10, CoverSame DEF AllInv
    <3>2. \A p \in open_inodes' :
            inode'[p].sector # ROOT_DIR_SECTOR /\ ~inode'[p].removed =>
              inode'[p].sector \in ListedSectors'
      BY <1>1, <2>6, <2>10 DEF AllInv, IsRoot
    <3> QED BY <1>1, <1>7, <1>12, <2>6, <2>10, <3>1, <3>2 DEF AllInv, IsRoot
  <2> QED BY <1>8, <2>8, <2>9, <2>10
<1>13. CASE pl = "close_root" /\ lost' = lost /\ entries' = entries
  <2>1. PICK s \in Slot : entries' = [entries EXCEPT ![s] =
                     [inode_sector |-> x, name |-> frame[t].name, in_use |-> TRUE]]
    BY <1>5, <1>13
  <2>2. entries[s].in_use /\ entries[s].inode_sector = x
    BY <1>2, <1>13, <2>1 DEF FileSysTypeOK
  <2>3. x \in ListedSectors
    BY <2>2 DEF ListedSectors, Listed
  <2> QED BY <1>10, <2>3
<1> QED BY <1>5, <1>11, <1>12, <1>13

-----------------------------------------------------------------------------
(* Opening, closing and removing.                                          *)

\* A step of a thread that found or has nothing new, under the lock of the list.
LEMMA ListedStay ==
    ASSUME FileSysTypeOK, NEW t \in Thread, NEW pl, NEW f, Move(t, pl, f),
           pl \notin HasSector \cup {"open_node"}, pc[t] \notin HasSector
    PROVE  /\ AddedSectors' = AddedSectors /\ NewSectors' = NewSectors
           /\ FoundSectors' \subseteq FoundSectors
           /\ pc[t] # "open_node" => FoundSectors' = FoundSectors
           /\ entries' = entries => ListedSectors' = ListedSectors /\ Listed' = Listed
<1>1. ASSUME NEW S, pl \notin S
      PROVE  /\ Claims(pc', frame', S) \subseteq Claims(pc, frame, S)
             /\ pc[t] \notin S => Claims(pc', frame', S) = Claims(pc, frame, S)
  <2>1. /\ Claims(pc', frame', S) \subseteq Claims(pc, frame, S) \cup Claim(pl, f, S)
        /\ Claims(pc, frame, S) \subseteq Claims(pc', frame', S) \cup Claim(pc[t], frame[t], S)
    BY ClaimsMove
  <2>2. Claim(pl, f, S) = {} /\ (pc[t] \notin S => Claim(pc[t], frame[t], S) = {})
    BY <1>1 DEF Claim
  <2> QED BY <2>1, <2>2
<1>2. AddedSectors' = AddedSectors
  BY <1>1 DEF AddedSectors, HasSector
<1>3. NewSectors' = NewSectors
  BY <1>1 DEF NewSectors, HasSector
<1>4. /\ FoundSectors' \subseteq FoundSectors
      /\ pc[t] # "open_node" => FoundSectors' = FoundSectors
  BY <1>1 DEF FoundSectors
<1> QED BY <1>2, <1>3, <1>4 DEF ListedSectors, Listed

LEMMA NodesThere ==
    ASSUME BaseInv
    PROVE  /\ \A u \in Thread : pc[u] \in {"remove_erase", "release_inode", "release_data"} =>
                frame[u].node # NULL
           /\ \A u \in Thread : frame[u].node # NULL => frame[u].node \in Pointer
<1>1. \A u \in Thread : FrameOK(pc[u], frame[u]) /\ frame[u] \in Frame
  BY Here
<1> QED BY <1>1 DEF FrameOK, Releasing, Frame

LEMMA OpenNewOwns ==
    ASSUME BaseInv, OwnInv, SourceInv, CopyInv, NEW t \in Thread, OpenNew(t)
    PROVE  OwnInv' /\ SourceInv' /\ CopyInv' /\ (AllInv => AllInv')
<1> DEFINE p == Least(Pointer \ open_inodes)
           w == Wanted(t)
<1>1. /\ pc[t] \in Opening /\ inode_lock = NoThread
      /\ entries' = entries /\ free_map' = free_map /\ disk' = disk /\ lost' = lost
      /\ inode' = [inode EXCEPT ![p] = [sector |-> w, open_cnt |-> 1, removed |-> FALSE,
                                        data |-> disk[w], inode_lock |-> NoThread]]
      /\ open_inodes' = open_inodes \cup {p} /\ OpenReturns(t, p)
      /\ Pointer \ open_inodes # {}
  BY DEF OpenNew, At, Opening, dirVars, mapVars
<1>2. FileSysTypeOK
  BY DEF BaseInv
<1>3. p \in Pointer /\ p \notin open_inodes
  <2>1. Pointer \ open_inodes \in SUBSET Nat
    BY FileSysAssumption DEF Pointer
  <2>2. Least(Pointer \ open_inodes) \in Pointer \ open_inodes
    BY <1>1, <2>1, LeastIn
  <2> QED BY <2>2
<1> HIDE DEF p, w
<1>4. /\ inode'[p].sector = w /\ inode'[p].data = disk[w] /\ ~inode'[p].removed
      /\ \A q \in Pointer : q # p => inode'[q] = inode[q]
      /\ \A q \in open_inodes : inode'[q] = inode[q]
  BY <1>1, <1>2, <1>3 DEF FileSysTypeOK
<1>5. w \in FoundSectors \cup {ROOT_DIR_SECTOR}
  BY <1>1 DEF w, Wanted, FoundSectors, Claims, Opening
<1>6. PICK pl, f :
             /\ Move(t, pl, f) /\ pl \in Places /\ f \in Frame /\ FrameOK(pl, f)
             /\ pl \notin Releasing \cup HasSector \cup {"open_node"}
             /\ Knows(pl, f, disk, inode')
  BY <1>1, <1>3, <1>4, OpenReturnsKnows DEF w
<1>7. /\ AddedSectors' = AddedSectors /\ NewSectors' = NewSectors
      /\ FoundSectors' \subseteq FoundSectors
      /\ ListedSectors' = ListedSectors /\ Listed' = Listed
  BY <1>1, <1>2, <1>6, ListedStay DEF Opening, HasSector
<1>8. OpenSectors' = OpenSectors \cup {w}
  BY <1>1, <1>4 DEF OpenSectors
<1>9. FreedSectors = {} /\ FreedSectors' = {} /\ FreedData = {} /\ FreedData' = {}
  BY <1>1, <1>6, FreedHere, FreedNext DEF Opening, Releasing
<1>10. Live' \subseteq Live
  BY <1>5, <1>7, <1>8, <1>9 DEF Live
<1>11. OwnInv'
  BY <1>1, <1>7, <1>9, <1>10, OwnFewer DEF OwnInv
<1>12. SourceInv'
  <2>1. Apart(ListedSectors', OpenSectors', FoundSectors', AddedSectors', FreedSectors')
    BY <1>5, <1>7, <1>8, <1>9 DEF SourceInv, Apart, FREE_MAP_SECTOR, ROOT_DIR_SECTOR
  <2>2. \A r, s \in Listed' : entries'[r].inode_sector = entries'[s].inode_sector => r = s
    BY <1>1, <1>7 DEF SourceInv
  <2>3. \A q \in open_inodes' : inode'[q].removed =>
          inode'[q].sector \notin ListedSectors' \cup FoundSectors'
    BY <1>1, <1>4, <1>7 DEF SourceInv
  <2>4. \A u, v \in Thread :
             pc'[u] \in HasSector /\ pc'[v] \in HasSector /\ u # v =>
                 frame'[u].inode_sector # frame'[v].inode_sector
    BY <1>2, <1>6, SectorsDiffer
  <2> QED BY <2>1, <2>2, <2>3, <2>4 DEF SourceInv, HasSector
<1>13. CopyInv'
  <2>1. \A u \in Thread : u # t /\ frame[u].node # NULL =>
             /\ inode'[frame[u].node].sector = inode[frame[u].node].sector
             /\ inode'[frame[u].node].data = inode[frame[u].node].data
    BY <1>1, <1>4, OnlyInList
  <2>2. \A s \in Live : disk'[s] = disk[s]
    BY <1>1
  <2>3. \A q \in open_inodes' :
             \/ inode'[q].data = disk'[inode'[q].sector]
             \/ /\ q \in open_inodes
                /\ inode'[q].sector = inode[q].sector /\ inode'[q].data = inode[q].data
    BY <1>1, <1>4
  <2>4. Knows(pl, f, disk', inode')
    BY <1>1, <1>6
  <2> QED BY <1>2, <1>6, <2>1, <2>2, <2>3, <2>4, NodesThere, CopyStep
<1>14. ASSUME AllInv PROVE AllInv'
  <2>1. FoundSectors \subseteq ListedSectors
    BY <1>14 DEF AllInv
  <2>2. Live \subseteq Live'
    BY <1>7, <1>8, <1>9, <2>1 DEF Live
  <2>3. Cover(Live', NewSectors', FreedData', free_map, disk, lost)
    BY <1>7, <1>9, <1>14, <2>2, CoverSame DEF AllInv
  <2>4. \A q \in open_inodes' :
          inode'[q].sector # ROOT_DIR_SECTOR /\ ~inode'[q].removed =>
            inode'[q].sector \in ListedSectors'
    BY <1>1, <1>4, <1>5, <1>7, <1>14, <2>1 DEF AllInv, IsRoot
  <2> QED BY <1>1, <1>7, <2>1, <2>3, <2>4 DEF AllInv, IsRoot
<1> QED BY <1>11, <1>12, <1>13, <1>14

LEMMA CloseReturnsKnows ==
    ASSUME BaseInv, CopyInv, NEW t \in Thread,
           pc[t] \in {"close_root", "close_node", "release_data"}, CloseReturns(t),
           pc[t] = "close_root" /\ frame[t].node # NULL =>
             inode'[frame[t].node].data = inode[frame[t].node].data
    PROVE  \E pl, f :
             /\ Move(t, pl, f) /\ f \in Frame /\ FrameOK(pl, f)
             /\ pl \in {"idle", "file_open", "close_root"}
             /\ Knows(pl, f, disk, inode')
<1>1. FileSysTypeOK /\ RefInv
  BY DEF BaseInv
<1>2. PICK pl, f :
             /\ Move(t, pl, f) /\ f \in Frame /\ FrameOK(pl, f)
             /\ pl \in {"idle", "file_open", "close_root"}
             /\ f.node = (IF pc[t] = "close_root" THEN frame[t].node ELSE NULL)
             /\ f.op \in {"none", frame[t].op}
             /\ f.op = "open" => f = [frame[t] EXCEPT !.dir = NULL] /\ pl = "file_open"
  BY <1>1, CloseReturnsMoves
<1>3. ASSUME f.op = "open", f.node # NULL
      PROVE  inode'[f.node].data.file = f.file
  <2>1. pc[t] = "close_root" /\ frame[t].op = "open" /\ f.node = frame[t].node
    BY <1>2, <1>3
  <2>2. frame[t] \in Frame
    BY <1>1 DEF FileSysTypeOK
  <2>3. f.file = frame[t].file
    BY <1>2, <1>3, <2>2 DEF Frame
  <2>4. Knows(pc[t], frame[t], disk, inode)
    BY DEF CopyInv
  <2> QED BY <1>3, <2>1, <2>3, <2>4 DEF Knows
<1>4. Knows(pl, f, disk, inode')
  BY <1>2, <1>3 DEF Knows
<1> QED BY <1>2, <1>4

LEMMA CloseCountOwns ==
    ASSUME BaseInv, OwnInv, SourceInv, CopyInv, NEW t \in Thread, CloseCount(t)
    PROVE  OwnInv' /\ SourceInv' /\ CopyInv' /\ (AllInv => AllInv')
<1> DEFINE p == Closing(t)
<1>1. /\ pc[t] \in {"close_root", "close_node"} /\ inode_lock = t
      /\ entries' = entries /\ free_map' = free_map /\ disk' = disk /\ lost' = lost
      /\ CloseReturns(t)
      /\ \/ /\ inode[p].open_cnt > 1 /\ open_inodes' = open_inodes
            /\ inode' = [inode EXCEPT ![p].open_cnt = @ - 1]
         \/ /\ ~(inode[p].open_cnt > 1) /\ ~inode[p].removed
            /\ open_inodes' = open_inodes \ {p}
            /\ inode' = [inode EXCEPT ![p] = NoInode]
  BY DEF CloseCount, At, dirVars, mapVars
<1>2. FileSysTypeOK
  BY DEF BaseInv
<1>3. /\ p \in open_inodes /\ p \in Pointer
      /\ p = (IF pc[t] = "close_root" THEN frame[t].dir ELSE frame[t].node)
      /\ frame[t].dir = p => pc[t] = "close_root" /\ frame[t].node # p
      /\ inode[p].open_cnt \in Nat
      /\ inode[p].open_cnt <= 1 => \A u \in Thread : u # t => frame[u].node # p
  BY <1>1, ClosingRefers
<1> HIDE DEF p
<1>4. pc[t] = "close_root" => frame[t].node # p
  BY <1>3
<1>5. pc[t] \notin Releasing \cup HasSector \cup {"open_node"}
  BY <1>1 DEF Releasing, HasSector
<1>6. CASE /\ inode[p].open_cnt > 1 /\ open_inodes' = open_inodes
           /\ inode' = [inode EXCEPT ![p].open_cnt = @ - 1]
  <2>1. \A q \in Pointer : /\ inode'[q].sector = inode[q].sector /\ inode'[q].data = inode[q].data
                           /\ inode'[q].removed = inode[q].removed
    BY <1>2, <1>6 DEF FileSysTypeOK, Inode
  <2>2. InodesStay /\ Calm
    BY <1>1, <1>6, <2>1 DEF InodesStay, Calm
  <2>3. PICK pl, f : /\ Move(t, pl, f) /\ pl \in {"idle", "file_open", "close_root"}
                     /\ Knows(pl, f, disk, inode')
    BY <1>1, <2>1, CloseReturnsKnows, NodesThere
  <2>4. pl \notin Releasing \cup HasSector \cup {"open_node"}
    BY <2>3 DEF Releasing, HasSector
  <2> QED BY <1>5, <2>2, <2>3, <2>4, CalmStep
<1>7. CASE /\ ~(inode[p].open_cnt > 1) /\ ~inode[p].removed
           /\ open_inodes' = open_inodes \ {p}
           /\ inode' = [inode EXCEPT ![p] = NoInode]
  <2>1. \A q \in Pointer : q # p => inode'[q] = inode[q]
    BY <1>2, <1>7 DEF FileSysTypeOK
  <2>2. \A q \in open_inodes' : q \in open_inodes /\ q # p /\ inode'[q] = inode[q]
    BY <1>2, <1>7, <2>1 DEF FileSysTypeOK
  <2>3. PICK pl, f : /\ Move(t, pl, f) /\ pl \in {"idle", "file_open", "close_root"}
                     /\ Knows(pl, f, disk, inode')
    BY <1>1, <1>4, <2>1, CloseReturnsKnows, NodesThere
  <2>4. pl \notin Releasing \cup HasSector \cup {"open_node"}
    BY <2>3 DEF Releasing, HasSector
  <2>5. /\ AddedSectors' = AddedSectors /\ NewSectors' = NewSectors
        /\ FoundSectors' = FoundSectors
        /\ ListedSectors' = ListedSectors /\ Listed' = Listed
    BY <1>1, <1>2, <1>5, <2>3, <2>4, ListedStay
  <2>6. /\ OpenSectors' \subseteq OpenSectors
        /\ OpenSectors \subseteq OpenSectors' \cup {inode[p].sector}
    BY <1>7, <2>2 DEF OpenSectors
  <2>7. FreedSectors = {} /\ FreedSectors' = {} /\ FreedData = {} /\ FreedData' = {}
    BY <1>1, <2>3, FreedHere, FreedNext
  <2>8. Live' \subseteq Live
    BY <2>5, <2>6, <2>7 DEF Live
  <2>9. OwnInv'
    BY <1>1, <2>5, <2>7, <2>8, OwnFewer DEF OwnInv
  <2>10. SourceInv'
    <3>1. Apart(ListedSectors', OpenSectors', FoundSectors', AddedSectors', FreedSectors')
      BY <2>5, <2>6, <2>7 DEF SourceInv, Apart
    <3>2. \A r, s \in Listed' : entries'[r].inode_sector = entries'[s].inode_sector => r = s
      BY <1>1, <2>5 DEF SourceInv
    <3>3. \A q \in open_inodes' : inode'[q].removed =>
            inode'[q].sector \notin ListedSectors' \cup FoundSectors'
      BY <2>2, <2>5 DEF SourceInv
    <3>4. \A u, v \in Thread :
               pc'[u] \in HasSector /\ pc'[v] \in HasSector /\ u # v =>
                   frame'[u].inode_sector # frame'[v].inode_sector
      BY <1>2, <2>3, <2>4, SectorsDiffer
    <3> QED BY <3>1, <3>2, <3>3, <3>4 DEF SourceInv, HasSector
  <2>11. CopyInv'
    <3>1. \A u \in Thread : u # t /\ frame[u].node # NULL =>
               /\ inode'[frame[u].node].sector = inode[frame[u].node].sector
               /\ inode'[frame[u].node].data = inode[frame[u].node].data
      BY <1>3, <1>7, <2>1, NodesThere
    <3>2. \A s \in Live : disk'[s] = disk[s]
      BY <1>1
    <3>3. Knows(pl, f, disk', inode')
      BY <1>1, <2>3
    <3> QED BY <1>2, <2>2, <2>3, <3>1, <3>2, <3>3, NodesThere, CopyStep
  <2>12. ASSUME AllInv PROVE AllInv'
    <3>1. inode[p].sector \in ListedSectors \cup {ROOT_DIR_SECTOR}
      BY <1>3, <1>7, <2>12 DEF AllInv, IsRoot
    <3>2. Live \subseteq Live'
      BY <2>5, <2>6, <2>7, <3>1 DEF Live
    <3>3. Cover(Live', NewSectors', FreedData', free_map, disk, lost)
      BY <2>5, <2>7, <2>12, <3>2, CoverSame DEF AllInv
    <3>4. \A q \in open_inodes' :
            inode'[q].sector # ROOT_DIR_SECTOR /\ ~inode'[q].removed =>
              inode'[q].sector \in ListedSectors'
      BY <2>2, <2>5, <2>12 DEF AllInv, IsRoot
    <3> QED BY <1>1, <2>5, <2>12, <3>3, <3>4 DEF AllInv, IsRoot
  <2> QED BY <2>9, <2>10, <2>11, <2>12
<1> QED BY <1>1, <1>6, <1>7

LEMMA CloseRemovedOwns ==
    ASSUME BaseInv, OwnInv, SourceInv, CopyInv, NEW t \in Thread, CloseRemoved(t)
    PROVE  OwnInv' /\ SourceInv' /\ CopyInv' /\ (AllInv => AllInv')
<1> DEFINE p == Closing(t)
           x == inode[p].sector
           pl == "release_inode"
<1>1. /\ pc[t] = "close_node" /\ inode_lock = t /\ inode[p].removed
      /\ entries' = entries /\ free_map' = free_map /\ disk' = disk /\ lost' = lost
      /\ Goto(t, pl) /\ frame' = frame
      /\ open_inodes' = open_inodes \ {p}
      /\ inode' = [inode EXCEPT ![p].open_cnt = 0]
  BY DEF CloseRemoved, At, dirVars, mapVars
<1>2. FileSysTypeOK
  BY DEF BaseInv
<1>3. /\ p \in open_inodes /\ p \in Pointer /\ p = frame[t].node
  BY <1>1, ClosingRefers
<1>4. Move(t, pl, frame[t])
  BY <1>1, <1>2 DEF Goto, Move, FileSysTypeOK
<1> HIDE DEF p
<1>5. \A q \in Pointer : /\ inode'[q].sector = inode[q].sector /\ inode'[q].data = inode[q].data
                         /\ inode'[q].removed = inode[q].removed
  BY <1>1, <1>2 DEF FileSysTypeOK, Inode
<1>6. /\ AddedSectors' = AddedSectors /\ NewSectors' = NewSectors
      /\ FoundSectors' = FoundSectors
      /\ ListedSectors' = ListedSectors /\ Listed' = Listed
  BY <1>1, <1>2, <1>4, ListedStay DEF HasSector
<1>7. \A q \in open_inodes' : q \in open_inodes /\ q \in Pointer /\ inode[q].sector # x
  BY <1>1, <1>2, <1>3 DEF BaseInv, CountInv, FileSysTypeOK
<1>8. OpenSectors' = OpenSectors \ {x} /\ x \in OpenSectors
  <2>1. OpenSectors' \subseteq OpenSectors \ {x}
    BY <1>5, <1>7 DEF OpenSectors
  <2>2. OpenSectors \ {x} \subseteq OpenSectors'
    BY <1>1, <1>2, <1>5 DEF OpenSectors, FileSysTypeOK
  <2> QED BY <1>3, <2>1, <2>2 DEF OpenSectors
<1>9. FreedSectors = {} /\ FreedData = {} /\ FreedSectors' = {x} /\ FreedData' = {}
  <2>1. /\ FreedSectors = {} /\ FreedData = {} /\ FreedData' = {}
        /\ FreedSectors' = {inode'[frame[t].node].sector}
    BY <1>1, <1>4, FreedHere, FreedNext
  <2> QED BY <1>3, <1>5, <2>1
<1>10. x \notin ListedSectors \cup FoundSectors
  BY <1>1, <1>3 DEF SourceInv
<1> HIDE DEF x
<1>11. Live' = Live
  BY <1>6, <1>8, <1>9 DEF Live
<1>12. OwnInv'
  BY <1>1, <1>6, <1>9, <1>11 DEF OwnInv
<1>13. SourceInv'
  <2>1. Apart(ListedSectors', OpenSectors', FoundSectors', AddedSectors', FreedSectors')
    BY <1>6, <1>8, <1>9, <1>10 DEF SourceInv, Apart
  <2>2. \A r, s \in Listed' : entries'[r].inode_sector = entries'[s].inode_sector => r = s
    BY <1>1, <1>6 DEF SourceInv
  <2>3. \A q \in open_inodes' : inode'[q].removed =>
          inode'[q].sector \notin ListedSectors' \cup FoundSectors'
    BY <1>5, <1>6, <1>7 DEF SourceInv
  <2>4. \A u, v \in Thread :
             pc'[u] \in HasSector /\ pc'[v] \in HasSector /\ u # v =>
                 frame'[u].inode_sector # frame'[v].inode_sector
    BY <1>2, <1>4, SectorsDiffer DEF HasSector
  <2> QED BY <2>1, <2>2, <2>3, <2>4 DEF SourceInv, HasSector
<1>14. CopyInv'
  <2>1. \A u \in Thread : u # t /\ frame[u].node # NULL =>
             /\ inode'[frame[u].node].sector = inode[frame[u].node].sector
             /\ inode'[frame[u].node].data = inode[frame[u].node].data
    BY <1>5, NodesThere
  <2>2. \A s \in Live : disk'[s] = disk[s]
    BY <1>1
  <2>3. Knows(pl, frame[t], disk', inode')
    BY <1>1, <1>3, <1>5 DEF Knows, CopyInv
  <2>4. \A q \in open_inodes' : /\ q \in open_inodes
                /\ inode'[q].sector = inode[q].sector /\ inode'[q].data = inode[q].data
    BY <1>5, <1>7
  <2> QED BY <1>2, <1>4, <2>1, <2>2, <2>3, <2>4, NodesThere, CopyStep
<1>15. ASSUME AllInv PROVE AllInv'
  <2>1. Cover(Live', NewSectors', FreedData', free_map', disk', lost')
    BY <1>1, <1>6, <1>9, <1>11, <1>15 DEF AllInv
  <2>2. \A q \in open_inodes' :
          inode'[q].sector # ROOT_DIR_SECTOR /\ ~inode'[q].removed =>
            inode'[q].sector \in ListedSectors'
    BY <1>5, <1>6, <1>7, <1>15 DEF AllInv, IsRoot
  <2> QED BY <1>6, <1>15, <2>1, <2>2 DEF AllInv, IsRoot
<1> QED BY <1>12, <1>13, <1>14, <1>15

\* The rest of a release: nothing happens to files that are still there.
LEMMA ReleasedSources ==
    ASSUME BaseInv, SourceInv, NEW t \in Thread, NEW pl, NEW f, Move(t, pl, f),
           pc[t] \in Releasing, pl \notin HasSector \cup {"open_node"},
           entries' = entries, OpenSectors' = OpenSectors, FreedSectors' = {},
           open_inodes' = open_inodes, \A q \in open_inodes : inode'[q] = inode[q]
    PROVE  SourceInv'
<1>1. FileSysTypeOK
  BY DEF BaseInv
<1>2. /\ AddedSectors' = AddedSectors /\ NewSectors' = NewSectors
      /\ FoundSectors' = FoundSectors
      /\ ListedSectors' = ListedSectors /\ Listed' = Listed
  BY <1>1, ListedStay DEF HasSector, Releasing
<1>3. Apart(ListedSectors', OpenSectors', FoundSectors', AddedSectors', FreedSectors')
  BY <1>2 DEF SourceInv, Apart
<1>4. \A r, s \in Listed' : entries'[r].inode_sector = entries'[s].inode_sector => r = s
  BY <1>2 DEF SourceInv
<1>5. \A q \in open_inodes' : inode'[q].removed =>
        inode'[q].sector \notin ListedSectors' \cup FoundSectors'
  BY <1>2 DEF SourceInv
<1>6. \A u, v \in Thread :
           pc'[u] \in HasSector /\ pc'[v] \in HasSector /\ u # v =>
               frame'[u].inode_sector # frame'[v].inode_sector
  BY <1>1, SectorsDiffer
<1> QED BY <1>3, <1>4, <1>5, <1>6 DEF SourceInv, HasSector

LEMMA ReleaseInodeOwns ==
    ASSUME BaseInv, OwnInv, SourceInv, CopyInv, NEW t \in Thread, ReleaseInode(t)
    PROVE  OwnInv' /\ SourceInv' /\ CopyInv' /\ (AllInv => AllInv')
<1> DEFINE p == frame[t].node
           x == inode[p].sector
           pl == "release_data"
<1>1. /\ pc[t] = "release_inode" /\ free_map' = free_map \ {x}
      /\ entries' = entries /\ disk' = disk /\ lost' = lost
      /\ Goto(t, pl) /\ frame' = frame
      /\ open_inodes' = open_inodes /\ inode' = inode
  BY DEF ReleaseInode, free_map_release, At, dirVars, mapVars, inodeVars
<1>2. FileSysTypeOK /\ inode_lock = t
  BY <1>1 DEF BaseInv, LocksInv, Releasing
<1>3. Move(t, pl, frame[t])
  BY <1>1, <1>2 DEF Goto, Move, FileSysTypeOK
<1>4. x # ROOT_DIR_SECTOR /\ x # FREE_MAP_SECTOR
  <2>1. x # ROOT_DIR_SECTOR
    BY <1>1, NodesThere DEF BaseInv, RefInv, IsRoot
  <2>2. x \in FreedSectors
    BY <1>1 DEF FreedSectors
  <2> QED BY <2>1, <2>2 DEF SourceInv, Apart
<1>5. inode[p].data = disk[x]
  BY <1>1 DEF CopyInv, Knows
<1>6. FreedSectors = {x} /\ FreedData = {} /\ FreedSectors' = {} /\ FreedData' = Data(disk[x])
  BY <1>1, <1>2, <1>3, <1>5, FreedHere, FreedNext
<1>7. /\ AddedSectors' = AddedSectors /\ NewSectors' = NewSectors
      /\ FoundSectors' = FoundSectors
      /\ ListedSectors' = ListedSectors /\ Listed' = Listed
  BY <1>1, <1>2, <1>3, ListedStay DEF HasSector
<1>8. OpenSectors' = OpenSectors
  BY <1>1 DEF OpenSectors
<1> HIDE DEF x
<1>9. x \in Live /\ Live' = Live \ {x}
  BY <1>4, <1>6, <1>7, <1>8 DEF Live, SourceInv, Apart
<1>10. OwnInv'
  BY <1>1, <1>6, <1>7, <1>9, OwnReleaseInode DEF OwnInv
<1>11. SourceInv'
  BY <1>1, <1>3, <1>6, <1>8, ReleasedSources DEF Releasing, HasSector
<1>12. CopyInv'
  <2>1. Knows(pl, frame[t], disk', inode')
    BY DEF Knows
  <2> QED BY <1>1, <1>2, <1>3, <2>1, NodesThere, CopyStep
<1>13. ASSUME AllInv PROVE AllInv'
  <2>1. Cover(Live', NewSectors', FreedData', free_map', disk', lost')
    BY <1>1, <1>6, <1>7, <1>9, <1>13, OwnReleaseInode DEF OwnInv, AllInv
  <2>2. \A q \in open_inodes' :
          inode'[q].sector # ROOT_DIR_SECTOR /\ ~inode'[q].removed =>
            inode'[q].sector \in ListedSectors'
    BY <1>1, <1>7, <1>13 DEF AllInv, IsRoot
  <2> QED BY <1>7, <1>13, <2>1, <2>2 DEF AllInv, IsRoot
<1> QED BY <1>10, <1>11, <1>12, <1>13

LEMMA ReleaseDataOwns ==
    ASSUME BaseInv, OwnInv, SourceInv, CopyInv, NEW t \in Thread, ReleaseData(t)
    PROVE  OwnInv' /\ SourceInv' /\ CopyInv' /\ (AllInv => AllInv')
<1> DEFINE p == frame[t].node
<1>1. /\ pc[t] = "release_data" /\ free_map' = free_map \ Data(inode[p].data)
      /\ entries' = entries /\ disk' = disk /\ lost' = lost
      /\ CloseReturns(t)
      /\ open_inodes' = open_inodes /\ inode' = [inode EXCEPT ![p] = NoInode]
  BY DEF ReleaseData, free_map_release, At, dirVars, mapVars
<1>2. FileSysTypeOK /\ inode_lock = t
  BY <1>1 DEF BaseInv, LocksInv, Releasing
<1>3. p \in Pointer /\ p \notin open_inodes
  BY <1>1, NodesThere DEF BaseInv, RefInv, Releasing
<1>4. \A q \in open_inodes : inode'[q] = inode[q]
  BY <1>1, <1>2, <1>3 DEF FileSysTypeOK
<1>5. PICK pl, f : /\ Move(t, pl, f) /\ pl \in {"idle", "file_open", "close_root"}
                   /\ Knows(pl, f, disk, inode')
  BY <1>1, CloseReturnsKnows
<1>6. pl \notin Releasing \cup HasSector \cup {"open_node"}
  BY <1>5 DEF Releasing, HasSector
<1>7. FreedSectors = {} /\ FreedData = Data(inode[p].data) /\ FreedSectors' = {} /\ FreedData' = {}
  BY <1>1, <1>2, <1>5, FreedHere, FreedNext
<1>8. /\ AddedSectors' = AddedSectors /\ NewSectors' = NewSectors
      /\ FoundSectors' = FoundSectors
      /\ ListedSectors' = ListedSectors /\ Listed' = Listed
  BY <1>1, <1>2, <1>5, <1>6, ListedStay DEF HasSector
<1>9. OpenSectors' = OpenSectors
  BY <1>1, <1>4 DEF OpenSectors
<1>10. Live' = Live
  BY <1>7, <1>8, <1>9 DEF Live
<1>11. free_map' = free_map \ FreedData
  BY <1>1, <1>7
<1>12. OwnInv'
  BY <1>1, <1>7, <1>8, <1>10, <1>11, OwnReleaseData DEF OwnInv
<1>13. SourceInv'
  BY <1>1, <1>4, <1>5, <1>6, <1>7, <1>9, ReleasedSources DEF Releasing
<1>14. CopyInv'
  <2>1. \A u \in Thread : u # t /\ frame[u].node # NULL => frame[u].node \in open_inodes
    BY <1>2, OnlyInList
  <2>2. \A u \in Thread : u # t /\ frame[u].node # NULL =>
             /\ inode'[frame[u].node].sector = inode[frame[u].node].sector
             /\ inode'[frame[u].node].data = inode[frame[u].node].data
    BY <1>4, <2>1
  <2>3. Knows(pl, f, disk', inode')
    BY <1>1, <1>5
  <2> QED BY <1>1, <1>2, <1>4, <1>5, <2>2, <2>3, NodesThere, CopyStep
<1>15. ASSUME AllInv PROVE AllInv'
  <2>1. Cover(Live', NewSectors', FreedData', free_map', disk', lost')
    BY <1>1, <1>7, <1>8, <1>10, <1>11, <1>15, OwnReleaseData DEF OwnInv, AllInv
  <2>2. \A q \in open_inodes' :
          inode'[q].sector # ROOT_DIR_SECTOR /\ ~inode'[q].removed =>
            inode'[q].sector \in ListedSectors'
    BY <1>1, <1>4, <1>8, <1>15 DEF AllInv, IsRoot
  <2> QED BY <1>8, <1>15, <2>1, <2>2 DEF AllInv, IsRoot
<1> QED BY <1>12, <1>13, <1>14, <1>15

-----------------------------------------------------------------------------
(* Removing.                                                               *)

\* Who removes a file alone is the only one in an open or a removal.
LEMMA NobodyFinds ==
    ASSUME BaseInv, AloneInv, NEW t \in Thread, pc[t] = "remove_erase"
    PROVE  FoundSectors = {}
<1>1. FrameOK(pc[t], frame[t]) /\ \A u \in Thread : FrameOK(pc[u], frame[u])
  BY Here
<1>2. InFileSystem(t) /\ frame[t].op = "remove"
  BY <1>1 DEF InFileSystem, FrameOK
<1>3. ASSUME NEW u \in Thread, pc[u] = "open_node" PROVE FALSE
  <2>1. InFileSystem(u) /\ u # t
    BY <1>1, <1>3 DEF InFileSystem, FrameOK
  <2> QED BY <1>2, <2>1 DEF AloneInv
<1> QED BY <1>3 DEF FoundSectors, Claims

\* What the two outcomes of dir_remove's last part do to the inodes in memory.
LEMMA EraseInodes ==
    ASSUME BaseInv, NEW t \in Thread, RemoveErase(t)
    PROVE  /\ \A p \in Pointer : /\ inode'[p].sector = inode[p].sector
                                 /\ inode'[p].data = inode[p].data
                                 /\ p # frame[t].node => inode'[p].removed = inode[p].removed
           /\ \/ /\ entries' = [entries EXCEPT ![frame[t].ofs].in_use = FALSE]
                 /\ inode'[frame[t].node].removed
              \/ /\ entries' = entries
                 /\ inode'[frame[t].node].removed = inode[frame[t].node].removed
<1>1. pc[t] = "remove_erase" /\ FrameOK(pc[t], frame[t]) /\ frame[t] \in Frame
  BY Here DEF RemoveErase, At
<1> DEFINE n == frame[t].node
           released == Unlocked(t)
<1>2. n \in Pointer
  BY <1>1 DEF FrameOK, Frame
<1>3. /\ released \in [Pointer -> Inode]
      /\ \A p \in Pointer : /\ released[p].sector = inode[p].sector
                            /\ released[p].data = inode[p].data
                            /\ released[p].removed = inode[p].removed
  BY DEF Unlocked, BaseInv, FileSysTypeOK, Inode
<1>4. \/ /\ entries' = [entries EXCEPT ![frame[t].ofs].in_use = FALSE]
         /\ inode' = [released EXCEPT ![n].removed = TRUE]
      \/ inode' = released /\ entries' = entries
  BY DEF RemoveErase
<1> HIDE DEF released, n
<1>5. CASE inode' = [released EXCEPT ![n].removed = TRUE]
  <2>1. /\ \A p \in Pointer : /\ inode'[p].sector = released[p].sector
                              /\ inode'[p].data = released[p].data
                              /\ p # n => inode'[p].removed = released[p].removed
        /\ inode'[n].removed
    BY <1>2, <1>3, <1>5 DEF Inode
  <2>2. CASE entries' = [entries EXCEPT ![frame[t].ofs].in_use = FALSE]
    BY <1>3, <2>1, <2>2 DEF n
  <2>3. CASE inode' = released /\ entries' = entries
    BY <1>2, <1>3, <2>3 DEF n
  <2> QED BY <1>4, <2>2, <2>3
<1>6. CASE inode' = released /\ entries' = entries
  BY <1>2, <1>3, <1>6 DEF n
<1> QED BY <1>4, <1>5, <1>6

LEMMA RemoveEraseOwns ==
    ASSUME BaseInv, AloneInv, OwnInv, SourceInv, CopyInv, NEW t \in Thread, RemoveErase(t)
    PROVE  OwnInv' /\ SourceInv' /\ CopyInv' /\ (AllInv => AllInv')
<1> DEFINE n == frame[t].node
           s == frame[t].ofs
           x == frame[t].inode_sector
           f == frame[t]
           pl == "close_node"
<1>1. /\ pc[t] = "remove_erase" /\ open_inodes' = open_inodes
      /\ free_map' = free_map /\ disk' = disk /\ lost' = lost
      /\ Goto(t, pl) /\ frame' = frame
  BY DEF RemoveErase, At, mapVars
<1>2. FileSysTypeOK /\ RefInv
  BY DEF BaseInv
<1>3. Move(t, pl, f)
  BY <1>1, <1>2 DEF Goto, Move, FileSysTypeOK
<1>4. /\ f.op = "remove" /\ n \in Pointer /\ n \in open_inodes
      /\ s \in Slot /\ entries[s].in_use /\ entries[s].inode_sector = x
      /\ inode[n].sector = x
  <2>1. FrameOK(pc[t], f) /\ f \in Frame
    BY Here
  <2>2. f.op = "remove" /\ n # NULL /\ n \in Pointer
    BY <1>1, <2>1 DEF FrameOK, Frame
  <2>3. n \in open_inodes
    BY <1>1, <1>2, <2>2 DEF RefInv, Releasing
  <2>4. HoldsDir(pc[t], f)
    BY <1>1, <2>2 DEF HoldsDir
  <2>5. inode[n].sector = x
    BY <1>1 DEF CopyInv, Knows
  <2> QED BY <2>2, <2>3, <2>4, <2>5, HereHolds
<1>5. FoundSectors = {}
  BY <1>1, NobodyFinds
<1>6. \A p \in Pointer : /\ inode'[p].sector = inode[p].sector
                         /\ inode'[p].data = inode[p].data
                         /\ p # n => inode'[p].removed = inode[p].removed
  BY EraseInodes
<1>7. /\ pc[t] \notin Releasing \cup HasSector \cup {"open_node"}
      /\ pl \notin Releasing \cup HasSector \cup {"open_node", "remove_erase", "close_root",
                                                    "file_open", "release_inode"}
  BY <1>1 DEF Releasing, HasSector
<1>8. InodesStay /\ Knows(pl, f, disk, inode')
  BY <1>6, <1>7 DEF InodesStay, Knows
<1> HIDE DEF f, n, s, x, pl
<1>9. CASE entries' = entries /\ inode'[n].removed = inode[n].removed
  <2>1. Calm
    BY <1>1, <1>6, <1>9 DEF Calm
  <2> QED BY <1>3, <1>7, <1>8, <2>1, CalmStep
<1>10. CASE entries' = [entries EXCEPT ![s].in_use = FALSE] /\ inode'[n].removed
  <2>1. /\ AddedSectors' = AddedSectors /\ NewSectors' = NewSectors /\ FoundSectors' = {}
    BY <1>2, <1>3, <1>5, <1>7, ListedStay
  <2>2. FreedSectors' = FreedSectors /\ FreedData' = FreedData
    BY <1>2, <1>3, <1>7, <1>8, FreedStay
  <2>3. OpenSectors' = OpenSectors /\ x \in OpenSectors
    <3>1. \A p \in open_inodes : inode'[p].sector = inode[p].sector
      BY <1>2, <1>6 DEF FileSysTypeOK
    <3>2. OpenSectors' = OpenSectors
      BY <1>1, <3>1 DEF OpenSectors
    <3> QED BY <1>4, <3>2 DEF OpenSectors
  <2>4. /\ Listed' = Listed \ {s} /\ s \in Listed
        /\ \A r \in Listed' : entries'[r] = entries[r]
    BY <1>2, <1>4, <1>10 DEF Listed, FileSysTypeOK, dir_entry
  <2>5. ListedSectors' = ListedSectors \ {x}
    <3>1. \A r \in Listed : r # s => entries[r].inode_sector # x
      BY <1>4, <2>4 DEF SourceInv
    <3>2. ListedSectors' \subseteq ListedSectors \ {x}
      BY <2>4, <3>1 DEF ListedSectors
    <3>3. ListedSectors \ {x} \subseteq ListedSectors'
      BY <1>4, <2>4 DEF ListedSectors
    <3> QED BY <3>2, <3>3
  <2>6. Live' = Live
    BY <1>4, <1>5, <2>1, <2>2, <2>3, <2>4, <2>5 DEF Live
  <2>7. OwnInv'
    BY <1>1, <2>1, <2>2, <2>6 DEF OwnInv
  <2>8. \A p \in open_inodes' : p \in Pointer /\ p \in open_inodes
                                /\ (p # n => inode[p].sector # x)
    BY <1>1, <1>2, <1>4 DEF FileSysTypeOK, BaseInv, CountInv
  <2>9. SourceInv'
    <3>1. Apart(ListedSectors', OpenSectors', FoundSectors', AddedSectors', FreedSectors')
      BY <2>1, <2>2, <2>3, <2>5 DEF SourceInv, Apart
    <3>2. \A q, r \in Listed' : entries'[q].inode_sector = entries'[r].inode_sector => q = r
      BY <2>4 DEF SourceInv
    <3>3. \A p \in open_inodes' : inode'[p].removed =>
            inode'[p].sector \notin ListedSectors' \cup FoundSectors'
      <4>1. inode'[n].sector \notin ListedSectors' \cup FoundSectors'
        BY <1>4, <1>6, <2>1, <2>5
      <4>2. \A p \in open_inodes' : p # n /\ inode'[p].removed =>
              inode'[p].sector \notin ListedSectors' \cup FoundSectors'
        BY <1>6, <2>1, <2>5, <2>8 DEF SourceInv
      <4> QED BY <4>1, <4>2
    <3>4. \A u, v \in Thread :
             pc'[u] \in HasSector /\ pc'[v] \in HasSector /\ u # v =>
                 frame'[u].inode_sector # frame'[v].inode_sector
      BY <1>2, <1>3, <1>7, SectorsDiffer
    <3> QED BY <3>1, <3>2, <3>3, <3>4 DEF SourceInv, HasSector
  <2>10. CopyInv'
    <3>1. \A u \in Thread : u # t /\ frame[u].node # NULL =>
             /\ inode'[frame[u].node].sector = inode[frame[u].node].sector
             /\ inode'[frame[u].node].data = inode[frame[u].node].data
      BY <1>6, NodesThere
    <3>2. \A u \in Live : disk'[u] = disk[u]
      BY <1>1
    <3>3. \A q \in open_inodes' : /\ q \in open_inodes
                  /\ inode'[q].sector = inode[q].sector /\ inode'[q].data = inode[q].data
      BY <1>6, <2>8
    <3>4. Knows(pl, f, disk', inode')
      BY <1>1, <1>8
    <3> QED BY <1>2, <1>3, <3>1, <3>2, <3>3, <3>4, NodesThere, CopyStep
  <2>11. ASSUME AllInv PROVE AllInv'
    <3>1. Cover(Live', NewSectors', FreedData', free_map', disk', lost')
      BY <1>1, <2>1, <2>2, <2>6, <2>11 DEF AllInv
    <3>2. \A p \in open_inodes' :
            inode'[p].sector # ROOT_DIR_SECTOR /\ ~inode'[p].removed =>
              inode'[p].sector \in ListedSectors'
      BY <1>6, <1>10, <2>5, <2>8, <2>11 DEF AllInv, IsRoot
    <3> QED BY <2>1, <3>1, <3>2 DEF AllInv, IsRoot
  <2> QED BY <2>7, <2>9, <2>10, <2>11
<1>11. \/ entries' = [entries EXCEPT ![s].in_use = FALSE] /\ inode'[n].removed
       \/ entries' = entries /\ inode'[n].removed = inode[n].removed
  BY EraseInodes DEF s, n
<1> QED BY <1>9, <1>10, <1>11

-----------------------------------------------------------------------------
(* OwnerInv is inductive while files are removed alone, and AllInv besides *)
(* while there is memory.                                                  *)

LEMMA OwnerInit == Init => OwnerInv /\ AllInv
<1> SUFFICES ASSUME Init PROVE OwnerInv /\ AllInv
  OBVIOUS
<1>1. /\ FREE_MAP_SECTOR \in Sector /\ ROOT_DIR_SECTOR \in Sector
      /\ FREE_MAP_SECTOR # ROOT_DIR_SECTOR /\ Data(Zeros) = {}
  BY FileSysAssumption DEF Sector, FREE_MAP_SECTOR, ROOT_DIR_SECTOR, Data, Zeros
<1>2. /\ Listed = {} /\ ListedSectors = {} /\ OpenSectors = {} /\ FoundSectors = {}
      /\ AddedSectors = {} /\ NewSectors = {} /\ FreedSectors = {} /\ FreedData = {}
  BY DEF Init, Listed, ListedSectors, OpenSectors, FoundSectors, AddedSectors, NewSectors,
         FreedSectors, FreedData, Claims
<1>3. Live = {FREE_MAP_SECTOR, ROOT_DIR_SECTOR} /\ free_map = Live /\ lost = {}
  BY <1>2 DEF Live, Init
<1>4. \A s \in Live : disk[s] = Zeros /\ Extent(s, disk[s]) = {s}
  BY <1>1, <1>3 DEF Init, Extent
<1>5. Own(Live, NewSectors, FreedData, free_map, disk, lost)
  BY <1>1, <1>2, <1>3, <1>4 DEF Own
<1>6. Cover(Live, NewSectors, FreedData, free_map, disk, lost)
  BY <1>3, <1>4 DEF Cover
<1>7. OwnInv
  BY <1>3, <1>4, <1>5 DEF OwnInv
<1>8. SourceInv
  BY <1>2 DEF SourceInv, Apart, Init, HasSector
<1>9. CopyInv
  BY NoFrameOK DEF CopyInv, Knows, Init
<1>10. AloneInv
  BY DEF AloneInv, InFileSystem, Init
<1> QED BY <1>2, <1>6, <1>7, <1>8, <1>9, <1>10 DEF OwnerInv, AllInv, Init

LEMMA OwnerStays ==
    ASSUME OwnerInv, UNCHANGED vars
    PROVE  OwnerInv' /\ (AllInv => AllInv')
<1>1. /\ Live' = Live /\ NewSectors' = NewSectors /\ FreedData' = FreedData
      /\ Listed' = Listed
      /\ ListedSectors' = ListedSectors /\ OpenSectors' = OpenSectors
      /\ FoundSectors' = FoundSectors /\ AddedSectors' = AddedSectors
      /\ FreedSectors' = FreedSectors
  BY DEF vars, dirVars, mapVars, inodeVars, Live, NewSectors, FreedData, Listed, ListedSectors,
         OpenSectors, FoundSectors, AddedSectors, FreedSectors, Claims
<1>2. /\ free_map' = free_map /\ disk' = disk /\ lost' = lost /\ entries' = entries
      /\ inode' = inode /\ open_inodes' = open_inodes /\ pc' = pc /\ frame' = frame
  BY DEF vars, dirVars, mapVars, inodeVars
<1>3. AloneInv'
  BY <1>2 DEF OwnerInv, AloneInv, InFileSystem
<1>4. OwnInv'
  BY <1>1, <1>2 DEF OwnerInv, OwnInv
<1>5. SourceInv'
  BY <1>1, <1>2 DEF OwnerInv, SourceInv
<1>6. CopyInv'
  BY <1>2 DEF OwnerInv, CopyInv
<1>7. AllInv => AllInv'
  BY <1>1, <1>2 DEF AllInv, IsRoot
<1> QED BY <1>3, <1>4, <1>5, <1>6, <1>7 DEF OwnerInv

LEMMA OwnerNext ==
    ASSUME RemoveAlone, BaseInv, OwnerInv, [Next]_vars
    PROVE  OwnerInv' /\ (~MallocFails /\ AllInv => AllInv')
<1>1. CASE UNCHANGED vars
  BY <1>1, OwnerStays
<1>2. ASSUME NEW t \in Thread, Call(t) \/ Step(t)
      PROVE  OwnerInv' /\ (~MallocFails /\ AllInv => AllInv')
  <2>1. AloneInv'
    BY <1>2, AloneKeeps DEF OwnerInv
  <2>2. OwnInv' /\ SourceInv' /\ CopyInv' /\ (~MallocFails /\ AllInv => AllInv')
    <3>1. AloneInv /\ OwnInv /\ SourceInv /\ CopyInv
      BY DEF OwnerInv
    <3>2. CASE Call(t)
      BY <3>1, <3>2, CallCalm
    <3>3. CASE OpenFound(t) \/ CloseLock(t) \/ DirAddBad(t)
      BY <3>1, <3>3, WaitCalm
    <3>4. CASE OpenReopen(t) \/ OpenNew(t) \/ OpenFails(t)
      BY <3>1, <3>4, OpenReopenCalm, OpenNewOwns, OpenFailsCalm
    <3>5. CASE CloseCount(t) \/ CloseRemoved(t) \/ ReleaseInode(t) \/ ReleaseData(t)
      BY <3>1, <3>5, CloseCountOwns, CloseRemovedOwns, ReleaseInodeOwns, ReleaseDataOwns
    <3>6. CASE Allocate(t) \/ InodeCreate(t) \/ DirAdd(t) \/ ReleaseSector(t)
      BY <3>1, <3>6, AllocateOwns, InodeCreateOwns, DirAddOwns, ReleaseSectorOwns
    <3>7. CASE Lookup(t) \/ FileOpen(t) \/ RemoveFind(t) \/ RemoveErase(t)
      BY <3>1, <3>7, LookupCalm, FileOpenCalm, RemoveFindCalm, RemoveEraseOwns
    <3> QED BY <1>2, <3>2, <3>3, <3>4, <3>5, <3>6, <3>7 DEF Step
  <2> QED BY <2>1, <2>2 DEF OwnerInv
<1> QED BY <1>1, <1>2 DEF Next

LEMMA OwnerAlways == RemoveAlone => (Spec => [](BaseInv /\ OwnerInv))
<1> SUFFICES ASSUME RemoveAlone PROVE Spec => [](BaseInv /\ OwnerInv)
  OBVIOUS
<1>1. Init => OwnerInv
  BY OwnerInit
<1>2. BaseInv /\ OwnerInv /\ [Next]_vars => OwnerInv'
  BY OwnerNext
<1> QED BY <1>1, <1>2, BaseAlways, PTL DEF Spec

LEMMA AllAlways == RemoveAlone /\ ~MallocFails => (Spec => [](BaseInv /\ OwnerInv /\ AllInv))
<1> SUFFICES ASSUME RemoveAlone, ~MallocFails PROVE Spec => [](BaseInv /\ OwnerInv /\ AllInv)
  OBVIOUS
<1>1. Init => OwnerInv /\ AllInv
  BY OwnerInit
<1>2. BaseInv /\ OwnerInv /\ AllInv /\ [Next]_vars => OwnerInv' /\ AllInv'
  BY OwnerNext
<1> QED BY <1>1, <1>2, BaseAlways, PTL DEF Spec

-----------------------------------------------------------------------------
\* filesys_open hands out the file whose entry it found: no inode of another file
\* takes its sector between the search of the directory and inode_open.
THEOREM OpensTheNamedFile == RemoveAlone => (Spec => []OpensNamedFile)
<1> SUFFICES ASSUME RemoveAlone PROVE Spec => []OpensNamedFile
  OBVIOUS
<1>1. BaseInv /\ OwnerInv => OpensNamedFile
  <2> SUFFICES ASSUME BaseInv, OwnerInv, NEW t \in Thread, pc[t] = "file_open"
               PROVE  inode[frame[t].node].data.file = frame[t].file
    BY DEF OpensNamedFile
  <2>1. FrameOK(pc[t], frame[t])
    BY Here
  <2>2. Knows(pc[t], frame[t], disk, inode)
    BY DEF OwnerInv, CopyInv
  <2> QED BY <2>1, <2>2 DEF FrameOK, Knows
<1> QED BY <1>1, OwnerAlways, PTL

\* An open file is marked removed exactly when dir_remove has erased its entry, so its
\* last close releases its sectors then and only then.
THEOREM RemovedIsUnlisted == RemoveAlone /\ ~MallocFails => (Spec => []RemovedIffUnlisted)
<1> SUFFICES ASSUME RemoveAlone, ~MallocFails PROVE Spec => []RemovedIffUnlisted
  OBVIOUS
<1>1. OwnerInv /\ AllInv => RemovedIffUnlisted
  BY DEF OwnerInv, SourceInv, AllInv, RemovedIffUnlisted, ListedSectors
<1> QED BY <1>1, AllAlways, PTL

\* The sets of sectors that belong together are those of the inodes of files, the
\* sectors of new inodes, what is left of a removed file, and lost.
LEMMA ExtentsOwned ==
    ASSUME BaseInv, OwnerInv, AllInv
    PROVE  /\ \A A \in Extents : \/ \E s \in Live : A = Extent(s, disk[s])
                                 \/ \E x \in NewSectors : A = {x}
                                 \/ A = FreedData
                                 \/ A = lost
           /\ \A s \in Live : Extent(s, disk[s]) \in Extents
           /\ \A x \in NewSectors : {x} \in Extents
           /\ FreedData = {} \/ FreedData \in Extents
           /\ lost \in Extents
<1>1. \A p \in open_inodes : inode[p].data = disk[inode[p].sector]
  BY DEF OwnerInv, CopyInv
<1>2. ASSUME NEW t \in Thread, pc[t] = "release_inode"
      PROVE  inode[frame[t].node].data = disk[inode[frame[t].node].sector]
  BY <1>2 DEF OwnerInv, CopyInv, Knows
<1>3. ASSUME NEW t \in Thread, pc[t] = "release_data"
      PROVE  FreedData = Data(inode[frame[t].node].data)
  <2>1. inode_lock = t
    BY <1>3 DEF BaseInv, LocksInv, Releasing
  <2> QED BY <1>3, <2>1, FreedHere
<1>4. /\ Extent(FREE_MAP_SECTOR, disk[FREE_MAP_SECTOR]) = {FREE_MAP_SECTOR}
      /\ Extent(ROOT_DIR_SECTOR, disk[ROOT_DIR_SECTOR]) = {ROOT_DIR_SECTOR}
  <2>1. Data(Zeros) = {}
    BY DEF Data, Zeros
  <2> QED BY <2>1 DEF OwnerInv, OwnInv, Extent
<1>5. FoundSectors \subseteq ListedSectors
  BY DEF AllInv
<1>6. ASSUME NEW A \in Extents
      PROVE  \/ \E s \in Live : A = Extent(s, disk[s])
             \/ \E x \in NewSectors : A = {x}
             \/ A = FreedData
             \/ A = lost
  <2>1. CASE \E s \in Listed : A = Extent(entries[s].inode_sector, disk[entries[s].inode_sector])
    BY <2>1 DEF Live, ListedSectors
  <2>2. CASE \E p \in open_inodes : A = Extent(inode[p].sector, inode[p].data)
    BY <1>1, <2>2 DEF Live, OpenSectors
  <2>3. CASE \E t \in Thread : pc[t] \in {"inode_create", "release_sector"}
                               /\ A = {frame[t].inode_sector}
    BY <2>3 DEF NewSectors, Claims
  <2>4. CASE \E t \in Thread : /\ pc[t] = "dir_add"
                               /\ A = Extent(frame[t].inode_sector, disk[frame[t].inode_sector])
    BY <2>4 DEF Live, AddedSectors, Claims
  <2>5. CASE \E t \in Thread : /\ pc[t] = "release_inode"
                               /\ A = Extent(inode[frame[t].node].sector, inode[frame[t].node].data)
    BY <1>2, <2>5 DEF Live, FreedSectors
  <2>6. CASE \E t \in Thread : pc[t] = "release_data" /\ A = Data(inode[frame[t].node].data)
    BY <1>3, <2>6
  <2>7. CASE A \in {{FREE_MAP_SECTOR}, {ROOT_DIR_SECTOR}, lost}
    BY <1>4, <2>7 DEF Live
  <2> QED BY <2>1, <2>2, <2>3, <2>4, <2>5, <2>6, <2>7 DEF Extents
<1>7. ASSUME NEW s \in Live PROVE Extent(s, disk[s]) \in Extents
  <2>1. CASE s \in ListedSectors
    BY <2>1 DEF ListedSectors, Extents
  <2>2. CASE s \in OpenSectors
    BY <1>1, <2>2 DEF OpenSectors, Extents
  <2>3. CASE s \in AddedSectors
    BY <2>3 DEF AddedSectors, Claims, Extents
  <2>4. CASE s \in FreedSectors
    BY <1>2, <2>4 DEF FreedSectors, Extents
  <2>5. CASE s \in {FREE_MAP_SECTOR, ROOT_DIR_SECTOR}
    BY <1>4, <2>5 DEF Extents
  <2> QED BY <1>5, <2>1, <2>2, <2>3, <2>4, <2>5 DEF Live
<1>8. \A x \in NewSectors : {x} \in Extents
  BY DEF NewSectors, Claims, Extents
<1>9. FreedData = {} \/ FreedData \in Extents
  <2>1. CASE \E t \in Thread : pc[t] = "release_data"
    BY <1>3, <2>1 DEF Extents
  <2>2. CASE ~\E t \in Thread : pc[t] = "release_data"
    BY <2>2 DEF FreedData
  <2> QED BY <2>1, <2>2
<1>10. lost \in Extents
  BY DEF Extents
<1> QED BY <1>6, <1>7, <1>8, <1>9, <1>10

\* No sector belongs to two files, and the free map marks what belongs to something
\* and nothing else: filesys_create, inode_create, inode_close and the free map.
THEOREM SectorsHaveOneOwner == RemoveAlone /\ ~MallocFails => (Spec => []SectorsOwnedOnce)
<1> SUFFICES ASSUME RemoveAlone, ~MallocFails PROVE Spec => []SectorsOwnedOnce
  OBVIOUS
<1>1. ASSUME BaseInv, OwnerInv, AllInv PROVE SectorsOwnedOnce
  <2>1. /\ Own(Live, NewSectors, FreedData, free_map, disk, lost)
        /\ Cover(Live, NewSectors, FreedData, free_map, disk, lost)
    BY <1>1 DEF OwnerInv, OwnInv, AllInv
  <2>2. free_map \subseteq UNION Extents
    <3>1. ASSUME NEW x \in free_map PROVE \E A \in Extents : x \in A
      <4>1. CASE x \in NewSectors
        BY <1>1, <4>1, ExtentsOwned
      <4>2. CASE x \in FreedData \/ x \in lost
        BY <1>1, <4>2, ExtentsOwned
      <4>3. CASE \E s \in Live : x \in Extent(s, disk[s])
        BY <1>1, <4>3, ExtentsOwned
      <4> QED BY <2>1, <4>1, <4>2, <4>3 DEF Cover
    <3> QED BY <3>1
  <2>3. ASSUME NEW A \in Extents PROVE A \subseteq free_map
    <3>1. \/ \E s \in Live : A = Extent(s, disk[s])
          \/ \E x \in NewSectors : A = {x}
          \/ A = FreedData
          \/ A = lost
      BY <1>1, ExtentsOwned
    <3> QED BY <2>1, <3>1 DEF Own
  <2>4. ASSUME NEW A \in Extents, NEW B \in Extents PROVE A = B \/ A \cap B = {}
    <3>1. /\ \/ \E s \in Live : A = Extent(s, disk[s])
             \/ \E x \in NewSectors : A = {x}
             \/ A = FreedData
             \/ A = lost
          /\ \/ \E s \in Live : B = Extent(s, disk[s])
             \/ \E x \in NewSectors : B = {x}
             \/ B = FreedData
             \/ B = lost
      BY <1>1, ExtentsOwned
    <3>2. ASSUME NEW s \in Live
          PROVE  /\ \A r \in Live : Extent(r, disk[r]) = Extent(s, disk[s])
                                    \/ Extent(r, disk[r]) \cap Extent(s, disk[s]) = {}
                 /\ \A x \in NewSectors : x \notin Extent(s, disk[s])
                 /\ FreedData \cap Extent(s, disk[s]) = {} /\ lost \cap Extent(s, disk[s]) = {}
      BY <2>1 DEF Own
    <3>3. NewSectors \cap FreedData = {} /\ NewSectors \cap lost = {} /\ FreedData \cap lost = {}
      BY <2>1 DEF Own
    <3>4. CASE \E s \in Live : A = Extent(s, disk[s])
      <4>1. PICK s \in Live : A = Extent(s, disk[s])
        BY <3>4
      <4>2. \A x \in NewSectors : A \cap {x} = {}
        BY <3>2, <4>1
      <4>3. \A r \in Live : A = Extent(r, disk[r]) \/ A \cap Extent(r, disk[r]) = {}
        BY <3>2, <4>1
      <4>4. A \cap FreedData = {} /\ A \cap lost = {}
        BY <3>2, <4>1
      <4> QED BY <3>1, <4>2, <4>3, <4>4
    <3>5. CASE \E x \in NewSectors : A = {x}
      <4>1. \A r \in Live : A \cap Extent(r, disk[r]) = {}
        BY <3>2, <3>5
      <4>2. A \cap FreedData = {} /\ A \cap lost = {}
        BY <3>3, <3>5
      <4> QED BY <3>1, <3>5, <4>1, <4>2
    <3>6. CASE A = FreedData \/ A = lost
      <4>1. \A r \in Live : A \cap Extent(r, disk[r]) = {}
        BY <3>2, <3>6
      <4>2. \A x \in NewSectors : A \cap {x} = {}
        BY <3>3, <3>6
      <4> QED BY <3>1, <3>3, <3>6, <4>1, <4>2
    <3> QED BY <3>1, <3>4, <3>5, <3>6
  <2> QED BY <2>2, <2>3, <2>4 DEF SectorsOwnedOnce
<1> QED BY <1>1, AllAlways, PTL
=============================================================================

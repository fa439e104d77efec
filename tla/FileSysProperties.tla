------------------------- MODULE FileSysProperties -------------------------
(***************************************************************************)
(* What creating, opening, closing and removing files must keep in order,  *)
(* over FileSys.                                                           *)
(***************************************************************************)
EXTENDS FileSys

Listed == {s \in Slot : entries[s].in_use}
IsRoot(p) == inode[p].sector = ROOT_DIR_SECTOR

-----------------------------------------------------------------------------
\* An inode is in memory once, so everybody who has it open shares its open_cnt
\* and its locks; and open_cnt counts exactly the directories, open files and
\* calls under way that refer to it, so nobody refers to freed memory.
OpenInodesCounted ==
    /\ \A p, q \in open_inodes : inode[p].sector = inode[q].sector => p = q
    /\ \A p \in open_inodes :
         inode[p].open_cnt = Cardinality({t \in Thread : frame[t].dir = p})
                           + Cardinality({t \in Thread : frame[t].node = p})
                           + Cardinality({t \in Thread : file[t] = p})
    /\ \A t \in Thread : file[t] # NULL => file[t] \in open_inodes

-----------------------------------------------------------------------------
\* The sectors that belong together: those of a listed file, of an open one, of
\* one being created, and those still to be released.
Extent(sector, d) == {sector} \cup Data(d)

Extents ==
    {Extent(entries[s].inode_sector, disk[entries[s].inode_sector]) : s \in Listed}
    \cup {Extent(inode[p].sector, inode[p].data) : p \in open_inodes}
    \cup {{frame[t].inode_sector} :
            t \in {u \in Thread : pc[u] \in {"inode_create", "release_sector"}}}
    \cup {Extent(frame[t].inode_sector, disk[frame[t].inode_sector]) :
            t \in {u \in Thread : pc[u] = "dir_add"}}
    \cup {Extent(inode[frame[t].node].sector, inode[frame[t].node].data) :
            t \in {u \in Thread : pc[u] = "release_inode"}}
    \cup {Data(inode[frame[t].node].data) :
            t \in {u \in Thread : pc[u] = "release_data"}}
    \cup {{FREE_MAP_SECTOR}, {ROOT_DIR_SECTOR}, lost}

\* No sector belongs to two files, and the free map marks exactly the sectors
\* that belong to something: none is released while in use or twice, and none
\* is forgotten but the data sectors of failed creations.
SectorsOwnedOnce ==
    /\ free_map = UNION Extents
    /\ \A A, B \in Extents : A = B \/ A \cap B = {}

\* A file that is open is marked removed exactly when it has no entry any more:
\* its last close releases its sectors then and only then.
RemovedIffUnlisted ==
    \A p \in open_inodes :
        ~IsRoot(p) =>
            (inode[p].removed <=>
                \A s \in Listed : entries[s].inode_sector # inode[p].sector)

\* filesys_open hands out the file whose entry it found.
OpensNamedFile ==
    \A t \in Thread :
        pc[t] = "file_open" => inode[frame[t].node].data.file = frame[t].file

-----------------------------------------------------------------------------
\* Whom a thread waits for: the holder of the list's lock, or of the lock of
\* the inode it is about to count.
Target(t) ==
    CASE pc[t] \in {"open_root", "open_node"}   -> Opened(Wanted(t))
      [] pc[t] \in {"close_root", "close_node"} -> {Closing(t)}
      [] pc[t] \in {"dir_add", "remove_find"}   -> {frame[t].dir}
      [] OTHER                                  -> {}

\* Every way out of a call, also on an error, returns the locks it has taken: a
\* thread that has returned holds none, and none comes to an inode's lock with
\* that lock in its hands, which lock_acquire asserts.
LocksReturned ==
    \A t \in Thread :
        /\ pc[t] = "idle" => inode_lock # t
        /\ \A p \in IF pc[t] = "idle" THEN open_inodes ELSE Target(t) :
             inode[p].inode_lock # t

WantsList(t) ==
    pc[t] \in {"open_root", "open_node", "close_root", "close_node"} /\ inode_lock # t

WaitsFor(t, u) ==
    \/ WantsList(t) /\ inode_lock = u
    \/ ~WantsList(t) /\ \E p \in Target(t) : inode[p].inode_lock = u

\* No two threads wait for each other.
NoDeadlock == \A t, u \in Thread : ~(WaitsFor(t, u) /\ WaitsFor(u, t))

\* When programs stop calling, every call returns, unless an assertion fails
\* before.
CallsReturn ==
    <>[][\A t \in Thread : ~Call(t)]_vars
      => <>panicked \/ <>[](\A t \in Thread : pc[t] = "idle")

\* Two creations of one name at the same time make one entry, and an entry in use
\* changes only when the file it names is removed.
NamesUnique ==
    \A r, s \in Listed : entries[r].name = entries[s].name => r = s

EntriesStay ==
    []NamesUnique /\ [][\A s \in Listed :
          entries'[s] # entries[s] =>
            \E t \in Thread :
                pc[t] = "remove_erase" /\ frame[t].name = entries[s].name]_vars
=============================================================================

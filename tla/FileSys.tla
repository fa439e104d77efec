------------------------------ MODULE FileSys ------------------------------
(***************************************************************************)
(* Creating, opening, closing and removing files: filesys/filesys.c,       *)
(* directory.c, free-map.c and the part of inode.c that keeps the list of  *)
(* open inodes.                                                            *)
(*                                                                         *)
(* Three kinds of locks: inode_lock protects the list, the inode_lock of   *)
(* each in-memory inode its open_cnt (that of the root directory also      *)
(* serialises changes of the directory), free_map_lock the free map.  The  *)
(* last one, and the inode_lock of all inodes but the root's, are only     *)
(* held while nothing else is waited for, so what runs under them is part  *)
(* of one step.                                                            *)
(*                                                                         *)
(* Reads and writes of single directory entries are atomic (see InodeRW);  *)
(* the bytes of files are left out.                                        *)
(***************************************************************************)
EXTENDS Integers, FiniteSets

CONSTANTS
    Thread, NoThread,
    Name,
    BadName,        \* the names that are empty or longer than NAME_MAX
    Size,           \* the sizes, in sectors, that programs create files with
    DiskSize,       \* sectors on the disk
    DirSize,        \* entries in the root directory
    MaxInodes,      \* bound: in-memory inodes there is memory for
    MaxFiles,       \* bound: calls of filesys_create
    MallocFails,    \* whether malloc and calloc may return NULL
    RemoveAlone     \* programs remove files only while no other thread is in
                    \* filesys_create, filesys_open or filesys_remove

FREE_MAP_SECTOR == 0
ROOT_DIR_SECTOR == 1
NULL == 0

ASSUME FileSysAssumption ==
    /\ IsFiniteSet(Thread) /\ NoThread \notin Thread
    /\ Name # {} /\ BadName \subseteq Name /\ Size \subseteq Nat
    /\ DiskSize \in Nat /\ DiskSize > ROOT_DIR_SECTOR
    /\ DirSize \in Nat /\ MaxInodes \in Nat /\ MaxFiles \in Nat
    /\ MallocFails \in BOOLEAN /\ RemoveAlone \in BOOLEAN

VARIABLES
    free_map,       \* the sectors in use
    disk,           \* the inodes on disk; a sector of data reads as an empty one
    entries,        \* the entries of the root directory
    inode,          \* the in-memory inodes, by address
    open_inodes,    \* the addresses in the list of open inodes
    inode_lock,     \* who holds the lock of that list
    pc,             \* where each thread is
    frame,          \* the arguments and local variables of the call it is in
    file,           \* the inode of the file each thread has open, or NULL
    created,        \* how many files were created
    lost,           \* sectors that failed creations left marked
    panicked        \* an assertion has failed

dirVars == <<entries, created>>
mapVars == <<free_map, disk, lost>>
inodeVars == <<inode, open_inodes, inode_lock>>
vars == <<dirVars, mapVars, inodeVars, pc, frame, file, panicked>>

Sector == 0..DiskSize - 1
Pointer == 1..MaxInodes
Slot == 1..DirSize
File == 1..MaxFiles     \* which file an inode belongs to; NULL for no file
inode_disk == [start : Sector, sectors : Nat, file : File \cup {NULL}]
dir_entry == [inode_sector : Sector, name : Name, in_use : BOOLEAN]
Inode == [sector : Sector, open_cnt : Nat, removed : BOOLEAN,
          data : inode_disk, inode_lock : Thread \cup {NoThread}]
Op == {"none", "create", "open", "remove", "close"}
Frame == [op : Op, name : Name, size : Nat, file : File \cup {NULL},
          dir : Pointer \cup {NULL}, node : Pointer \cup {NULL},
          inode_sector : Sector, ofs : Nat]

Zeros == [start |-> 0, sectors |-> 0, file |-> NULL]
NoInode == [sector |-> 0, open_cnt |-> 0, removed |-> FALSE, data |-> Zeros,
            inode_lock |-> NoThread]
NoFrame == [op |-> "none", name |-> CHOOSE n \in Name : TRUE, size |-> 0,
            file |-> NULL, dir |-> NULL, node |-> NULL, inode_sector |-> 0,
            ofs |-> 1]

FileSysTypeOK ==
    /\ free_map \subseteq Sector
    /\ disk \in [Sector -> inode_disk]
    /\ entries \in [Slot -> dir_entry]
    /\ inode \in [Pointer -> Inode]
    /\ open_inodes \subseteq Pointer
    /\ inode_lock \in Thread \cup {NoThread}
    /\ pc \in [Thread -> {"idle", "open_root", "close_root", "open_node",
                 "close_node", "release_inode", "release_data", "allocate",
                 "inode_create", "dir_add", "release_sector", "lookup",
                 "file_open", "remove_find", "remove_erase"}]
    /\ frame \in [Thread -> Frame]
    /\ file \in [Thread -> Pointer \cup {NULL}]
    /\ created \in 0..MaxFiles
    /\ lost \subseteq Sector
    /\ panicked \in BOOLEAN

\* A disk that was just formatted.
Init ==
    /\ free_map = {FREE_MAP_SECTOR, ROOT_DIR_SECTOR}
    /\ disk = [s \in Sector |-> Zeros]
    /\ entries = [s \in Slot |-> [inode_sector |-> 0, name |-> NoFrame.name,
                                  in_use |-> FALSE]]
    /\ inode = [p \in Pointer |-> NoInode]
    /\ open_inodes = {}
    /\ inode_lock = NoThread
    /\ pc = [t \in Thread |-> "idle"]
    /\ frame = [t \in Thread |-> NoFrame]
    /\ file = [t \in Thread |-> NULL]
    /\ created = 0
    /\ lost = {}
    /\ panicked = FALSE

-----------------------------------------------------------------------------
At(t, places) == pc[t] \in places /\ ~panicked
Goto(t, place) == pc' = [pc EXCEPT ![t] = place]
Return(t) == Goto(t, "idle") /\ frame' = [frame EXCEPT ![t] = NoFrame]

Least(S) == CHOOSE n \in S : \A m \in S : n <= m

\* An assertion of the kernel: it goes on or panics.
Asserts(condition) == panicked' = ~condition

(* Calls.  A thread has one file open at a time.                           *)

InFileSystem(t) == pc[t] # "idle" /\ frame[t].op # "close"

MayCall(op) ==
    RemoveAlone =>
        \A t \in Thread : InFileSystem(t) => op # "remove" /\ frame[t].op # "remove"

Enter(t, op, place, name, size, f, node) ==
    /\ frame' = [frame EXCEPT ![t] = [NoFrame EXCEPT !.op = op, !.name = name,
                    !.size = size, !.file = f, !.node = node]]
    /\ Goto(t, place)

CallCreate(t) ==
    /\ At(t, {"idle"})
    /\ MayCall("create") /\ created < MaxFiles
    /\ \E name \in Name, size \in Size :
         Enter(t, "create", "open_root", name, size, created + 1, NULL)
    /\ created' = created + 1
    /\ UNCHANGED <<entries, mapVars, inodeVars, file, panicked>>

CallOpen(t) ==
    /\ At(t, {"idle"})
    /\ MayCall("open") /\ file[t] = NULL
    /\ \E name \in Name : Enter(t, "open", "open_root", name, 0, NULL, NULL)
    /\ UNCHANGED <<dirVars, mapVars, inodeVars, file, panicked>>

CallRemove(t) ==
    /\ At(t, {"idle"})
    /\ MayCall("remove")
    /\ \E name \in Name : Enter(t, "remove", "open_root", name, 0, NULL, NULL)
    /\ UNCHANGED <<dirVars, mapVars, inodeVars, file, panicked>>

CallClose(t) ==
    /\ At(t, {"idle"})
    /\ file[t] # NULL
    /\ Enter(t, "close", "close_node", NoFrame.name, 0, NULL, file[t])
    /\ file' = [file EXCEPT ![t] = NULL]
    /\ UNCHANGED <<dirVars, mapVars, inodeVars, panicked>>

-----------------------------------------------------------------------------
(* inode_open, of the root directory or of the inode in frame[t].inode_sector. *)

Wanted(t) ==
    IF pc[t] = "open_root" THEN ROOT_DIR_SECTOR ELSE frame[t].inode_sector

Opened(sector) == {p \in open_inodes : inode[p].sector = sector}

\* Where a thread goes once inode_open has given it p.  For the root, dir_open
\* may find no memory and closes the inode again.
OpenReturns(t, p) ==
    CASE pc[t] = "open_root" /\ p = NULL -> Return(t)
      [] pc[t] = "open_root" /\ p # NULL ->
            /\ frame' = [frame EXCEPT ![t].dir = p]
            /\ \/ Goto(t, CASE frame[t].op = "create" -> "allocate"
                            [] frame[t].op = "open"   -> "lookup"
                            [] frame[t].op = "remove" -> "remove_find")
               \/ MallocFails /\ Goto(t, "close_root")
      [] pc[t] = "open_node" ->
            /\ frame' = [frame EXCEPT ![t].node = p]
            /\ Goto(t, IF frame[t].op = "remove" /\ p # NULL THEN "remove_erase"
                       ELSE "close_root")

\* dir_remove gives up: the directory's lock is released.
Unlocked(t) ==
    IF frame[t].op = "remove" /\ frame[t].dir # NULL
    THEN [inode EXCEPT ![frame[t].dir].inode_lock = NoThread]
    ELSE inode

\* The inode is in the list: the lock of the list is kept for inode_reopen.
OpenFound(t) ==
    /\ At(t, {"open_root", "open_node"})
    /\ inode_lock = NoThread
    /\ Opened(Wanted(t)) # {}
    /\ inode_lock' = t
    /\ UNCHANGED <<dirVars, mapVars, inode, open_inodes, pc, frame, file, panicked>>

\* Mutant: the opener is not counted.
OpenReopen_Uncounted(t) ==
    /\ At(t, {"open_root", "open_node"})
    /\ inode_lock = t
    /\ \E p \in Opened(Wanted(t)) :
         /\ inode[p].inode_lock = NoThread
         /\ OpenReturns(t, p)
    /\ inode_lock' = NoThread
    /\ UNCHANGED <<dirVars, mapVars, inode, open_inodes, file, panicked>>

OpenReopen(t) ==
    /\ At(t, {"open_root", "open_node"})
    /\ inode_lock = t
    /\ \E p \in Opened(Wanted(t)) :
         /\ inode[p].inode_lock = NoThread
         /\ inode' = [inode EXCEPT ![p].open_cnt = @ + 1]
         /\ OpenReturns(t, p)
    /\ inode_lock' = NoThread
    /\ UNCHANGED <<dirVars, mapVars, open_inodes, file, panicked>>

\* Mutant: the inode is not read from the disk.
OpenNew_Unread(t) ==
    /\ At(t, {"open_root", "open_node"})
    /\ inode_lock = NoThread
    /\ Opened(Wanted(t)) = {}
    /\ Pointer \ open_inodes # {}
    /\ LET p == Least(Pointer \ open_inodes) IN
         /\ inode' = [inode EXCEPT ![p] =
                        [NoInode EXCEPT !.sector = Wanted(t), !.open_cnt = 1]]
         /\ open_inodes' = open_inodes \cup {p}
         /\ OpenReturns(t, p)
    /\ UNCHANGED <<dirVars, mapVars, inode_lock, file, panicked>>

\* It is not: it is read from the disk into a new one.
OpenNew(t) ==
    /\ At(t, {"open_root", "open_node"})
    /\ inode_lock = NoThread
    /\ Opened(Wanted(t)) = {}
    /\ Pointer \ open_inodes # {}
    /\ LET p == Least(Pointer \ open_inodes) IN
         /\ inode' = [inode EXCEPT ![p] =
                        [sector |-> Wanted(t), open_cnt |-> 1, removed |-> FALSE,
                         data |-> disk[Wanted(t)], inode_lock |-> NoThread]]
         /\ open_inodes' = open_inodes \cup {p}
         /\ OpenReturns(t, p)
    /\ UNCHANGED <<dirVars, mapVars, inode_lock, file, panicked>>

\* Mutant: dir_remove returns without releasing the directory's lock.
OpenFails_Locked(t) ==
    /\ At(t, {"open_root", "open_node"})
    /\ inode_lock = NoThread
    /\ Opened(Wanted(t)) = {}
    /\ MallocFails
    /\ OpenReturns(t, NULL)
    /\ UNCHANGED <<dirVars, mapVars, inodeVars, file, panicked>>

OpenFails(t) ==
    /\ At(t, {"open_root", "open_node"})
    /\ inode_lock = NoThread
    /\ Opened(Wanted(t)) = {}
    /\ MallocFails
    /\ OpenReturns(t, NULL)
    /\ inode' = Unlocked(t)
    /\ UNCHANGED <<dirVars, mapVars, open_inodes, inode_lock, file, panicked>>

(* inode_close, of the root directory or of frame[t].node.                 *)

Closing(t) == IF pc[t] = "close_root" THEN frame[t].dir ELSE frame[t].node

CloseReturns(t) ==
    CASE pc[t] = "close_root" /\ frame[t].op = "open" /\ frame[t].node # NULL ->
            Goto(t, "file_open") /\ frame' = [frame EXCEPT ![t].dir = NULL]
      [] pc[t] # "close_root" /\ frame[t].op = "remove" ->
            Goto(t, "close_root") /\ frame' = [frame EXCEPT ![t].node = NULL]
      [] OTHER -> Return(t)

CloseLock(t) ==
    /\ At(t, {"close_root", "close_node"})
    /\ inode_lock = NoThread
    /\ inode_lock' = t
    /\ UNCHANGED <<dirVars, mapVars, inode, open_inodes, pc, frame, file, panicked>>

\* Mutant: the lock of the list is not released when others have the inode open.
CloseCount_Locked(t) ==
    LET p == Closing(t) IN
    /\ At(t, {"close_root", "close_node"})
    /\ inode_lock = t
    /\ inode[p].inode_lock = NoThread
    /\ inode[p].open_cnt > 1 \/ ~inode[p].removed
    /\ IF inode[p].open_cnt > 1
       THEN /\ inode' = [inode EXCEPT ![p].open_cnt = @ - 1]
            /\ UNCHANGED <<open_inodes, inode_lock>>
       ELSE /\ inode' = [inode EXCEPT ![p] = NoInode]
            /\ open_inodes' = open_inodes \ {p}
            /\ inode_lock' = NoThread
    /\ CloseReturns(t)
    /\ UNCHANGED <<dirVars, mapVars, file, panicked>>

\* Not the last one, or the last one of a file that stays.
CloseCount(t) ==
    LET p == Closing(t) IN
    /\ At(t, {"close_root", "close_node"})
    /\ inode_lock = t
    /\ inode[p].inode_lock = NoThread
    /\ inode[p].open_cnt > 1 \/ ~inode[p].removed
    /\ IF inode[p].open_cnt > 1
       THEN /\ inode' = [inode EXCEPT ![p].open_cnt = @ - 1]
            /\ UNCHANGED open_inodes
       ELSE /\ inode' = [inode EXCEPT ![p] = NoInode]
            /\ open_inodes' = open_inodes \ {p}
    /\ inode_lock' = NoThread
    /\ CloseReturns(t)
    /\ UNCHANGED <<dirVars, mapVars, file, panicked>>

\* The last one of a removed file: its sectors are released, under the lock of
\* the list.
CloseRemoved(t) ==
    LET p == Closing(t) IN
    /\ At(t, {"close_node"})
    /\ inode_lock = t
    /\ inode[p].inode_lock = NoThread
    /\ inode[p].open_cnt = 1 /\ inode[p].removed
    /\ inode' = [inode EXCEPT ![p].open_cnt = 0]
    /\ open_inodes' = open_inodes \ {p}
    /\ Goto(t, "release_inode")
    /\ UNCHANGED <<dirVars, mapVars, inode_lock, frame, file, panicked>>

Data(d) == d.start .. d.start + d.sectors - 1

\* free_map_release asserts that what it releases is in use.
free_map_release(sectors) ==
    /\ Asserts(sectors \subseteq free_map)
    /\ free_map' = free_map \ sectors

ReleaseInode(t) ==
    /\ At(t, {"release_inode"})
    /\ free_map_release({inode[frame[t].node].sector})
    /\ Goto(t, "release_data")
    /\ UNCHANGED <<dirVars, disk, lost, inodeVars, frame, file>>

\* Mutant: the data sectors are forgotten.
ReleaseData_Forgets(t) ==
    /\ At(t, {"release_data"})
    /\ inode' = [inode EXCEPT ![frame[t].node] = NoInode]
    /\ inode_lock' = NoThread
    /\ CloseReturns(t)
    /\ UNCHANGED <<dirVars, mapVars, open_inodes, file, panicked>>
ReleaseData(t) ==
    /\ At(t, {"release_data"})
    /\ free_map_release(Data(inode[frame[t].node].data))
    /\ inode' = [inode EXCEPT ![frame[t].node] = NoInode]
    /\ inode_lock' = NoThread
    /\ CloseReturns(t)
    /\ UNCHANGED <<dirVars, disk, lost, open_inodes, file>>

-----------------------------------------------------------------------------
(* filesys_create                                                          *)

\* bitmap_scan: where n free sectors in a row start; 0 if n is 0.
Runs(n) ==
    IF n = 0 THEN {0} ELSE {s \in Sector : s..s + n - 1 \subseteq Sector \ free_map}

\* free_map_allocate takes the first run.  Saving the map may fail for want of
\* memory.
Allocate(t) ==
    /\ At(t, {"allocate"})
    /\ \/ /\ Runs(1) # {}
          /\ free_map' = free_map \cup {Least(Runs(1))}
          /\ frame' = [frame EXCEPT ![t].inode_sector = Least(Runs(1))]
          /\ Goto(t, "inode_create")
       \/ /\ Runs(1) = {} \/ MallocFails
          /\ Goto(t, "close_root")
          /\ UNCHANGED <<free_map, frame>>
    /\ UNCHANGED <<dirVars, disk, lost, inodeVars, file, panicked>>

InodeCreate(t) ==
    LET n == frame[t].size IN
    /\ At(t, {"inode_create"})
    /\ \/ /\ Runs(n) # {}
          /\ LET d == [start |-> Least(Runs(n)), sectors |-> n, file |-> frame[t].file]
             IN  /\ free_map' = free_map \cup Data(d)
                 /\ disk' = [s \in Sector |->
                               IF s = frame[t].inode_sector THEN d
                               ELSE IF s \in Data(d) THEN Zeros ELSE disk[s]]
          /\ Goto(t, "dir_add")
       \/ /\ Runs(n) = {} \/ MallocFails
          /\ Goto(t, "release_sector")
          /\ UNCHANGED <<free_map, disk>>
    /\ UNCHANGED <<dirVars, lost, inodeVars, frame, file, panicked>>

\* How many entries a scan of the directory gets to see: inode_read_at comes
\* back short when there is no memory for its bounce buffer.
Seen == IF MallocFails THEN 0..DirSize ELSE {DirSize}

Named(name, n) == {s \in 1..n : entries[s].in_use /\ entries[s].name = name}

\* Mutant: the first slot, in use or not.
FreeSlot_First(n) == 1

\* The first slot not in use, or the one at which the scan ended.
FreeSlot(n) == Least({s \in 1..n : ~entries[s].in_use} \cup {n + 1})

\* A name that is not valid: dir_add releases a lock it has not taken.
DirAddBad(t) ==
    /\ At(t, {"dir_add"})
    /\ frame[t].name \in BadName
    /\ Asserts(inode[frame[t].dir].inode_lock = t)
    /\ UNCHANGED <<dirVars, mapVars, inodeVars, pc, frame, file>>

\* All under the directory's lock: is the name new, is there a free slot, can
\* it be written.
DirAdd(t) ==
    /\ At(t, {"dir_add"})
    /\ frame[t].name \notin BadName
    /\ inode[frame[t].dir].inode_lock = NoThread
    /\ \E n \in Seen, m \in Seen :
         \/ /\ Named(frame[t].name, n) = {}
            /\ FreeSlot(m) \in Slot
            /\ entries' = [entries EXCEPT ![FreeSlot(m)] =
                             [inode_sector |-> frame[t].inode_sector,
                              name |-> frame[t].name, in_use |-> TRUE]]
            /\ Goto(t, "close_root")
            /\ UNCHANGED lost
         \/ /\ Named(frame[t].name, n) # {} \/ FreeSlot(m) \notin Slot \/ MallocFails
            /\ lost' = lost \cup Data(disk[frame[t].inode_sector])
            /\ Goto(t, "release_sector")
            /\ UNCHANGED entries
    /\ UNCHANGED <<created, free_map, disk, inodeVars, frame, file, panicked>>

\* A failed creation gives back the inode's sector, and only that.
ReleaseSector(t) ==
    /\ At(t, {"release_sector"})
    /\ free_map_release({frame[t].inode_sector})
    /\ Goto(t, "close_root")
    /\ UNCHANGED <<dirVars, disk, lost, inodeVars, frame, file>>

(* filesys_open: the directory is searched without its lock.               *)

Lookup(t) ==
    LET e == entries[frame[t].ofs] IN
    /\ At(t, {"lookup"})
    /\ \/ /\ frame[t].ofs \in Slot
          /\ e.in_use /\ e.name = frame[t].name
          /\ frame' = [frame EXCEPT ![t].inode_sector = e.inode_sector,
                                    ![t].file = disk[e.inode_sector].file]
          /\ Goto(t, "open_node")
       \/ /\ frame[t].ofs \in Slot
          /\ ~(e.in_use /\ e.name = frame[t].name)
          /\ frame' = [frame EXCEPT ![t].ofs = @ + 1]
          /\ UNCHANGED pc
       \/ /\ frame[t].ofs \notin Slot \/ MallocFails
          /\ Goto(t, "close_root")
          /\ UNCHANGED frame
    /\ UNCHANGED <<dirVars, mapVars, inodeVars, file, panicked>>

FileOpen(t) ==
    /\ At(t, {"file_open"})
    /\ \/ /\ file' = [file EXCEPT ![t] = frame[t].node]
          /\ Return(t)
       \/ /\ MallocFails
          /\ Goto(t, "close_node")
          /\ UNCHANGED <<file, frame>>
    /\ UNCHANGED <<dirVars, mapVars, inodeVars, panicked>>

(* filesys_remove: the directory's lock is held from the search to the end *)
(* of the change, and inode_open in between takes the lock of the list.    *)

RemoveFind(t) ==
    LET d == frame[t].dir IN
    /\ At(t, {"remove_find"})
    /\ inode[d].inode_lock = NoThread
    /\ \E n \in Seen :
         LET found == Named(frame[t].name, n) IN
         \/ /\ found # {}
            /\ LET s == Least(found) IN
                 frame' = [frame EXCEPT ![t].ofs = s,
                             ![t].inode_sector = entries[s].inode_sector]
            /\ inode' = [inode EXCEPT ![d].inode_lock = t]
            /\ Goto(t, "open_node")
         \/ /\ found = {}
            /\ Goto(t, "close_root")
            /\ UNCHANGED <<inode, frame>>
    /\ UNCHANGED <<dirVars, mapVars, open_inodes, inode_lock, file, panicked>>

\* Mutant: the inode is not marked.
RemoveErase_Unmarked(t) ==
    /\ At(t, {"remove_erase"})
    /\ entries' = [entries EXCEPT ![frame[t].ofs].in_use = FALSE]
    /\ inode' = Unlocked(t)
    /\ Goto(t, "close_node")
    /\ UNCHANGED <<created, mapVars, open_inodes, inode_lock, frame, file, panicked>>

\* The entry is erased, the inode marked, the lock released.
RemoveErase(t) ==
    LET released == Unlocked(t) IN
    /\ At(t, {"remove_erase"})
    /\ \/ /\ inode[frame[t].node].inode_lock = NoThread
          /\ entries' = [entries EXCEPT ![frame[t].ofs].in_use = FALSE]
          /\ inode' = [released EXCEPT ![frame[t].node].removed = TRUE]
       \/ /\ MallocFails
          /\ inode' = released
          /\ UNCHANGED entries
    /\ Goto(t, "close_node")
    /\ UNCHANGED <<created, mapVars, open_inodes, inode_lock, frame, file, panicked>>

-----------------------------------------------------------------------------
Call(t) == CallCreate(t) \/ CallOpen(t) \/ CallRemove(t) \/ CallClose(t)

Step(t) ==
    \/ OpenFound(t) \/ OpenReopen(t) \/ OpenNew(t) \/ OpenFails(t)
    \/ CloseLock(t) \/ CloseCount(t) \/ CloseRemoved(t)
    \/ ReleaseInode(t) \/ ReleaseData(t)
    \/ Allocate(t) \/ InodeCreate(t) \/ DirAddBad(t) \/ DirAdd(t) \/ ReleaseSector(t)
    \/ Lookup(t) \/ FileOpen(t)
    \/ RemoveFind(t) \/ RemoveErase(t)

Next == \E t \in Thread : Call(t) \/ Step(t)

Spec == Init /\ [][Next]_vars

\* The scheduler is fair; programs need not call anything.
FairSpec == Spec /\ \A t \in Thread : WF_vars(Step(t))
=============================================================================

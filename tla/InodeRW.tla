------------------------------ MODULE InodeRW ------------------------------
(***************************************************************************)
(* Readers and writers of one inode: inode_read_at and inode_write_at of   *)
(* filesys/inode.c.  The first reader in takes the semaphore inode_sema    *)
(* and the last one out returns it, counted by how_many_readers under      *)
(* inode_lock_read_at; a writer takes the semaphore for itself.            *)
(*                                                                         *)
(* The file is moved sector by sector, and any thread may run between two  *)
(* transfers.  Part of a sector goes through a bounce buffer: a read of    *)
(* the sector, and for a write a change of the copy and a write of all of  *)
(* it.  The buffer may be refused by malloc, which ends the operation.     *)
(***************************************************************************)
EXTENDS Integers, Sequences, FiniteSets, Semaphore

CONSTANTS
    Thread, NoThread,
    SectorSize,     \* DISK_SECTOR_SIZE
    Length,         \* inode->data.length
    Byte,           \* the bytes programs write; 0 is what a new file is filled with
    Span,           \* the <<offset, size>> programs pass
    MallocFails     \* whether malloc may return NULL

ASSUME InodeRWAssumption ==
    /\ IsFiniteSet(Thread) /\ NoThread \notin Thread
    /\ SectorSize \in Nat \ {0} /\ Length \in Nat
    /\ Span \subseteq Nat \X Nat
    /\ MallocFails \in BOOLEAN

VARIABLES
    data,               \* the file's bytes on disk
    how_many_readers, inode_lock_read_at, inode_sema,
    pc, blocked,        \* where each thread is; those blocked in a sema_down
    request,            \* what each thread called with
    done,               \* bytes_read, bytes_written
    buffer,             \* what a reader has copied so far
    bounce,             \* a writer's copy of the sector it changes
    before              \* the file as the writer found it

syncVars == <<how_many_readers, inode_lock_read_at, inode_sema, blocked>>
copyVars == <<data, done, buffer, bounce, before>>
vars == <<syncVars, copyVars, pc, request>>

Position == 0..Length - 1
Content == [Position -> Byte \cup {0}]
Empty == [i \in Position |-> 0]     \* a new file
\* What programs ask for.
Request == [kind : {"read", "write"}, offset : Nat, size : Nat, byte : Byte \cup {0}]
Requests ==
    {[kind |-> "read", offset |-> r[1], size |-> r[2], byte |-> 0] : r \in Span}
    \cup {[kind |-> "write", offset |-> r[1], size |-> r[2], byte |-> b] :
            r \in Span, b \in Byte}
NoRequest == [kind |-> "read", offset |-> 0, size |-> 0, byte |-> 0]

InodeRWTypeOK ==
    /\ data \in Content
    /\ how_many_readers \in Nat
    /\ inode_lock_read_at \in Thread \cup {NoThread}
    /\ inode_sema \in SemaOf(Thread)
    /\ pc \in [Thread -> {"idle", "r_enter", "r_down", "reading", "r_leave",
                          "w_down", "writing", "w_back", "w_up"}]
    /\ blocked \subseteq Thread
    /\ request \in [Thread -> Request]
    /\ done \in [Thread -> Nat]
    /\ buffer \in [Thread -> Seq(Byte \cup {0})]
    /\ bounce \in [Thread -> Content]
    /\ before \in Content

Init ==
    /\ data = Empty
    /\ how_many_readers = 0
    /\ inode_lock_read_at = NoThread
    /\ inode_sema = sema_init(1)
    /\ pc = [t \in Thread |-> "idle"]
    /\ blocked = {}
    /\ request = [t \in Thread |-> NoRequest]
    /\ done = [t \in Thread |-> 0]
    /\ buffer = [t \in Thread |-> <<>>]
    /\ bounce = [t \in Thread |-> Empty]
    /\ before = Empty

-----------------------------------------------------------------------------
At(t, here) == pc[t] = here /\ t \notin blocked
Goto(t, there) == pc' = [pc EXCEPT ![t] = there]

\* The loop variables: where the next transfer starts, what is left of the
\* request, and how much of it one transfer moves.
offset(t) == request[t].offset + done[t]
size(t) == request[t].size - done[t]
sector_ofs(t) == offset(t) % SectorSize
sector_left(t) == SectorSize - sector_ofs(t)
inode_left(t) == Length - offset(t)

Least(S) == CHOOSE n \in S : \A m \in S : n <= m

\* Mutant: the end of the sector is not looked at.
chunk_size_Long(t) == Least({size(t), inode_left(t)})

chunk_size(t) == Least({size(t), inode_left(t), sector_left(t)})

Full(t) == sector_ofs(t) = 0 /\ chunk_size(t) = SectorSize
Chunk(t) == {i \in Position : offset(t) <= i /\ i < offset(t) + chunk_size(t)}
Sector(t) == {i \in Position : i \div SectorSize = offset(t) \div SectorSize}

\* malloc refuses the bounce buffer.  It is asked for once: an operation that
\* started within a sector has it already when it comes to its last sector.
NoBounce(t) ==
    /\ MallocFails
    /\ ~Full(t)
    /\ done[t] = 0 \/ request[t].offset % SectorSize = 0

\* The loop ends with the request, with the file, or without a bounce buffer.
Finished(t) == size(t) = 0 \/ chunk_size(t) <= 0 \/ NoBounce(t)

Call(t) ==
    /\ At(t, "idle")
    /\ \E r \in Requests :
         /\ request' = [request EXCEPT ![t] = r]
         /\ Goto(t, IF r.kind = "read" THEN "r_enter" ELSE "w_down")
    /\ UNCHANGED <<syncVars, copyVars>>

\* The operation returns and its local variables are gone.
Return(t) ==
    /\ Goto(t, "idle")
    /\ request' = [request EXCEPT ![t] = NoRequest]
    /\ done' = [done EXCEPT ![t] = 0]
    /\ buffer' = [buffer EXCEPT ![t] = <<>>]
    /\ bounce' = [bounce EXCEPT ![t] = Empty]
    /\ before' = Empty
    /\ UNCHANGED data

(* inode_read_at                                                           *)

\* Mutant: the count is tested before it is raised.
ReadEnter_Late(t) ==
    /\ At(t, "r_enter")
    /\ inode_lock_read_at = NoThread
    /\ how_many_readers' = how_many_readers + 1
    /\ IF how_many_readers = 1
       THEN inode_lock_read_at' = t /\ Goto(t, "r_down")
       ELSE UNCHANGED inode_lock_read_at /\ Goto(t, "reading")
    /\ UNCHANGED <<inode_sema, blocked, copyVars, request>>

\* The reader is counted; the first one keeps the lock until it has the
\* semaphore.
ReadEnter(t) ==
    /\ At(t, "r_enter")
    /\ inode_lock_read_at = NoThread
    /\ how_many_readers' = how_many_readers + 1
    /\ IF how_many_readers = 0
       THEN inode_lock_read_at' = t /\ Goto(t, "r_down")
       ELSE UNCHANGED inode_lock_read_at /\ Goto(t, "reading")
    /\ UNCHANGED <<inode_sema, blocked, copyVars, request>>

\* sema_down(&inode->inode_sema), by the first reader or by a writer.
Down(t) ==
    /\ inode_sema.value = 0
    /\ inode_sema' = SemaQueue(inode_sema, t)
    /\ blocked' = blocked \cup {t}

\* Mutant: the lock is not released.
ReadDown_Keeps(t) ==
    /\ At(t, "r_down")
    /\ inode_sema.value > 0
    /\ inode_sema' = SemaTake(inode_sema)
    /\ Goto(t, "reading")
    /\ UNCHANGED <<how_many_readers, inode_lock_read_at, blocked, copyVars, request>>

ReadDown(t) ==
    /\ At(t, "r_down")
    /\ \/ Down(t) /\ UNCHANGED <<inode_lock_read_at, pc>>
       \/ /\ inode_sema.value > 0
          /\ inode_sema' = SemaTake(inode_sema)
          /\ inode_lock_read_at' = NoThread
          /\ Goto(t, "reading")
          /\ UNCHANGED blocked
    /\ UNCHANGED <<how_many_readers, copyVars, request>>

\* One transfer, through the bounce buffer or not.
ReadChunk(t) ==
    /\ At(t, "reading")
    /\ size(t) > 0 /\ chunk_size(t) > 0
    /\ buffer' = [buffer EXCEPT ![t] =
                    @ \o [i \in 1..chunk_size(t) |-> data[offset(t) + i - 1]]]
    /\ done' = [done EXCEPT ![t] = @ + chunk_size(t)]
    /\ UNCHANGED <<syncVars, data, bounce, before, pc, request>>

ReadEnd(t) ==
    /\ At(t, "reading")
    /\ Finished(t)
    /\ Goto(t, "r_leave")
    /\ UNCHANGED <<syncVars, copyVars, request>>

\* Mutant: the last reader does not return the semaphore.
ReadLeave_Never(t) ==
    /\ At(t, "r_leave")
    /\ inode_lock_read_at = NoThread
    /\ how_many_readers' = how_many_readers - 1
    /\ Return(t)
    /\ UNCHANGED <<inode_sema, blocked, inode_lock_read_at>>

\* The last reader out returns the semaphore.
ReadLeave(t) ==
    /\ At(t, "r_leave")
    /\ inode_lock_read_at = NoThread
    /\ how_many_readers' = how_many_readers - 1
    /\ IF how_many_readers = 1
       THEN /\ inode_sema' = SemaUp(inode_sema)
            /\ blocked' = blocked \ SemaWoken(inode_sema)
       ELSE UNCHANGED <<inode_sema, blocked>>
    /\ Return(t)
    /\ UNCHANGED inode_lock_read_at

(* inode_write_at                                                          *)

WriteDown(t) ==
    /\ At(t, "w_down")
    /\ \/ Down(t) /\ UNCHANGED <<before, pc>>
       \/ /\ inode_sema.value > 0
          /\ inode_sema' = SemaTake(inode_sema)
          /\ before' = data
          /\ Goto(t, "writing")
          /\ UNCHANGED blocked
    /\ UNCHANGED <<how_many_readers, inode_lock_read_at, data, done, buffer,
                   bounce, request>>

\* A full sector is written from the caller's buffer.
WriteFull(t) ==
    /\ At(t, "writing")
    /\ size(t) > 0 /\ Full(t)
    /\ data' = [i \in Position |->
                  IF i \in Chunk(t) THEN request[t].byte ELSE data[i]]
    /\ done' = [done EXCEPT ![t] = @ + chunk_size(t)]
    /\ UNCHANGED <<syncVars, buffer, bounce, before, pc, request>>

\* A part of a sector: the sector is read and changed in the bounce buffer ...
WriteFetch(t) ==
    /\ At(t, "writing")
    /\ size(t) > 0 /\ chunk_size(t) > 0 /\ ~Full(t)
    /\ bounce' = [bounce EXCEPT ![t] =
                    [i \in Position |-> IF i \in Chunk(t) THEN request[t].byte
                                        ELSE data[i]]]
    /\ Goto(t, "w_back")
    /\ UNCHANGED <<syncVars, data, done, buffer, before, request>>

\* ... and written back.
WriteBack(t) ==
    /\ At(t, "w_back")
    /\ data' = [i \in Position |-> IF i \in Sector(t) THEN bounce[t][i] ELSE data[i]]
    /\ done' = [done EXCEPT ![t] = @ + chunk_size(t)]
    /\ Goto(t, "writing")
    /\ UNCHANGED <<syncVars, buffer, bounce, before, request>>

WriteEnd(t) ==
    /\ At(t, "writing")
    /\ Finished(t)
    /\ Goto(t, "w_up")
    /\ UNCHANGED <<syncVars, copyVars, request>>

WriteUp(t) ==
    /\ At(t, "w_up")
    /\ inode_sema' = SemaUp(inode_sema)
    /\ blocked' = blocked \ SemaWoken(inode_sema)
    /\ Return(t)
    /\ UNCHANGED <<how_many_readers, inode_lock_read_at>>

-----------------------------------------------------------------------------
Step(t) ==
    \/ ReadEnter(t) \/ ReadDown(t) \/ ReadChunk(t) \/ ReadEnd(t) \/ ReadLeave(t)
    \/ WriteDown(t) \/ WriteFull(t) \/ WriteFetch(t) \/ WriteBack(t)
    \/ WriteEnd(t) \/ WriteUp(t)

Next == \E t \in Thread : Call(t) \/ Step(t)

Spec == Init /\ [][Next]_vars

\* The scheduler is fair; programs need not call anything.
FairSpec == Spec /\ \A t \in Thread : WF_vars(Step(t))
=============================================================================

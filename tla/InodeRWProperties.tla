------------------------- MODULE InodeRWProperties -------------------------
(***************************************************************************)
(* What the readers and writers of an inode are promised, over InodeRW.    *)
(***************************************************************************)
EXTENDS InodeRW

Reading == {t \in Thread : pc[t] \in {"reading", "r_leave"}}
Writing == {t \in Thread : pc[t] \in {"writing", "w_back", "w_up"}}

\* inode_sema keeps a writer apart from every reader and every other writer,
\* whichever reader came first and whichever leaves last.
Exclusive ==
    \A w \in Writing : Reading = {} /\ Writing = {w}

\* The lock of the count is held across sema_down only by a first reader, when
\* nobody is inside who would need the lock to leave.
LockOnlyWhenEmpty ==
    inode_lock_read_at # NoThread =>
        Reading = {} /\ how_many_readers = 1

-----------------------------------------------------------------------------
\* When programs stop calling, every operation returns: nobody is left waiting
\* for the semaphore or for the lock.
OperationsReturn ==
    <>[][\A t \in Thread : ~Call(t)]_vars
      => <>[](\A t \in Thread : pc[t] = "idle")

-----------------------------------------------------------------------------
\* The file as it appears: a write is not there before its last transfer.
File == INSTANCE AtomicFile WITH
    MayStop <- MallocFails,
    content <- IF \E t \in Thread : pc[t] \in {"writing", "w_back"}
               THEN before ELSE data,
    state   <- [t \in Thread |->
                  CASE pc[t] = "idle" -> "idle"
                    [] pc[t] \in {"r_leave", "w_up"} -> "done"
                    [] OTHER -> "pending"],
    asked   <- request,
    count   <- [t \in Thread |-> IF pc[t] \in {"r_leave", "w_up"} THEN done[t]
                                 ELSE 0],
    got     <- [t \in Thread |-> IF pc[t] = "r_leave" THEN buffer[t] ELSE <<>>]

\* Reads and writes are atomic: ReadEnd and WriteEnd are the moments at which
\* they take effect.
ImplementsAtomicFile == File!FileSpec
=============================================================================

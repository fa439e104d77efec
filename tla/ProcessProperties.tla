------------------------- MODULE ProcessProperties -------------------------
(***************************************************************************)
(* What the process system promises, stated over Process.                  *)
(***************************************************************************)
EXTENDS Process

\* t is a process: start_process has put it in the list, and process_cleanup
\* has not yet removed it.
Registered(t) ==
    /\ t # Main
    /\ success[t]
    /\ pc[t] \notin LoadPC \cup {"dead"}

\* c was a process and has exited, and its parent can still ask for its status.
Awaited(c) ==
    /\ success[c]
    /\ pc[c] = "dead"
    /\ c \notin Reaped
    /\ parent[c] # Main
    /\ pc[parent[c]] # "dead"

\* The entry that thread t points to outside p_list_lock.
Holds(t, s) ==
    /\ pc[t] \in {"wait_down", "wait_read", "wait_free", "print"}
    /\ position[t] = s

\* parameters_to_start_process lives on the stack of process_execute, "LOCAL
\* variable will cease existence when function return!": as long as the child
\* may touch it, its parent is inside process_execute for that very child.
ArgumentsInUse ==
    \A c \in Process : pc[c] \in StartPC =>
        /\ pc[parent[c]] = "exec_down"
        /\ child[parent[c]] = c

\* process_execute returns when start_process has decided, and returns the id
\* of the child exactly when the child was loaded and entered in the list; a
\* child that failed never shows up in the list.
ExecuteTellsTruth ==
    /\ \A p \in Thread : pc[p] = "exec_return" =>
         /\ pc[child[p]] \notin StartPC
         /\ arguments[p].success = success[child[p]]
    /\ \A c \in Process : ~success[c] => NotListed(c)

\* An entry lives as long as somebody needs it.  A process keeps one entry, its own,
\* for as long as it runs: marked in use and alive, with its parent's id.
LiveKeepsEntry ==
    \A t \in Process : Registered(t) =>
        /\ ~NotListed(t)
        /\ \A s \in Slot : list[s].id = t =>
             /\ ~list[s].free /\ list[s].alive
             /\ list[s].parent_id = parent[t]

\* The entry of a process that has exited is kept, with the status it exited
\* with, until its living parent has asked for it; and the parent's sema_down
\* will not block.
ZombieKept ==
    \A c \in Process : Awaited(c) =>
        \E s \in Slot :
          /\ list[s].id = c
          /\ ~list[s].free /\ ~list[s].alive
          /\ list[s].exit_status = exit_arg[c]
          /\ \/ list[s].p_sema.value = 1
             \/ /\ pc[parent[c]] \in {"wait_read", "wait_free"}
                /\ child[parent[c]] = c

\* No entry leaks: an entry in use belongs to a process, to one that is being
\* entered, or to one whose parent can still ask for its status.  When all
\* processes are gone, every entry is free again.
NoEntryLeaks ==
    \A s \in Slot : ~list[s].free =>
        \/ Registered(list[s].id)
        \/ pc[list[s].id] \in {"fill", "sema"}
        \/ Awaited(list[s].id)

EntriesKept == LiveKeepsEntry /\ ZombieKept /\ NoEntryLeaks

\* A pointer into the list that is used after p_list_lock was released, or
\* without taking it, still points to the entry it was obtained for.
PointersCurrent ==
    \A t \in Thread, s \in Slot : Holds(t, s) =>
        list[s].id = IF pc[t] = "print" THEN t ELSE child[t]

\* What process_wait tells a parent about its child is the status the child
\* exited with, -1 if it was killed, and by then the child has printed it.
StatusDelivered ==
    \A c \in Process : answers[c] # {} =>
        /\ answers[c] = {exit_arg[c]}
        /\ printed[c] = {exit_arg[c]}
        /\ pc[c] = "dead"

-----------------------------------------------------------------------------
\* process_execute returns, whatever becomes of the child.
ExecuteReturns ==
    \A p \in Thread : pc[p] = "exec_down" ~> pc[p] \in {"user", "find"}

\* A process that has begun to exit is gone eventually.
ExitCompletes ==
    \A t \in Process : pc[t] \in ExitPC ~> pc[t] = "dead"

\* A parent that waits for a child that exits is told its status.
WaitReturns ==
    \A p \in Thread, c \in Process :
        (pc[p] = "wait_down" /\ child[p] = c /\ c \in Children(p)
           /\ pc[c] \in ExitPC \cup {"dead"}) ~> answers[c] # {}

\* No call of the process system is stuck for want of a sema_up.
ProcessCallsReturn == ExecuteReturns /\ ExitCompletes /\ WaitReturns

-----------------------------------------------------------------------------
\* The life of each process as the list and the threads show it.  A process
\* that has exited is a zombie as long as its entry is kept; the entries of the
\* initial thread's children are not kept, so for them it is the answer.
LifeState(c) ==
    IF ~success[c] \/ pc[c] \in LoadPC \cup {"unborn"} THEN "none"
    ELSE IF pc[c] # "dead" THEN "running"
    ELSE IF IF parent[c] = Main THEN answers[c] = {}
            ELSE \E s \in Slot : list[s].id = c /\ ~list[s].free
         THEN "zombie" ELSE "gone"

Life == INSTANCE ProcessLife WITH
    Proc     <- Process,
    Root     <- Main,
    Code     <- Status \cup {-1},
    state    <- [c \in Process |-> LifeState(c)],
    parentOf <- [c \in Process |-> IF LifeState(c) = "none" THEN Main
                                   ELSE parent[c]],
    code     <- [c \in Process |-> IF LifeState(c) \in {"zombie", "gone"}
                                   THEN {exit_arg[c]} ELSE {}],
    told     <- [c \in Process |-> answers[c]]

\* The process system implements ProcessLife: putting the entry in order is
\* Start, plist_remove is Exit, freeing the entry in process_wait is Tell.
ImplementsLife == Life!LifeSpec

-----------------------------------------------------------------------------
\* process.c: "If `child_id' is invalid or if it was not a child of the calling
\* process, or if process_wait() has already been successfully called for the
\* given `child_id', return -1 immediately, without waiting."
OtherWaitReturns ==
    \A t \in blocked : pc[t] = "wait_down" => child[t] \in Children(t) \ Reaped
=============================================================================

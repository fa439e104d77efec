------------------------------- MODULE PList -------------------------------
(***************************************************************************)
(* The process list of userprog/plist.c: a fixed array of PLIST_SIZE       *)
(* entries and the lock p_list_lock.                                       *)
(*                                                                         *)
(* plist_insert, plist_find, plist_change_exit_status and plist_remove run *)
(* under p_list_lock; plist_process_exit_status_get takes no lock at all.  *)
(* What runs under the lock and is not seen half done by an unlocked       *)
(* reader is one operator.  plist_insert is seen half done, so it is kept  *)
(* in its steps: take the lock, look at one slot at a time, claim the      *)
(* slot, fill it, initialise its semaphore and release the lock.           *)
(***************************************************************************)
EXTENDS Integers, Sequences, Semaphore

CONSTANTS
    PLIST_SIZE,     \* number of entries (512 in plist.h)
    MaxTid          \* bound: the largest thread id that is ever handed out

Main == 1           \* the initial thread; it is never put in the list
Process == 3..MaxTid    \* thread 2 is the idle thread
Thread == {Main} \cup Process
NoThread == 0       \* a lock nobody holds, an entry never used
TID_ERROR == -1

Slot == 0..PLIST_SIZE - 1

ASSUME PListAssumption ==
    /\ PLIST_SIZE \in Nat \ {0}
    /\ MaxTid \in Nat /\ MaxTid >= 3

VARIABLES
    list,           \* p_list.list
    p_list_lock     \* the thread that holds p_list_lock, or NoThread

plistVars == <<list, p_list_lock>>

\* struct plist_info.  ready says whether p_sema has been initialised: an
\* entry that was never used still has the zeroes of the BSS in it.
Entry == [id : Process \cup {NoThread}, parent_id : Thread \cup {NoThread},
          free : BOOLEAN, alive : BOOLEAN, parent_alive : BOOLEAN,
          exit_status : Int, p_sema : SemaOf(Thread), ready : BOOLEAN]

PListTypeOK ==
    /\ list \in [Slot -> Entry]
    /\ p_list_lock \in Thread \cup {NoThread}

\* plist_init on the zeroed array: it only sets free.
plist_init ==
    /\ list = [s \in Slot |->
                 [id |-> NoThread, parent_id |-> NoThread,
                  free |-> TRUE, alive |-> FALSE, parent_alive |-> FALSE,
                  exit_status |-> 0, p_sema |-> sema_init(0), ready |-> FALSE]]
    /\ p_list_lock = NoThread

\* s is what plist_get_process finds: the first entry with that id, free or not.
IsProcess(s, id) ==
    /\ s \in Slot
    /\ list[s].id = id
    /\ \A r \in 0..s - 1 : list[r].id # id

NotListed(id) == \A s \in Slot : list[s].id # id

plist_check_if_parent_alive(id) ==
    \E s \in Slot : IsProcess(s, id) /\ list[s].alive

LockFree == p_list_lock = NoThread

\* plist_insert: the slot is taken for t ...
ClaimSlot(s, t) ==
    list' = [list EXCEPT ![s].free = FALSE, ![s].alive = TRUE, ![s].id = t]

\* ... then the rest of the entry is filled in ...
FillSlot(s, parent_id) ==
    list' = [list EXCEPT
               ![s].parent_id = parent_id,
               ![s].parent_alive = plist_check_if_parent_alive(parent_id),
               ![s].exit_status = -1]

\* ... and its semaphore is reset, forgetting whoever waited on the old one.
InitSlotSema(s) ==
    list' = [list EXCEPT ![s].p_sema = sema_init(0), ![s].ready = TRUE]

\* Mutant: the semaphore is raised here, before the status has been printed.
plist_change_exit_status_Up(id, status) ==
    \E s \in Slot : /\ IsProcess(s, id)
                    /\ list' = [list EXCEPT ![s].exit_status = status,
                                            ![s].p_sema = SemaUp(@)]

plist_change_exit_status(id, status) ==
    \/ /\ NotListed(id)
       /\ list' = list
    \/ \E s \in Slot : /\ IsProcess(s, id)
                       /\ list' = [list EXCEPT ![s].exit_status = status]

\* Mutant: the entries of dead children are kept.
plist_kill_children_Keeps(tbl, parent_id) ==
    [s \in Slot |-> IF tbl[s].parent_id = parent_id
                    THEN [tbl[s] EXCEPT !.parent_alive = FALSE] ELSE tbl[s]]

\* plist_kill_children: the entries of the children of parent_id in tbl.
plist_kill_children(tbl, parent_id) ==
    [s \in Slot |->
       IF tbl[s].parent_id = parent_id
       THEN [tbl[s] EXCEPT !.parent_alive = FALSE,
                           !.free = @ \/ ~tbl[s].alive]
       ELSE tbl[s]]

\* Mutants: the entry is freed whether or not the parent is alive, or the
\* semaphore is not raised.
RemoveEntry_Frees(s) ==
    list' = [plist_kill_children([list EXCEPT ![s].alive = FALSE], list[s].id)
               EXCEPT ![s].free = TRUE, ![s].p_sema = SemaUp(@)]
RemoveEntry_NoUp(s) ==
    list' = plist_kill_children([list EXCEPT ![s].alive = FALSE], list[s].id)

\* plist_remove of the entry s: the process is no longer alive, its entry is
\* free unless its parent is alive, its dead children are freed, and the
\* semaphore its parent may wait on is raised.
RemoveEntry(s) ==
    LET dead == [list EXCEPT ![s].alive = FALSE]
        kept == \E r \in Slot : IsProcess(r, list[s].parent_id) /\ dead[r].alive
        freed == [dead EXCEPT ![s].free = @ \/ ~kept]
    IN  list' = [plist_kill_children(freed, list[s].id)
                   EXCEPT ![s].p_sema = SemaUp(@)]
=============================================================================

------------------------------ MODULE Process ------------------------------
(***************************************************************************)
(* The life of a process: process_execute and start_process, process_exit, *)
(* kill and process_cleanup, process_wait (userprog/process.c), over the   *)
(* process list, driven by user programs that make system calls in any     *)
(* order and by run_task of the initial thread (threads/init.c).           *)
(*                                                                         *)
(* Each thread runs the code between two places where another thread can   *)
(* observe or disturb it as one action.  pc[t] is where thread t is; a     *)
(* thread in blocked is THREAD_BLOCKED in a sema_down and cannot step.     *)
(***************************************************************************)
EXTENDS PList

CONSTANTS
    Status,         \* the values programs pass to exit
    WaitPolicy,     \* what programs wait for: "once" for each child, or "any" id
    InitStays       \* TRUE: a program run by the initial thread outlives all
                    \* others, as a shell that waits for its jobs does

ASSUME ProcessAssumption ==
    /\ Status \subseteq Int
    /\ WaitPolicy \in {"once", "any"}
    /\ InitStays \in BOOLEAN

VARIABLES
    pc, blocked,    \* where each thread is; the threads blocked in sema_down
    next_tid,       \* allocate_tid's counter
    parent,         \* parent[c] called process_execute for c
    success,        \* local success of start_process(c)
    child,          \* process_execute's thread_id, process_wait's child_id
    position,       \* plist_insert's w_position, and the entry pointer held
    arguments,      \* the struct parameters_to_start_process on p's stack
    exit_arg,       \* exit's argument; -1 if the process never called exit
    seen,           \* local exit_status of plist_process_exit_status_get
    printed,        \* the statuses in the "name: exit(n)" lines printed for c
    answers         \* what process_wait(c) has returned to c's own parent

callVars == <<parent, success, child, arguments>>
exitVars == <<exit_arg, printed>>
waitVars == <<seen, answers>>
vars == <<plistVars, pc, blocked, next_tid, position,
          callVars, exitVars, waitVars>>

LoadPC == {"load", "insert", "scan", "fill", "sema"}    \* in start_process
StartPC == LoadPC \cup {"report", "raise"}              \* before its sema_up
WaitPC == {"find", "wait_down", "wait_read", "wait_free"}
ExitPC == {"set_status", "cleanup", "print", "remove"}
AllPC == {"unborn", "user", "exec_down", "exec_return", "dead", "panic"}
           \cup StartPC \cup WaitPC \cup ExitPC

ProcessTypeOK ==
    /\ PListTypeOK
    /\ pc \in [Thread -> AllPC]
    /\ blocked \subseteq Thread
    /\ next_tid \in 3..MaxTid + 1
    /\ parent \in [Thread -> Thread \cup {NoThread}]
    /\ success \in [Thread -> BOOLEAN]
    /\ child \in [Thread -> Int]
    /\ position \in [Thread -> 0..PLIST_SIZE]
    /\ arguments \in [Thread -> [success : BOOLEAN, sema : SemaOf(Thread)]]
    /\ exit_arg \in [Thread -> Int]
    /\ seen \in [Thread -> Int]
    /\ printed \in [Thread -> SUBSET Int]
    /\ answers \in [Thread -> SUBSET Int]

Init ==
    /\ plist_init
    /\ pc = [t \in Thread |-> IF t = Main THEN "user" ELSE "unborn"]
    /\ blocked = {}
    /\ next_tid = 3
    /\ parent = [t \in Thread |-> NoThread]
    /\ success = [t \in Thread |-> FALSE]
    /\ child = [t \in Thread |-> TID_ERROR]
    /\ position = [t \in Thread |-> 0]
    /\ arguments = [t \in Thread |-> [success |-> FALSE, sema |-> sema_init(0)]]
    /\ exit_arg = [t \in Thread |-> -1]
    /\ seen = [t \in Thread |-> -1]
    /\ printed = [t \in Thread |-> {}]
    /\ answers = [t \in Thread |-> {}]

-----------------------------------------------------------------------------
\* After a PANIC nothing runs.
Panicked == \E t \in Thread : pc[t] = "panic"

\* t can run at this place and goes on to the next one.
At(t, here) == pc[t] = here /\ t \notin blocked /\ ~Panicked
Goto(t, there) == pc' = [pc EXCEPT ![t] = there]

\* A program's children as the program knows them: what exec returned.
Children(p) == {c \in Process : parent[c] = p /\ success[c]}
Reaped == {c \in Process : answers[c] # {}}

\* Where the caller of process_execute goes with its result: run_task waits
\* for it at once, a program continues.
AfterExecute(p) == IF p = Main THEN "find" ELSE "user"

(* process_execute and start_process.                                      *)

\* thread_create fails (no page, or the simulated failure): -1.
ExecuteFails(p) ==
    /\ At(p, "user")
    /\ child' = [child EXCEPT ![p] = TID_ERROR]
    /\ Goto(p, AfterExecute(p))
    /\ UNCHANGED <<plistVars, blocked, next_tid, position, parent, success,
                   arguments, exitVars, waitVars>>

\* Mutant: the semaphore starts with one unit, so p does not wait.
Execute_NoWait(p) ==
    /\ At(p, "user")
    /\ next_tid \in Process
    /\ arguments' = [arguments EXCEPT
                       ![p] = [success |-> FALSE, sema |-> sema_init(1)]]
    /\ child' = [child EXCEPT ![p] = next_tid]
    /\ parent' = [parent EXCEPT ![next_tid] = p]
    /\ pc' = [pc EXCEPT ![p] = "exec_down", ![next_tid] = "load"]
    /\ next_tid' = next_tid + 1
    /\ UNCHANGED <<plistVars, blocked, position, success, exitVars, waitVars>>

\* The arguments are set up on p's stack and the new thread is made ready.
Execute(p) ==
    /\ At(p, "user")
    /\ next_tid \in Process
    /\ arguments' = [arguments EXCEPT
                       ![p] = [success |-> FALSE, sema |-> sema_init(0)]]
    /\ child' = [child EXCEPT ![p] = next_tid]
    /\ parent' = [parent EXCEPT ![next_tid] = p]
    /\ pc' = [pc EXCEPT ![p] = "exec_down", ![next_tid] = "load"]
    /\ next_tid' = next_tid + 1
    /\ UNCHANGED <<plistVars, blocked, position, success, exitVars, waitVars>>

\* load and setup_main_stack; load may fail for several reasons.
Load(t) ==
    /\ At(t, "load")
    /\ \E ok \in BOOLEAN :
         /\ success' = [success EXCEPT ![t] = ok]
         /\ Goto(t, IF ok THEN "insert" ELSE "report")
    /\ UNCHANGED <<plistVars, blocked, next_tid, position, parent, child,
                   arguments, exitVars, waitVars>>

InsertLock(t) ==
    /\ At(t, "insert")
    /\ LockFree
    /\ p_list_lock' = t
    /\ position' = [position EXCEPT ![t] = 0]
    /\ Goto(t, "scan")
    /\ UNCHANGED <<list, blocked, next_tid, callVars, exitVars, waitVars>>

\* Mutant: the first slot is taken without looking whether it is free.
InsertScan_Takes(t) ==
    /\ At(t, "scan")
    /\ ClaimSlot(position[t], t)
    /\ Goto(t, "fill")
    /\ UNCHANGED <<p_list_lock, position, blocked, next_tid, callVars, exitVars,
                   waitVars>>

\* One round of plist_insert's loop: the slot is taken, or passed over.
InsertScan(t) ==
    /\ At(t, "scan")
    /\ position[t] \in Slot
    /\ \/ /\ list[position[t]].free
          /\ ClaimSlot(position[t], t)
          /\ Goto(t, "fill")
          /\ UNCHANGED position
       \/ /\ ~list[position[t]].free
          /\ position' = [position EXCEPT ![t] = @ + 1]
          /\ UNCHANGED <<list, pc>>
    /\ UNCHANGED <<p_list_lock, blocked, next_tid, callVars, exitVars, waitVars>>

\* The end of the array: plist_insert returns -1 and the start has failed.
InsertFull(t) ==
    /\ At(t, "scan")
    /\ position[t] \notin Slot
    /\ p_list_lock' = NoThread
    /\ success' = [success EXCEPT ![t] = FALSE]
    /\ Goto(t, "report")
    /\ UNCHANGED <<list, blocked, next_tid, position, parent, child, arguments,
                   exitVars, waitVars>>

InsertFill(t) ==
    /\ At(t, "fill")
    /\ FillSlot(position[t], parent[t])
    /\ Goto(t, "sema")
    /\ UNCHANGED <<p_list_lock, blocked, next_tid, position, callVars,
                   exitVars, waitVars>>

InsertSema(t) ==
    /\ At(t, "sema")
    /\ InitSlotSema(position[t])
    /\ p_list_lock' = NoThread
    /\ Goto(t, "report")
    /\ UNCHANGED <<blocked, next_tid, position, callVars, exitVars, waitVars>>

\* Mutant: success is reported whatever happened.
Report_Always(t) ==
    /\ At(t, "report")
    /\ arguments' = [arguments EXCEPT ![parent[t]].success = TRUE]
    /\ Goto(t, "raise")
    /\ UNCHANGED <<plistVars, blocked, next_tid, position, parent, success,
                   child, exitVars, waitVars>>

\* parameters->success = success, through the pointer into the parent's stack.
Report(t) ==
    /\ At(t, "report")
    /\ arguments' = [arguments EXCEPT ![parent[t]].success = success[t]]
    /\ Goto(t, "raise")
    /\ UNCHANGED <<plistVars, blocked, next_tid, position, parent, success,
                   child, exitVars, waitVars>>

\* Mutant: a failed start exits before it raises the semaphore.
Raise_ExitFirst(t) ==
    /\ At(t, "raise")
    /\ IF success[t]
       THEN /\ arguments' = [arguments EXCEPT ![parent[t]].sema = SemaUp(@)]
            /\ blocked' = blocked \ SemaWoken(arguments[parent[t]].sema)
            /\ Goto(t, "user")
       ELSE UNCHANGED <<arguments, blocked>> /\ Goto(t, "cleanup")
    /\ UNCHANGED <<plistVars, next_tid, position, parent, success, child,
                   exitVars, waitVars>>

\* sema_up(&parameters->sema); a failed start goes on to thread_exit.
Raise(t) ==
    /\ At(t, "raise")
    /\ arguments' = [arguments EXCEPT ![parent[t]].sema = SemaUp(@)]
    /\ blocked' = blocked \ SemaWoken(arguments[parent[t]].sema)
    /\ Goto(t, IF success[t] THEN "user" ELSE "cleanup")
    /\ UNCHANGED <<plistVars, next_tid, position, parent, success, child,
                   exitVars, waitVars>>

\* sema_down(&arguments.sema) in the parent.
ExecDown(p) ==
    /\ At(p, "exec_down")
    /\ \/ /\ arguments[p].sema.value = 0
          /\ arguments' = [arguments EXCEPT ![p].sema = SemaQueue(@, p)]
          /\ blocked' = blocked \cup {p}
          /\ UNCHANGED pc
       \/ /\ arguments[p].sema.value > 0
          /\ arguments' = [arguments EXCEPT ![p].sema = SemaTake(@)]
          /\ Goto(p, "exec_return")
          /\ UNCHANGED blocked
    /\ UNCHANGED <<plistVars, next_tid, position, parent, success, child,
                   exitVars, waitVars>>

\* The result is the child's id only if start_process reported success.
ExecReturn(p) ==
    /\ At(p, "exec_return")
    /\ child' = [child EXCEPT ![p] = IF arguments[p].success THEN @
                                     ELSE TID_ERROR]
    /\ Goto(p, AfterExecute(p))
    /\ UNCHANGED <<plistVars, blocked, next_tid, position, parent, success,
                   arguments, exitVars, waitVars>>

-----------------------------------------------------------------------------
(* process_wait: plist_process_exit_status_get, without any lock.          *)

\* The ids a program passes to wait, by the discipline it keeps to.  Id 0 and
\* the ids of threads not yet born are ids a program can make up.
WaitTargets(p) ==
    CASE WaitPolicy = "once" -> Children(p) \ Reaped
      [] WaitPolicy = "any"  -> (Process \cup {NoThread}) \ {p}

Wait(p) ==
    /\ At(p, "user")
    /\ p # Main
    /\ \E c \in WaitTargets(p) : child' = [child EXCEPT ![p] = c]
    /\ Goto(p, "find")
    /\ UNCHANGED <<plistVars, blocked, next_tid, position, parent, success,
                   arguments, exitVars, waitVars>>

\* process_wait returns v; answers keeps what a parent is told of its child.
Answer(p, v) ==
    answers' = [c \in Thread |-> IF c = child[p] /\ c \in Children(p)
                                 THEN answers[c] \cup {v} ELSE answers[c]]

\* No entry with this id: -1 at once.
WaitNotFound(p) ==
    /\ At(p, "find")
    /\ NotListed(child[p])
    /\ Answer(p, -1)
    /\ Goto(p, "user")
    /\ UNCHANGED <<plistVars, blocked, next_tid, position, callVars, exitVars,
                   seen>>

WaitFind(p) ==
    /\ At(p, "find")
    /\ \E s \in Slot : /\ IsProcess(s, child[p])
                       /\ position' = [position EXCEPT ![p] = s]
    /\ Goto(p, "wait_down")
    /\ UNCHANGED <<plistVars, blocked, next_tid, callVars, exitVars, waitVars>>

\* sema_down(&current->p_sema).  Queueing on a semaphore that was never
\* initialised trips the assertions of list_push_back: the kernel panics.
WaitDown(p) ==
    /\ At(p, "wait_down")
    /\ LET entry == list[position[p]] IN
       \/ /\ entry.p_sema.value = 0 /\ entry.ready
          /\ list' = [list EXCEPT ![position[p]].p_sema = SemaQueue(@, p)]
          /\ blocked' = blocked \cup {p}
          /\ UNCHANGED pc
       \/ /\ entry.p_sema.value = 0 /\ ~entry.ready
          /\ Goto(p, "panic")
          /\ UNCHANGED <<list, blocked>>
       \/ /\ entry.p_sema.value > 0
          /\ list' = [list EXCEPT ![position[p]].p_sema = SemaTake(@)]
          /\ Goto(p, "wait_read")
          /\ UNCHANGED blocked
    /\ UNCHANGED <<p_list_lock, next_tid, position, callVars, exitVars, waitVars>>

WaitRead(p) ==
    /\ At(p, "wait_read")
    /\ seen' = [seen EXCEPT ![p] = list[position[p]].exit_status]
    /\ Goto(p, "wait_free")
    /\ UNCHANGED <<plistVars, blocked, next_tid, position, callVars, exitVars,
                   answers>>

\* The entry is freed and the status returned.
WaitFree(p) ==
    /\ At(p, "wait_free")
    /\ list' = [list EXCEPT ![position[p]].free = TRUE]
    /\ Answer(p, seen[p])
    /\ Goto(p, "user")
    /\ UNCHANGED <<p_list_lock, blocked, next_tid, position, callVars, exitVars,
                   seen>>

-----------------------------------------------------------------------------
(* Exit, kill and process_cleanup.                                         *)

\* The assumption about the programs that InitStays stands for.
MayExit(t) ==
    InitStays /\ parent[t] = Main =>
      \A u \in Process \ {t} : pc[u] \in {"unborn", "dead"}

Exit(t) ==
    /\ At(t, "user")
    /\ t # Main
    /\ MayExit(t)
    /\ \E v \in Status : exit_arg' = [exit_arg EXCEPT ![t] = v]
    /\ Goto(t, "set_status")
    /\ UNCHANGED <<plistVars, blocked, next_tid, position, callVars, printed,
                   waitVars>>

\* thread_exit without a status: kill() after an exception, an unknown system
\* call, or the initial thread when it has run its actions.
Kill(t) ==
    /\ At(t, "user")
    /\ MayExit(t)
    /\ Goto(t, "cleanup")
    /\ UNCHANGED <<plistVars, blocked, next_tid, position, callVars, exitVars,
                   waitVars>>

SetStatus(t) ==
    /\ At(t, "set_status")
    /\ LockFree
    /\ plist_change_exit_status(t, exit_arg[t])
    /\ Goto(t, "cleanup")
    /\ UNCHANGED <<p_list_lock, blocked, next_tid, position, callVars, exitVars,
                   waitVars>>

\* plist_find under the lock; a thread that is not in the list prints -1.
CleanupFind(t) ==
    /\ At(t, "cleanup")
    /\ LockFree
    /\ \/ /\ NotListed(t)
          /\ printed' = [printed EXCEPT ![t] = @ \cup {-1}]
          /\ Goto(t, "remove")
          /\ UNCHANGED position
       \/ /\ \E s \in Slot : /\ IsProcess(s, t)
                             /\ position' = [position EXCEPT ![t] = s]
          /\ Goto(t, "print")
          /\ UNCHANGED printed
    /\ UNCHANGED <<plistVars, blocked, next_tid, callVars, exit_arg, waitVars>>

CleanupPrint(t) ==
    /\ At(t, "print")
    /\ printed' = [printed EXCEPT ![t] = @ \cup {list[position[t]].exit_status}]
    /\ Goto(t, "remove")
    /\ UNCHANGED <<plistVars, blocked, next_tid, position, callVars, exit_arg,
                   waitVars>>

\* plist_remove; the thread then releases its page directory and dies.
Remove(t) ==
    /\ At(t, "remove")
    /\ LockFree
    /\ \/ /\ NotListed(t)
          /\ UNCHANGED <<list, blocked>>
       \/ \E s \in Slot :
            /\ IsProcess(s, t)
            /\ RemoveEntry(s)
            /\ blocked' = blocked \ SemaWoken(list[s].p_sema)
    /\ Goto(t, "dead")
    /\ UNCHANGED <<p_list_lock, next_tid, position, callVars, exitVars, waitVars>>

-----------------------------------------------------------------------------
\* What a thread does inside the kernel, as opposed to what a program chooses.
KernelStep(t) ==
    \/ Load(t) \/ InsertLock(t) \/ InsertScan(t) \/ InsertFull(t)
    \/ InsertFill(t) \/ InsertSema(t) \/ Report(t) \/ Raise(t)
    \/ ExecDown(t) \/ ExecReturn(t)
    \/ WaitNotFound(t) \/ WaitFind(t) \/ WaitDown(t) \/ WaitRead(t) \/ WaitFree(t)
    \/ SetStatus(t) \/ CleanupFind(t) \/ CleanupPrint(t) \/ Remove(t)

ProgramStep(t) ==
    Execute(t) \/ ExecuteFails(t) \/ Wait(t) \/ Exit(t) \/ Kill(t)

\* Nothing is left to run, or the kernel has panicked.
Halted ==
    /\ Panicked \/ \A t \in Thread : pc[t] \in {"unborn", "dead"}
    /\ UNCHANGED vars

Next ==
    \/ \E t \in Thread : KernelStep(t) \/ ProgramStep(t)
    \/ Halted

Spec == Init /\ [][Next]_vars

\* The scheduler is round robin and preemptive, so a thread that can run does;
\* load returns.  Nothing is assumed of what programs choose to do.
FairSpec == Spec /\ \A t \in Thread : WF_vars(KernelStep(t))
=============================================================================

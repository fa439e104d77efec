----------------------------- MODULE Scheduler -----------------------------
(***************************************************************************)
(* Threads on the one processor: threads/thread.c with the locks and       *)
(* condition variables of synch.c, the dispatch of interrupts, the timer,  *)
(* the switching of page directories, power off, and two users of all      *)
(* that: the synchronised list and a channel of the disk driver.           *)
(*                                                                         *)
(* Only the current thread takes steps.  While interrupts are on (level)   *)
(* the timer or the disk may interrupt it between any two of them; what    *)
(* the code does with interrupts off, or where nobody could tell the       *)
(* difference, is one step.  pc[t] is where a thread is: a tuple whose     *)
(* first element names the place and whose last one, for calls, is the     *)
(* place to return to.                                                     *)
(***************************************************************************)
EXTENDS Semaphore, Integers, FiniteSets

CONSTANTS Thread,       \* all threads there may ever be
          Main, Idle,   \* initial_thread and the idle thread
          Nobody,       \* no thread, the null pointer
          Calls,        \* Calls[t]: what the program of thread t may call
          TimeSlice,    \* TIME_SLICE
          SleepTime,    \* ticks a call of timer_sleep asks for
          MaxItems,     \* bound: items in the synchronised list
          ForceOff      \* force_off_when_done

Locks == {"alive_lock", "sl_lock", "channel_lock"}
Conds == {"alive_cond", "sl_empty"}
CallNames == {"create", "append", "remove", "read", "write", "sleep", "load", "exit", "halt"}

ASSUME SchedulerAssumption ==
    /\ IsFiniteSet(Thread)
    /\ {Main, Idle} \subseteq Thread
    /\ Main # Idle
    /\ Thread \cap (Locks \cup {Nobody, "idle_started", "completion_wait"}) = {}
    /\ Calls \in [Thread -> SUBSET CallNames]
    /\ TimeSlice \in Nat \ {0}
    /\ SleepTime \in Nat
    /\ MaxItems \in Nat
    /\ ForceOff \in BOOLEAN

\* The semaphores: one in each lock, two of their own, and the one that each
\* thread has on its stack while it is in cond_wait.
SemaName == Locks \cup {"idle_started", "completion_wait"} \cup Thread

VARIABLES
    current,        \* the running thread
    level,          \* the interrupt level: "on" or "off"
    status,         \* status[t]; "none": there is no struct thread
    ready_list,     \* the run queue
    thread_ticks,   \* ticks since the last switch
    idle_thread,    \* set by the idle thread itself
    pc,             \* where each thread is
    sema,           \* all semaphores
    holder,         \* holder[l] of each lock
    waiters,        \* waiters[c] of each condition variable
    alive_count,    \* DEBUG_thread_alive_count
    pagedir,        \* pagedir[t]: t->pagedir is not null
    directories,    \* threads whose page directory is allocated
    cr3,            \* the thread whose page directory is active, or Nobody
    slept,          \* ticks since timer_sleep of t began
    items,          \* length of sl_list
    device,         \* what the disk is doing and for whom
    expecting,      \* expecting_interrupt of the channel
    power           \* "on", "preparing" or "off"

cpu     == <<current, level, status, ready_list, thread_ticks, cr3>>
sync    == <<sema, holder, waiters>>
space   == <<pagedir, directories>>
disk    == <<device, expecting>>
others  == <<idle_thread, alive_count, slept, items, power>>
vars    == <<cpu, pc, sync, space, disk, others>>

\* After thread_create("idle") in thread_start, before intr_enable.
Init ==
    /\ current = Main /\ level = "off"
    /\ status = [t \in Thread |-> CASE t = Main -> "running" [] t = Idle -> "ready"
                                    [] OTHER -> "none"]
    /\ ready_list = <<Idle>>
    /\ thread_ticks = 0
    /\ idle_thread = Nobody
    /\ pc = [t \in Thread |-> CASE t = Main -> <<"down", "idle_started", <<"run">>>>
                                [] t = Idle -> <<"idle">> [] OTHER -> <<"none">>]
    /\ sema = [s \in SemaName |-> sema_init(IF s \in Locks THEN 1 ELSE 0)]
    /\ holder = [l \in Locks |-> Nobody]
    /\ waiters = [c \in Conds |-> <<>>]
    /\ alive_count = 2
    /\ pagedir = [t \in Thread |-> FALSE]
    /\ directories = {} /\ cr3 = Nobody
    /\ slept = [t \in Thread |-> 0]
    /\ items = 0
    /\ device = [state |-> "idle", for |-> Nobody] /\ expecting = FALSE
    /\ power = "on"

\* Thread t is running, interrupts are on, and it is at place p.
At(t, p) == power # "off" /\ current = t /\ level = "on" /\ pc[t][1] = p
Goto(t, place) == pc' = [pc EXCEPT ![t] = place]

\* schedule and schedule_tail, once the running thread's status is in st and
\* the run queue is rl: a dying thread's page is freed by the next thread,
\* whose page directory is activated.
Schedule(st, rl) ==
    LET next == IF rl = <<>> THEN idle_thread ELSE Head(rl)
        gone == {t \in {current} : st[t] = "dying" /\ t # Main}
    IN  /\ current' = next
        /\ level' = "off"
        /\ status' = [t \in Thread |-> IF t = next THEN "running"
                                       ELSE IF t \in gone THEN "none" ELSE st[t]]
        /\ ready_list' = IF rl = <<>> THEN rl ELSE Tail(rl)
        /\ thread_ticks' = 0
        /\ cr3' = IF next # Nobody /\ pagedir[next] THEN next ELSE Nobody

Block(t) == Schedule([status EXCEPT ![t] = "blocked"], ready_list)

\* Mutants: the idle thread enters the run queue; the thread enters at its front.
Yield_Idle(t) == Schedule([status EXCEPT ![t] = "ready"], Append(ready_list, t))
Yield_Front(t) ==
    Schedule([status EXCEPT ![t] = "ready"],
             IF t = idle_thread \/ ready_list = <<>> THEN Append(ready_list, t)
             ELSE <<Head(ready_list), t>> \o Tail(ready_list))

\* thread_yield; the idle thread never enters the run queue.
Yield(t) == Schedule([status EXCEPT ![t] = "ready"],
                     IF t = idle_thread THEN ready_list ELSE Append(ready_list, t))

\* thread_unblock of the threads in woken, a set of at most one.
Unblock(woken) ==
    /\ status' = [t \in Thread |-> IF t \in woken THEN "ready" ELSE status[t]]
    /\ ready_list' = IF woken = {} THEN ready_list
                     ELSE Append(ready_list, CHOOSE t \in woken : TRUE)
    /\ UNCHANGED <<current, level, thread_ticks, cr3>>

\* sema_up(s) when the semaphores are sm.
Up(s, sm) == /\ sema' = [sm EXCEPT ![s] = SemaUp(@)]
             /\ Unblock(SemaWoken(sm[s]))

\* The thread switched to enables interrupts on its way out of thread_yield, or
\* in kernel_thread.  Inside the loop of sema_down they stay off.
EnableInterrupts(t) ==
    /\ power # "off" /\ current = t /\ level = "off" /\ pc[t][1] # "wait"
    /\ level' = "on"
    /\ UNCHANGED <<current, status, ready_list, thread_ticks, cr3, pc, sync, space, disk, others>>

-----------------------------------------------------------------------------
(* Interrupts                                                              *)

\* What an interrupt does to a thread that halts the processor: it goes on.
Resumed == IF pc[current] = <<"hlt">> THEN [pc EXCEPT ![current] = <<"block">>] ELSE pc

\* timer_interrupt and the end of intr_handler, which yields if thread_tick
\* asked for it.
Tick ==
    /\ power # "off" /\ level = "on"
    /\ slept' = [t \in Thread |-> IF slept[t] < SleepTime THEN slept[t] + 1 ELSE slept[t]]
    /\ pc' = Resumed
    /\ IF thread_ticks + 1 >= TimeSlice
       THEN Yield(current)
       ELSE /\ thread_ticks' = thread_ticks + 1
            /\ UNCHANGED <<current, level, status, ready_list, cr3>>
    /\ UNCHANGED <<sync, space, disk, idle_thread, alive_count, items, power>>

\* The disk has done what it was asked for: interrupt_handler of disk.c.
DiskInterrupt ==
    /\ power # "off" /\ level = "on" /\ device.state = "busy"
    /\ device' = [device EXCEPT !.state = "done"]
    /\ pc' = Resumed
    /\ IF expecting THEN Up("completion_wait", sema) ELSE UNCHANGED <<cpu, sema>>
    /\ UNCHANGED <<holder, waiters, space, expecting, others>>

-----------------------------------------------------------------------------
(* Semaphores, locks and condition variables                               *)

Acquire(l, place) == <<"down", l, place>>
Release(l, place) == <<"up", l, place>>

\* Taking a unit of s; a lock is then held by t.
Take(t, s) ==
    /\ sema' = [sema EXCEPT ![s] = SemaTake(@)]
    /\ holder' = IF s \in Locks THEN [holder EXCEPT ![s] = t] ELSE holder
    /\ Goto(t, pc[t][3])

\* sema_down, and lock_acquire, by a thread that finds a unit or queues itself.
Down(t) ==
    LET s == pc[t][2]
    IN  /\ At(t, "down")
        /\ IF sema[s].value > 0
           THEN Take(t, s) /\ UNCHANGED cpu
           ELSE /\ sema' = [sema EXCEPT ![s] = SemaQueue(@, t)]
                /\ Goto(t, <<"wait", s, pc[t][3]>>)
                /\ Block(t)
                /\ UNCHANGED holder
        /\ UNCHANGED <<waiters, space, disk, others>>

\* Mutant: a woken thread does not test the value again.
Wait_NoTest(t) ==
    /\ power # "off" /\ current = t /\ pc[t][1] = "wait"
    /\ Take(t, pc[t][2]) /\ level' = "on"
    /\ UNCHANGED <<current, status, ready_list, thread_ticks, cr3, waiters, space, disk, others>>

\* The loop of sema_down once the thread runs again, with interrupts off.
Wait(t) ==
    LET s == pc[t][2]
    IN  /\ power # "off" /\ current = t /\ pc[t][1] = "wait"
        /\ IF sema[s].value > 0
           THEN /\ Take(t, s) /\ level' = "on"
                /\ UNCHANGED <<current, status, ready_list, thread_ticks, cr3>>
           ELSE /\ sema' = [sema EXCEPT ![s] = SemaQueue(@, t)]
                /\ Block(t)
                /\ UNCHANGED <<holder, pc>>
        /\ UNCHANGED <<waiters, space, disk, others>>

\* lock_release.
LockRelease(t) ==
    LET l == pc[t][2]
    IN  /\ At(t, "up")
        /\ holder' = [holder EXCEPT ![l] = Nobody]
        /\ Up(l, sema)
        /\ Goto(t, pc[t][3])
        /\ UNCHANGED <<waiters, space, disk, others>>

\* cond_wait up to the release of the lock: t will wait for its own semaphore,
\* then for the lock, and go on at place.
CondWait(t, c, l, place) ==
    /\ sema' = [sema EXCEPT ![t] = sema_init(0)]
    /\ waiters' = [waiters EXCEPT ![c] = Append(@, t)]
    /\ Goto(t, Release(l, <<"down", t, Acquire(l, place)>>))
    /\ UNCHANGED cpu

\* cond_signal: the longest waiting thread's semaphore is upped.
CondSignal(c) ==
    IF waiters[c] = <<>>
    THEN UNCHANGED <<cpu, sema, waiters>>
    ELSE /\ Up(Head(waiters[c]), sema)
         /\ waiters' = [waiters EXCEPT ![c] = Tail(@)]

-----------------------------------------------------------------------------
(* The idle thread                                                         *)

IdleStart ==
    /\ At(Idle, "idle")
    /\ idle_thread' = Idle
    /\ Up("idle_started", sema)
    /\ Goto(Idle, <<"block">>)
    /\ UNCHANGED <<holder, waiters, space, disk, alive_count, slept, items, power>>

\* intr_disable and thread_block.  Interrupts are enabled again in the same
\* instant as the processor halts (sti; hlt), so the thread is next at "hlt".
IdleBlock ==
    /\ At(Idle, "block")
    /\ Block(Idle)
    /\ Goto(Idle, <<"hlt">>)
    /\ UNCHANGED <<sync, space, disk, others>>

-----------------------------------------------------------------------------
(* Creating and ending threads                                             *)

Call(t, name) == At(t, "run") /\ name \in Calls[t]

\* thread_create up to DEBUG_thread_count_up: a page for struct thread.  It may
\* also fail, and then changes nothing.
Create(t, c) ==
    /\ Call(t, "create")
    /\ status[c] = "none"
    /\ status' = [status EXCEPT ![c] = "blocked"]
    /\ pc' = [pc EXCEPT ![c] = <<"run">>, ![t] = Acquire("alive_lock", <<"count_up", c>>)]
    /\ UNCHANGED <<current, level, ready_list, thread_ticks, cr3, sync, space, disk, others>>

CountUp(t) ==
    /\ At(t, "count_up")
    /\ alive_count' = alive_count + 1
    /\ Goto(t, Release("alive_lock", <<"unblock", pc[t][2]>>))
    /\ UNCHANGED <<cpu, sync, space, disk, idle_thread, slept, items, power>>

UnblockNew(t) ==
    /\ At(t, "unblock")
    /\ Unblock({pc[t][2]})
    /\ Goto(t, <<"run">>)
    /\ UNCHANGED <<sync, space, disk, others>>

\* thread_exit.
Exit(t) ==
    /\ Call(t, "exit")
    /\ Goto(t, Acquire("alive_lock", <<"count_down">>))
    /\ UNCHANGED <<cpu, sync, space, disk, others>>

CountDown(t) ==
    /\ At(t, "count_down")
    /\ alive_count' = alive_count - 1
    /\ CondSignal("alive_cond")
    /\ Goto(t, Release("alive_lock", <<"cleanup">>))
    /\ UNCHANGED <<holder, space, disk, idle_thread, slept, items, power>>

\* Mutant: the pointer in struct thread is not cleared.
Cleanup_KeepsPointer(t) ==
    /\ At(t, "cleanup")
    /\ Goto(t, IF pagedir[t] THEN <<"deactivate">> ELSE <<"die">>)
    /\ UNCHANGED <<cpu, sync, space, disk, others>>

\* process_cleanup, as far as it is about the page directory: pagedir is cleared,
\* then the base directory activated, then the directory destroyed.
Cleanup(t) ==
    /\ At(t, "cleanup")
    /\ pagedir' = [pagedir EXCEPT ![t] = FALSE]
    /\ Goto(t, IF pagedir[t] THEN <<"deactivate">> ELSE <<"die">>)
    /\ UNCHANGED <<cpu, sync, directories, disk, others>>

Deactivate(t) ==
    /\ At(t, "deactivate")
    /\ cr3' = Nobody
    /\ Goto(t, <<"destroy">>)
    /\ UNCHANGED <<current, level, status, ready_list, thread_ticks, sync, space, disk, others>>

Destroy(t) ==
    /\ At(t, "destroy")
    /\ directories' = directories \ {t}
    /\ Goto(t, <<"die">>)
    /\ UNCHANGED <<cpu, sync, pagedir, disk, others>>

Die(t) ==
    /\ At(t, "die")
    /\ Schedule([status EXCEPT ![t] = "dying"], ready_list)
    /\ Goto(t, <<"none">>)
    /\ UNCHANGED <<sync, space, disk, others>>

-----------------------------------------------------------------------------
(* Page directories of user programs                                       *)

\* load: pagedir_create, and the pointer to it in struct thread.
Load(t) ==
    /\ Call(t, "load") /\ t # Main /\ ~pagedir[t]
    /\ directories' = directories \cup {t}
    /\ pagedir' = [pagedir EXCEPT ![t] = TRUE]
    /\ Goto(t, <<"activate">>)
    /\ UNCHANGED <<cpu, sync, disk, others>>

\* process_activate; the program then runs.
Activate(t) ==
    /\ At(t, "activate")
    /\ cr3' = IF pagedir[t] THEN t ELSE Nobody
    /\ Goto(t, <<"run">>)
    /\ UNCHANGED <<current, level, status, ready_list, thread_ticks, sync, space, disk, others>>

-----------------------------------------------------------------------------
(* Power off                                                               *)

\* power_off: the initial thread when it is done, others by the halt system call.
PowerOff(t) ==
    /\ Call(t, "halt")
    /\ power' = IF power = "on" THEN "preparing" ELSE "off"
    /\ Goto(t, Acquire("alive_lock", <<"poweroff_check">>))
    /\ UNCHANGED <<cpu, sync, space, disk, idle_thread, alive_count, slept, items>>

\* Mutant: what was waited for is not looked at again.
PowerOffCheck_Once(t) ==
    /\ At(t, "poweroff_check")
    /\ IF alive_count # 2 /\ t = Main /\ ~ForceOff
       THEN CondWait(t, "alive_cond", "alive_lock", Release("alive_lock", <<"hard_power_off">>))
       ELSE /\ Goto(t, Release("alive_lock", <<"hard_power_off">>))
            /\ UNCHANGED <<cpu, sema, waiters>>
    /\ UNCHANGED <<holder, space, disk, others>>

\* The loop of DEBUG_thread_poweroff_check: only the initial thread waits until it
\* and the idle thread are the only ones left.
PowerOffCheck(t) ==
    /\ At(t, "poweroff_check")
    /\ IF alive_count # 2 /\ t = Main /\ ~ForceOff
       THEN CondWait(t, "alive_cond", "alive_lock", <<"poweroff_check">>)
       ELSE /\ Goto(t, Release("alive_lock", <<"hard_power_off">>))
            /\ UNCHANGED <<cpu, sema, waiters>>
    /\ UNCHANGED <<holder, space, disk, others>>

HardPowerOff(t) ==
    /\ At(t, "hard_power_off")
    /\ power' = "off"
    /\ UNCHANGED <<cpu, pc, sync, space, disk, idle_thread, alive_count, slept, items>>

-----------------------------------------------------------------------------
(* timer_sleep                                                             *)

Sleep(t) ==
    /\ Call(t, "sleep")
    /\ slept' = [slept EXCEPT ![t] = 0]
    /\ Goto(t, <<"sleep">>)
    /\ UNCHANGED <<cpu, sync, space, disk, idle_thread, alive_count, items, power>>

SleepLoop(t) ==
    /\ At(t, "sleep")
    /\ IF slept[t] < SleepTime
       THEN Yield(t) /\ UNCHANGED pc
       ELSE Goto(t, <<"run">>) /\ UNCHANGED cpu
    /\ UNCHANGED <<sync, space, disk, others>>

-----------------------------------------------------------------------------
(* The synchronised list                                                   *)

SlCall(t) ==
    /\ \/ Call(t, "append") /\ items < MaxItems /\ Goto(t, Acquire("sl_lock", <<"append">>))
       \/ Call(t, "remove") /\ Goto(t, Acquire("sl_lock", <<"remove">>))
    /\ UNCHANGED <<cpu, sync, space, disk, others>>

\* Mutant: a waiter is only signalled when the list was empty.
SlAppend_IfEmpty(t) ==
    /\ At(t, "append")
    /\ items' = items + 1
    /\ IF items = 0 THEN CondSignal("sl_empty") ELSE UNCHANGED <<cpu, sema, waiters>>
    /\ Goto(t, Release("sl_lock", <<"run">>))
    /\ UNCHANGED <<holder, space, disk, idle_thread, alive_count, slept, power>>

\* sl_append with the lock.
SlAppend(t) ==
    /\ At(t, "append")
    /\ items' = items + 1
    /\ CondSignal("sl_empty")
    /\ Goto(t, Release("sl_lock", <<"run">>))
    /\ UNCHANGED <<holder, space, disk, idle_thread, alive_count, slept, power>>

\* sl_remove with the lock: waits while the list is empty.
SlRemove(t) ==
    /\ At(t, "remove")
    /\ IF items = 0
       THEN CondWait(t, "sl_empty", "sl_lock", <<"remove">>) /\ UNCHANGED items
       ELSE /\ items' = items - 1
            /\ Goto(t, Release("sl_lock", <<"run">>))
            /\ UNCHANGED <<cpu, sema, waiters>>
    /\ UNCHANGED <<holder, space, disk, idle_thread, alive_count, slept, power>>

-----------------------------------------------------------------------------
(* disk_read and disk_write                                                *)

DiskCall(t) ==
    /\ \/ Call(t, "read")  /\ Goto(t, Acquire("channel_lock", <<"issue", "read">>))
       \/ Call(t, "write") /\ Goto(t, Acquire("channel_lock", <<"issue", "write">>))
    /\ UNCHANGED <<cpu, sync, space, disk, others>>

\* select_sector and issue_pio_command.  The disk gets what it needs to read;
\* to write, it first asks for the data.
Issue(t) ==
    /\ At(t, "issue")
    /\ device.state \notin {"busy", "asking"}
    /\ expecting' = TRUE
    /\ IF pc[t][2] = "read"
       THEN /\ device' = [state |-> "busy", for |-> t]
            /\ Goto(t, <<"down", "completion_wait", <<"input">>>>)
       ELSE /\ device' = [state |-> "asking", for |-> t]
            /\ Goto(t, <<"output">>)
    /\ UNCHANGED <<cpu, sync, space, others>>

\* Mutant: the write returns as soon as the disk has the data.
Output_NoWait(t) ==
    /\ At(t, "output")
    /\ device' = [device EXCEPT !.state = "busy"]
    /\ Goto(t, Release("channel_lock", <<"run">>))
    /\ UNCHANGED <<cpu, sync, space, expecting, others>>

\* output_sector of disk_write.
Output(t) ==
    /\ At(t, "output")
    /\ device' = [device EXCEPT !.state = "busy"]
    /\ Goto(t, <<"down", "completion_wait", Release("channel_lock", <<"run">>)>>)
    /\ UNCHANGED <<cpu, sync, space, expecting, others>>

\* input_sector of disk_read.
Input(t) ==
    /\ At(t, "input")
    /\ device' = [state |-> "idle", for |-> Nobody]
    /\ Goto(t, Release("channel_lock", <<"run">>))
    /\ UNCHANGED <<cpu, sync, space, expecting, others>>

-----------------------------------------------------------------------------
\* A step of thread t in the kernel, or of the idle thread.
Run(t) ==
    \/ Down(t) \/ Wait(t) \/ LockRelease(t)
    \/ t = Idle /\ (IdleStart \/ IdleBlock)
    \/ CountUp(t) \/ UnblockNew(t) \/ CountDown(t)
    \/ Cleanup(t) \/ Deactivate(t) \/ Destroy(t) \/ Die(t) \/ Activate(t)
    \/ PowerOffCheck(t) \/ HardPowerOff(t) \/ SleepLoop(t)
    \/ SlAppend(t) \/ SlRemove(t) \/ Issue(t) \/ Output(t) \/ Input(t)

\* What a program decides to do.
Program(t) ==
    \/ \E c \in Thread : Create(t, c)
    \/ Exit(t) \/ Load(t) \/ PowerOff(t) \/ Sleep(t) \/ SlCall(t) \/ DiskCall(t)

Next ==
    \/ Tick \/ DiskInterrupt
    \/ \E t \in Thread : EnableInterrupts(t) \/ Run(t) \/ Program(t)

Spec == Init /\ [][Next]_vars
=============================================================================

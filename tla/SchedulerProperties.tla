------------------------- MODULE SchedulerProperties -------------------------
(***************************************************************************)
(* What the kernel relies on from its threads, locks and condition         *)
(* variables, and what the users of the disk and of the synchronised list  *)
(* may rely on.                                                            *)
(***************************************************************************)
EXTENDS Scheduler, SequencesExt

Times(seq, t) == Cardinality({i \in DOMAIN seq : seq[i] = t})

\* A thread made by thread_create that was not unblocked yet.
BeingCreated(c) ==
    \E t \in Thread : \/ pc[t] \in {<<"count_up", c>>, <<"unblock", c>>}
                      \/ Len(pc[t]) = 3 /\ pc[t][3] \in {<<"count_up", c>>, <<"unblock", c>>}

\* The comment on struct thread: a thread in the ready state is on the run queue,
\* and one in the blocked state on the wait list of a semaphore, each once and
\* nowhere else (they share the list element).  The idle thread is in neither once
\* it has started; a thread that is gone or dying is in none.
OneQueue ==
    \A t \in Thread :
        LET waits == {s \in SemaName : Times(sema[s].waiters, t) > 0}
        IN  /\ status[t] = "running" <=> current = t
            /\ Times(ready_list, t) = IF status[t] = "ready" /\ t # idle_thread THEN 1 ELSE 0
            /\ \A s \in waits : Times(sema[s].waiters, t) = 1
            /\ Cardinality(waits) =
                 IF status[t] = "blocked" /\ t # idle_thread /\ ~BeingCreated(t) THEN 1 ELSE 0

\* The assertions of synch.c and thread.c: there is a thread to switch to, and
\* whoever releases a lock, waits or signals holds the lock.
AssertionsHold ==
    /\ current # Nobody
    /\ pc[current][1] = "up" => holder[pc[current][2]] = current
    /\ pc[current][1] \in {"append", "remove"} => holder["sl_lock"] = current
    /\ pc[current][1] \in {"count_up", "count_down", "poweroff_check"} =>
            holder["alive_lock"] = current
    /\ pc[current][1] \in {"issue", "output", "input"} => holder["channel_lock"] = current

\* Whenever a process is in its program its own page directory is active, whatever
\* happened since it was loaded, and the active page directory is never one that was
\* destroyed (the comment in process_cleanup: the order there is crucial).
AddressSpace ==
    /\ cr3 # Nobody => cr3 \in directories
    /\ pagedir[current] /\ pc[current][1] = "run" /\ level = "on" => cr3 = current

\* Threads in sl_remove that nobody has to signal any more.
Takers == {t \in Thread :
            /\ \A i \in DOMAIN waiters["sl_empty"] : waiters["sl_empty"][i] # t
            /\ \/ pc[t][1] = "remove"
               \/ /\ Len(pc[t]) = 3
                  /\ pc[t][3] \in {<<"remove">>, Acquire("sl_lock", <<"remove">>),
                                   <<"down", t, Acquire("sl_lock", <<"remove">>)>>}}

\* No signal is lost: while threads wait for the synchronised list to be filled, each
\* item in it has a thread that is about to take it.
NoItemStranded ==
    waiters["sl_empty"] # <<>> => items <= Cardinality(Takers)

\* A thread in disk_read or disk_write goes on after the disk has done what that
\* very thread asked for.
DiskServesCaller ==
    LET t == current
    IN  /\ pc[t][1] = "input" => device = [state |-> "done", for |-> t]
        /\ pc[t] = Release("channel_lock", <<"run">>) => device.state # "busy"

\* The places of a thread that has left DEBUG_thread_count_down.
Finishing(t) ==
    \/ pc[t][1] \in {"cleanup", "deactivate", "destroy", "die", "none"}
    \/ Len(pc[t]) = 3 /\ pc[t][3] = <<"cleanup">>

Workers == Thread \ {Main, Idle}

\* Unless it is forced to, the initial thread does not power off while another thread
\* has not reached its end, and it does not wait any longer than that: the last one
\* to be counted out has signalled it.
PowerOffWaits ==
    ~ForceOff =>
        /\ pc[Main][1] = "hard_power_off" => \A t \in Workers : Finishing(t)
        /\ waiters["alive_cond"] # <<>> => \E t \in Workers : ~Finishing(t)

\* Round robin: a thread joins the run queue behind those that are in it and leaves it
\* only at the front, to run.  So a ready thread waits at most one time slice for each
\* thread before it; the fairness assumed of all other models rests on this.
RoundRobin ==
    [][\/ IsPrefix(ready_list, ready_list')
       \/ /\ ready_list # <<>>
          /\ IsPrefix(Tail(ready_list), ready_list')
          /\ current' = Head(ready_list)]_vars
=============================================================================

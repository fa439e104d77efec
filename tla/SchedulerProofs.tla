-------------------------- MODULE SchedulerProofs --------------------------
(***************************************************************************)
(* The scheduler's properties for any number of threads, any program and   *)
(* any time slice.                                                         *)
(*                                                                         *)
(* The arguments look at a thread's place through a few questions: which   *)
(* semaphore it waits for, which lock it holds, which thread it is making, *)
(* whether it was counted.  Most steps change the answer to none of them.  *)
(***************************************************************************)
EXTENDS SchedulerProperties, FiniteSetTheorems, TLAPS

-----------------------------------------------------------------------------
(* Places.                                                                 *)

\* Where t may go on once it has a unit of s.
AfterDown(t, s, k) ==
    \/ s = "idle_started" /\ k = <<"run">>
    \/ /\ s = "alive_lock"
       /\ \/ \E c \in Thread : k = <<"count_up", c>>
          \/ k = <<"count_down">>
          \/ k = <<"poweroff_check">>
    \/ s = "sl_lock" /\ (k = <<"append">> \/ k = <<"remove">>)
    \/ s = "channel_lock" /\ \E x \in {"read", "write"} : k = <<"issue", x>>
    \/ s = "completion_wait" /\ (k = <<"input">> \/ k = <<"up", "channel_lock", <<"run">>>>)
    \/ s = t /\ t = Main /\ k = <<"down", "alive_lock", <<"poweroff_check">>>>
    \/ s = t /\ k = <<"down", "sl_lock", <<"remove">>>>

\* Where t may go on once it has released l.
AfterUp(t, l, k) ==
    \/ /\ l = "alive_lock"
       /\ \/ \E c \in Thread : k = <<"unblock", c>>
          \/ k = <<"cleanup">>
          \/ k = <<"hard_power_off">>
          \/ t = Main /\ k = <<"down", t, <<"down", "alive_lock", <<"poweroff_check">>>>>>
    \/ l = "sl_lock" /\ (k = <<"run">> \/ k = <<"down", t, <<"down", "sl_lock", <<"remove">>>>>>)
    \/ l = "channel_lock" /\ k = <<"run">>

Plain == {"none", "run", "count_down", "cleanup", "deactivate", "destroy", "die", "activate",
          "poweroff_check", "hard_power_off", "sleep", "append", "remove", "output", "input"}

PlaceOK(t, p) ==
    \/ t = Idle /\ \E x \in {"idle", "block", "hlt"} : p = <<x>>
    \/ t # Idle /\ \E x \in Plain : p = <<x>>
    \/ t # Idle /\ \E x \in {"count_up", "unblock"} : \E c \in Thread : p = <<x, c>>
    \/ t # Idle /\ \E x \in {"read", "write"} : p = <<"issue", x>>
    \/ /\ t # Idle /\ Len(p) = 3
       /\ \E x \in {"down", "wait"}, s \in SemaName : p = <<x, s, p[3]>> /\ AfterDown(t, s, p[3])
    \/ /\ t # Idle /\ Len(p) = 3
       /\ \E l \in Locks : p = <<"up", l, p[3]>> /\ AfterUp(t, l, p[3])

\* At p a thread waits in the queue of s, unless it was woken.
WaitsAt(p, s) == p[1] = "wait" /\ p[2] = s

\* At p a thread holds the lock l.
HoldsAt(p, l) ==
    \/ p[1] = "up" /\ p[2] = l
    \/ l = "alive_lock" /\ p[1] \in {"count_up", "count_down", "poweroff_check"}
    \/ l = "sl_lock" /\ p[1] \in {"append", "remove"}
    \/ /\ l = "channel_lock"
       /\ \/ p[1] \in {"issue", "output", "input"}
          \/ p[1] \in {"down", "wait"} /\ p[2] = "completion_wait"

\* At p a thread has created c and not unblocked it yet.
MakesAt(p, c) ==
    \/ p[1] \in {"count_up", "unblock"} /\ p[2] = c
    \/ Len(p) = 3 /\ p[3] \in {<<"count_up", c>>, <<"unblock", c>>}

-----------------------------------------------------------------------------
(* The invariants.                                                         *)

\* The run queue and who runs.
Once(q) == \A i, j \in 1..Len(q) : q[i] = q[j] => i = j
In(q, t) == \E i \in 1..Len(q) : q[i] = t

RunQueue(now, st, rl, idle) ==
    /\ Once(rl)
    /\ \A t \in Thread : st[t] = "running" <=> t = now
    /\ \A t \in Thread : In(rl, t) <=> st[t] = "ready" /\ t # idle
    /\ idle = Nobody => st[Idle] \in {"ready", "running"}
    /\ st[Idle] \notin {"none", "dying"}

Statuses == {"none", "ready", "running", "blocked", "dying"}

CpuInv ==
    /\ current \in Thread
    /\ level \in {"on", "off"}
    /\ status \in [Thread -> Statuses]
    /\ ready_list \in Seq(Thread)
    /\ thread_ticks \in Nat
    /\ idle_thread \in {Nobody, Idle}
    /\ RunQueue(current, status, ready_list, idle_thread)

\* The idle thread sets idle_thread in its first step.
PlaceInv ==
    /\ DOMAIN pc = Thread
    /\ \A t \in Thread : PlaceOK(t, pc[t])
    /\ idle_thread = Idle <=> pc[Idle] # <<"idle">>

SyncType ==
    /\ sema \in [SemaName -> SemaOf(Thread)]
    /\ holder \in [Locks -> Thread \cup {Nobody}]
    /\ waiters \in [Conds -> Seq(Thread)]

\* The wait lists of the semaphores.
SemaQueues ==
    \A s \in SemaName :
        /\ Once(sema[s].waiters)
        /\ \A t \in Thread : In(sema[s].waiters, t) <=> status[t] = "blocked" /\ WaitsAt(pc[t], s)

\* A thread that is blocked waits, or is being created by exactly one other.
Blocked ==
    /\ \A t \in Thread \ {Idle} :
         status[t] = "blocked" => pc[t][1] = "wait" \/ \E u \in Thread : MakesAt(pc[u], t)
    /\ \A t, c \in Thread : MakesAt(pc[t], c) => status[c] = "blocked" /\ pc[c] = <<"run">>
    /\ \A t, u, c \in Thread : MakesAt(pc[t], c) /\ MakesAt(pc[u], c) => t = u
    /\ \A t \in Thread : status[t] \in {"none", "dying"} => pc[t] = <<"none">>

\* holder[l] is the thread inside l, and the unit of l is there when nobody is.
LockInv ==
    \A l \in Locks :
        /\ \A t \in Thread : holder[l] = t <=> HoldsAt(pc[t], l)
        /\ sema[l].value = IF holder[l] = Nobody THEN 1 ELSE 0

KernelInv ==
    /\ CpuInv
    /\ PlaceInv
    /\ SyncType
    /\ SemaQueues
    /\ Blocked
    /\ LockInv

-----------------------------------------------------------------------------
(* Queues.                                                                 *)

LEMMA QueueAppend ==
    ASSUME NEW q \in Seq(Thread), NEW t \in Thread, Once(q), ~In(q, t)
    PROVE  /\ Append(q, t) \in Seq(Thread) /\ Once(Append(q, t))
           /\ \A u \in Thread : In(Append(q, t), u) <=> In(q, u) \/ u = t
<1> DEFINE r == Append(q, t)
<1>1. /\ r \in Seq(Thread) /\ Len(q) \in Nat
      /\ Len(r) = Len(q) + 1 /\ r[Len(q) + 1] = t
      /\ \A i \in 1..Len(q) : r[i] = q[i] /\ q[i] # t
  BY DEF In
<1>2. \A i \in 1..Len(r) : i = Len(q) + 1 \/ i \in 1..Len(q)
  BY <1>1
<1>3. Once(r)
  BY <1>1, <1>2 DEF Once
<1>4. \A u \in Thread : In(r, u) <=> In(q, u) \/ u = t
  <2> TAKE u \in Thread
  <2>1. In(r, u) => In(q, u) \/ u = t
    BY <1>1, <1>2 DEF In
  <2>2. In(q, u) => In(r, u)
    <3>1. \A i \in 1..Len(q) : i \in 1..Len(r)
      BY <1>1
    <3> QED BY <1>1, <3>1 DEF In
  <2>3. In(r, t)
    <3>1. Len(q) + 1 \in 1..Len(r)
      BY <1>1
    <3> QED BY <1>1, <3>1 DEF In
  <2> QED BY <2>1, <2>2, <2>3
<1> QED BY <1>1, <1>3, <1>4

LEMMA QueueTail ==
    ASSUME NEW q \in Seq(Thread), q # <<>>, Once(q)
    PROVE  /\ Head(q) \in Thread /\ In(q, Head(q))
           /\ Tail(q) \in Seq(Thread) /\ Once(Tail(q))
           /\ \A u \in Thread : In(Tail(q), u) <=> In(q, u) /\ u # Head(q)
<1> DEFINE r == Tail(q)
<1>1. /\ r \in Seq(Thread) /\ Len(q) \in Nat /\ Len(q) > 0 /\ Head(q) = q[1]
      /\ Len(r) = Len(q) - 1 /\ q[1] \in Thread
      /\ \A i \in 1..Len(r) : r[i] = q[i + 1]
  OBVIOUS
<1>2. /\ 1 \in 1..Len(q)
      /\ \A i \in 1..Len(r) : i + 1 \in 1..Len(q) /\ i + 1 # 1
      /\ \A i \in 1..Len(q) : i = 1 \/ (i - 1 \in 1..Len(r) /\ r[i - 1] = q[i])
  BY <1>1
<1>3. Once(r)
  <2> SUFFICES ASSUME NEW i \in 1..Len(r), NEW j \in 1..Len(r), r[i] = r[j] PROVE i = j
    BY DEF Once
  <2>1. i + 1 = j + 1
    BY <1>1, <1>2 DEF Once
  <2> QED BY <2>1
<1>4. \A u \in Thread : In(r, u) <=> In(q, u) /\ u # Head(q)
  <2> TAKE u \in Thread
  <2>1. In(r, u) => In(q, u) /\ u # Head(q)
    BY <1>1, <1>2 DEF In, Once
  <2>2. In(q, u) /\ u # Head(q) => In(r, u)
    BY <1>1, <1>2 DEF In
  <2> QED BY <2>1, <2>2
<1>5. In(q, Head(q))
  BY <1>1, <1>2 DEF In
<1> QED BY <1>1, <1>3, <1>4, <1>5

LEMMA QueueEmpty ==
    ASSUME NEW q \in Seq(Thread)
    PROVE  /\ <<>> \in Seq(Thread) /\ Once(<<>>) /\ \A t \in Thread : ~In(<<>>, t)
           /\ q = <<>> <=> \A t \in Thread : ~In(q, t)
<1>1. Len(<<>>) = 0 /\ <<>> \in Seq(Thread)
  OBVIOUS
<1>2. Once(<<>>) /\ \A t \in Thread : ~In(<<>>, t)
  BY <1>1 DEF Once, In
<1>3. q # <<>> => \E t \in Thread : In(q, t)
  <2>1. q # <<>> => 1 \in 1..Len(q) /\ q[1] \in Thread
    OBVIOUS
  <2> QED BY <2>1 DEF In
<1> QED BY <1>1, <1>2, <1>3

-----------------------------------------------------------------------------
(* The processor.                                                          *)

\* Who falls asleep and who is woken, the idle thread apart, and who ends.
Asleep(woken, fallen) ==
    \A t \in Thread \ {Idle} :
        status'[t] = "blocked" <=> (status[t] = "blocked" /\ t \notin woken) \/ t \in fallen

Ended(gone) ==
    \A t \in Thread :
        status'[t] \in {"none", "dying"} <=> status[t] \in {"none", "dying"} \/ t \in gone

\* schedule, from any state in which nobody is marked as running and there is
\* somebody to run.
LEMMA ScheduleRun ==
    ASSUME CpuInv, idle_thread' = idle_thread,
           NEW st \in [Thread -> Statuses], NEW rl \in Seq(Thread), Once(rl),
           \A t \in Thread : st[t] # "running",
           \A t \in Thread : In(rl, t) <=> st[t] = "ready" /\ t # idle_thread,
           idle_thread = Nobody => st[Idle] = "ready",
           st[Idle] \notin {"none", "dying"},
           Schedule(st, rl)
    PROVE  /\ CpuInv'
           /\ \A t \in Thread \ {Idle} : status'[t] = "blocked" <=> st[t] = "blocked"
           /\ \A t \in Thread :
                status'[t] \in {"none", "dying"} <=> st[t] \in {"none", "dying"}
           /\ cr3' \in {Nobody, current'}
<1> DEFINE nx == IF rl = <<>> THEN idle_thread ELSE Head(rl)
<1>0. Nobody \notin Thread /\ Idle \in Thread /\ Main \in Thread /\ Main # Idle
  BY SchedulerAssumption
<1>1. /\ nx \in Thread
      /\ rl = <<>> => nx = Idle
      /\ rl # <<>> => st[nx] = "ready" /\ nx # idle_thread
  <2>1. CASE rl = <<>>
    <3>1. ~In(rl, Idle)
      BY <2>1, <1>0, QueueEmpty
    <3>2. idle_thread = Idle
      BY <3>1, <1>0 DEF CpuInv
    <3> QED BY <2>1, <3>2, <1>0
  <2>2. CASE rl # <<>>
    BY <2>2, QueueTail
  <2> QED BY <2>1, <2>2
<1>2. /\ current' = nx /\ level' = "off" /\ thread_ticks' = 0
      /\ ready_list' = (IF rl = <<>> THEN rl ELSE Tail(rl))
      /\ cr3' \in {Nobody, current'}
  BY DEF Schedule
<1>3. \A t \in Thread :
        /\ t = nx => status'[t] = "running"
        /\ t # nx => status'[t] = st[t] \/ (st[t] = "dying" /\ status'[t] = "none")
  BY DEF Schedule
<1>4. status' \in [Thread -> Statuses]
  <2> DEFINE g == {t \in {current} : st[t] = "dying" /\ t # Main}
  <2>1. status' = [t \in Thread |-> IF t = nx THEN "running"
                                   ELSE IF t \in g THEN "none" ELSE st[t]]
    BY DEF Schedule
  <2> HIDE DEF g, nx
  <2> QED BY <2>1 DEF Statuses
<1>5. /\ ready_list' \in Seq(Thread) /\ Once(ready_list')
      /\ \A t \in Thread : In(ready_list', t) <=> In(rl, t) /\ t # nx
  <2>1. CASE rl = <<>>
    BY <2>1, <1>2, <1>0, QueueEmpty
  <2>2. CASE rl # <<>>
    BY <2>2, <1>2, QueueTail
  <2> QED BY <2>1, <2>2
<1> HIDE DEF nx
<1>6. RunQueue(current', status', ready_list', idle_thread')
  BY <1>0, <1>1, <1>2, <1>3, <1>5 DEF RunQueue
<1>7. CpuInv'
  BY <1>1, <1>2, <1>4, <1>5, <1>6 DEF CpuInv
<1>8. \A t \in Thread \ {Idle} : status'[t] = "blocked" <=> st[t] = "blocked"
  BY <1>1, <1>3
<1>9. \A t \in Thread : status'[t] \in {"none", "dying"} <=> st[t] \in {"none", "dying"}
  BY <1>1, <1>3
<1> QED BY <1>2, <1>7, <1>8, <1>9

LEMMA BlockRun ==
    ASSUME CpuInv, idle_thread' = idle_thread, current = Idle => idle_thread = Idle,
           Block(current)
    PROVE  CpuInv' /\ Asleep({}, {current}) /\ Ended({}) /\ cr3' \in {Nobody, current'}
<1> DEFINE st == [status EXCEPT ![current] = "blocked"]
<1>0. Nobody \notin Thread /\ Idle \in Thread
  BY SchedulerAssumption
<1>1. /\ st \in [Thread -> Statuses] /\ st[current] = "blocked"
      /\ \A t \in Thread : t # current => st[t] = status[t]
  BY DEF CpuInv, Statuses
<1>2. Schedule(st, ready_list)
  BY DEF Block
<1>3. status[current] = "running" /\ ready_list \in Seq(Thread) /\ Once(ready_list)
  BY DEF CpuInv, RunQueue
<1> HIDE DEF st
<1>4. /\ \A t \in Thread : st[t] # "running"
      /\ \A t \in Thread : In(ready_list, t) <=> st[t] = "ready" /\ t # idle_thread
      /\ idle_thread = Nobody => st[Idle] = "ready"
      /\ st[Idle] \notin {"none", "dying"}
  BY <1>0, <1>1, <1>3 DEF CpuInv, RunQueue
<1>5. /\ CpuInv' /\ cr3' \in {Nobody, current'}
      /\ \A t \in Thread \ {Idle} : status'[t] = "blocked" <=> st[t] = "blocked"
      /\ \A t \in Thread : status'[t] \in {"none", "dying"} <=> st[t] \in {"none", "dying"}
  BY <1>1, <1>2, <1>3, <1>4, ScheduleRun
<1> QED BY <1>1, <1>3, <1>5 DEF Asleep, Ended

LEMMA YieldRun ==
    ASSUME CpuInv, idle_thread' = idle_thread, Yield(current)
    PROVE  CpuInv' /\ Asleep({}, {}) /\ Ended({}) /\ cr3' \in {Nobody, current'}
<1> DEFINE st == [status EXCEPT ![current] = "ready"]
           rl == IF current = idle_thread THEN ready_list ELSE Append(ready_list, current)
<1>0. Nobody \notin Thread /\ Idle \in Thread
  BY SchedulerAssumption
<1>1. /\ st \in [Thread -> Statuses] /\ st[current] = "ready"
      /\ \A t \in Thread : t # current => st[t] = status[t]
  BY DEF CpuInv, Statuses
<1>2. Schedule(st, rl)
  BY DEF Yield
<1>3. status[current] = "running" /\ ~In(ready_list, current) /\ current \in Thread
  BY DEF CpuInv, RunQueue
<1>4. /\ rl \in Seq(Thread) /\ Once(rl)
      /\ \A t \in Thread : In(rl, t) <=> In(ready_list, t) \/ (t = current /\ t # idle_thread)
  <2>1. CASE current = idle_thread
    BY <2>1 DEF CpuInv, RunQueue
  <2>2. CASE current # idle_thread
    BY <2>2, <1>3, QueueAppend DEF CpuInv, RunQueue
  <2> QED BY <2>1, <2>2
<1> HIDE DEF st, rl
<1>5. /\ \A t \in Thread : st[t] # "running"
      /\ \A t \in Thread : In(rl, t) <=> st[t] = "ready" /\ t # idle_thread
      /\ idle_thread = Nobody => st[Idle] = "ready"
      /\ st[Idle] \notin {"none", "dying"}
  BY <1>0, <1>1, <1>3, <1>4 DEF CpuInv, RunQueue
<1>6. /\ CpuInv' /\ cr3' \in {Nobody, current'}
      /\ \A t \in Thread \ {Idle} : status'[t] = "blocked" <=> st[t] = "blocked"
      /\ \A t \in Thread : status'[t] \in {"none", "dying"} <=> st[t] \in {"none", "dying"}
  BY <1>1, <1>2, <1>4, <1>5, ScheduleRun
<1> QED BY <1>1, <1>3, <1>6 DEF Asleep, Ended

\* A dying thread other than the initial one is gone at once.
LEMMA DieRun ==
    ASSUME CpuInv, idle_thread' = idle_thread, current # Idle,
           Schedule([status EXCEPT ![current] = "dying"], ready_list)
    PROVE  CpuInv' /\ Asleep({}, {}) /\ Ended({current}) /\ cr3' \in {Nobody, current'}
<1> DEFINE st == [status EXCEPT ![current] = "dying"]
<1>0. Nobody \notin Thread /\ Idle \in Thread
  BY SchedulerAssumption
<1>1. /\ st \in [Thread -> Statuses] /\ st[current] = "dying"
      /\ \A t \in Thread : t # current => st[t] = status[t]
  BY DEF CpuInv, Statuses
<1>2. Schedule(st, ready_list)
  OBVIOUS
<1>3. status[current] = "running" /\ ready_list \in Seq(Thread) /\ Once(ready_list)
  BY DEF CpuInv, RunQueue
<1> HIDE DEF st
<1>4. /\ \A t \in Thread : st[t] # "running"
      /\ \A t \in Thread : In(ready_list, t) <=> st[t] = "ready" /\ t # idle_thread
      /\ idle_thread = Nobody => st[Idle] = "ready"
      /\ st[Idle] \notin {"none", "dying"}
  BY <1>0, <1>1, <1>3 DEF CpuInv, RunQueue
<1>5. /\ CpuInv' /\ cr3' \in {Nobody, current'}
      /\ \A t \in Thread \ {Idle} : status'[t] = "blocked" <=> st[t] = "blocked"
      /\ \A t \in Thread : status'[t] \in {"none", "dying"} <=> st[t] \in {"none", "dying"}
  BY <1>1, <1>2, <1>3, <1>4, ScheduleRun
<1> QED BY <1>1, <1>3, <1>5 DEF Asleep, Ended

LEMMA UnblockRun ==
    ASSUME CpuInv, NEW woken, idle_thread' \in {idle_thread, Idle},
           idle_thread' # idle_thread => current = Idle,
           \A t \in woken : t \in Thread \ {Idle} /\ status[t] = "blocked" /\ woken = {t},
           Unblock(woken)
    PROVE  CpuInv' /\ Asleep(woken, {}) /\ Ended({}) /\ cr3' = cr3 /\ current' = current
<1>0. Nobody \notin Thread /\ Idle \in Thread
  BY SchedulerAssumption
<1>1. /\ \A t \in Thread : status'[t] = IF t \in woken THEN "ready" ELSE status[t]
      /\ status' \in [Thread -> Statuses]
      /\ UNCHANGED <<current, level, thread_ticks, cr3>>
  BY DEF Unblock, CpuInv, Statuses
<1> DEFINE Joined ==
        /\ ready_list' \in Seq(Thread) /\ Once(ready_list')
        /\ \A t \in Thread : In(ready_list', t) <=> In(ready_list, t) \/ t \in woken
<1>2. Joined
  <2>1. CASE woken = {}
    BY <2>1 DEF Unblock, CpuInv, RunQueue
  <2>2. ASSUME NEW w \in woken PROVE Joined
    <3>1. ready_list' = Append(ready_list, w)
      <4>1. (CHOOSE t \in woken : TRUE) = w
        BY <2>2
      <4> QED BY <2>2, <4>1 DEF Unblock
    <3>2. ~In(ready_list, w) /\ w \in Thread /\ woken = {w}
      BY <2>2 DEF CpuInv, RunQueue
    <3> QED BY <3>1, <3>2, QueueAppend DEF CpuInv, RunQueue
  <2> QED BY <2>1, <2>2
<1>3. RunQueue(current', status', ready_list', idle_thread')
  <2>1. status[current] = "running"
    BY DEF CpuInv, RunQueue
  <2>2. \A t \in Thread : status'[t] = "running" <=> t = current'
    BY <1>1 DEF CpuInv, RunQueue
  <2>3. \A t \in Thread : In(ready_list', t) <=> status'[t] = "ready" /\ t # idle_thread'
    BY <1>0, <1>1, <1>2, <2>1 DEF CpuInv, RunQueue
  <2>4. /\ idle_thread' = Nobody => status'[Idle] \in {"ready", "running"}
        /\ status'[Idle] \notin {"none", "dying"}
    BY <1>0, <1>1 DEF CpuInv, RunQueue
  <2> QED BY <1>2, <2>2, <2>3, <2>4 DEF RunQueue
<1>4. CpuInv'
  BY <1>1, <1>2, <1>3 DEF CpuInv
<1> QED BY <1>1, <1>4 DEF Asleep, Ended

-----------------------------------------------------------------------------
(* The wait lists of the semaphores.                                       *)

\* t waits for s in its queue.
Queued(t, s) == status[t] = "blocked" /\ WaitsAt(pc[t], s)

LEMMA ListsStay ==
    ASSUME SemaQueues, \A s \in SemaName : sema'[s].waiters = sema[s].waiters,
           \A t \in Thread, s \in SemaName : Queued(t, s)' <=> Queued(t, s)
    PROVE  SemaQueues'
BY DEF SemaQueues, Queued

LEMMA ListsQueue ==
    ASSUME SyncType, SemaQueues, NEW t \in Thread, NEW s \in SemaName,
           sema' = [sema EXCEPT ![s] = SemaQueue(@, t)], ~Queued(t, s),
           \A u \in Thread, r \in SemaName : Queued(u, r)' <=> Queued(u, r) \/ (u = t /\ r = s)
    PROVE  SemaQueues' /\ sema' \in [SemaName -> SemaOf(Thread)]
             /\ \A r \in SemaName : sema'[r].value = sema[r].value
<1>1. /\ SemaQueue(sema[s], t) \in SemaOf(Thread)
      /\ SemaQueue(sema[s], t).value = sema[s].value
      /\ sema[s].waiters \in Seq(Thread)
      /\ SemaQueue(sema[s], t).waiters = Append(sema[s].waiters, t)
  <2>1. sema[s] \in SemaOf(Thread)
    BY DEF SyncType
  <2> QED BY <2>1 DEF SemaQueue, SemaOf
<1>2. /\ \A r \in SemaName : r # s => sema'[r] = sema[r]
      /\ sema'[s] = SemaQueue(sema[s], t)
  BY DEF SyncType
<1>3. /\ Once(sema'[s].waiters)
      /\ \A u \in Thread : In(sema'[s].waiters, u) <=> In(sema[s].waiters, u) \/ u = t
  <2>1. Once(sema[s].waiters) /\ ~In(sema[s].waiters, t)
    BY DEF SemaQueues, Queued
  <2> DEFINE q == sema[s].waiters
  <2>2. q \in Seq(Thread) /\ sema'[s].waiters = Append(q, t)
    BY <1>1, <1>2
  <2> HIDE DEF q
  <2>3. Once(Append(q, t)) /\ \A u \in Thread : In(Append(q, t), u) <=> In(q, u) \/ u = t
    BY <2>1, <2>2, QueueAppend DEF q
  <2> QED BY <2>2, <2>3 DEF q
<1>4. SemaQueues'
  BY <1>2, <1>3 DEF SemaQueues, Queued
<1> QED BY <1>1, <1>2, <1>4 DEF SyncType

LEMMA ListsUp ==
    ASSUME SyncType, SemaQueues, NEW s \in SemaName,
           sema' = [sema EXCEPT ![s] = SemaUp(@)],
           \A u \in Thread, r \in SemaName :
               Queued(u, r)' <=> Queued(u, r) /\ u \notin SemaWoken(sema[s])
    PROVE  SemaQueues' /\ sema' \in [SemaName -> SemaOf(Thread)]
<1>1. /\ SemaUp(sema[s]) \in SemaOf(Thread)
      /\ sema[s].waiters \in Seq(Thread)
      /\ SemaUp(sema[s]).waiters = IF sema[s].waiters = <<>> THEN <<>> ELSE Tail(sema[s].waiters)
      /\ SemaWoken(sema[s]) = IF sema[s].waiters = <<>> THEN {} ELSE {Head(sema[s].waiters)}
  <2>1. sema[s] \in SemaOf(Thread)
    BY DEF SyncType
  <2> QED BY <2>1 DEF SemaUp, SemaWoken, SemaOf
<1>2. /\ \A r \in SemaName : r # s => sema'[r] = sema[r]
      /\ sema'[s] = SemaUp(sema[s])
  BY DEF SyncType
<1>3. /\ Once(sema'[s].waiters)
      /\ \A u \in Thread : In(sema'[s].waiters, u)
                             <=> In(sema[s].waiters, u) /\ u \notin SemaWoken(sema[s])
  <2>1. CASE sema[s].waiters = <<>>
    BY <2>1, <1>1, <1>2, QueueEmpty
  <2>2. CASE sema[s].waiters # <<>>
    BY <2>2, <1>1, <1>2, QueueTail DEF SemaQueues
  <2> QED BY <2>1, <2>2
<1>4. \A r \in SemaName, u \in Thread : r # s /\ u \in SemaWoken(sema[s]) => ~Queued(u, r)
  <2>1. \A u \in SemaWoken(sema[s]) : u \in Thread /\ In(sema[s].waiters, u)
    BY <1>1, QueueTail DEF SemaQueues
  <2> QED BY <2>1 DEF SemaQueues, Queued, WaitsAt
<1>5. SemaQueues'
  BY <1>2, <1>3, <1>4 DEF SemaQueues, Queued
<1> QED BY <1>1, <1>2, <1>5 DEF SyncType

\* Who is woken by sema_up was blocked in the queue of that semaphore.
LEMMA WokenWaits ==
    ASSUME SyncType, SemaQueues, PlaceInv, NEW s \in SemaName
    PROVE  \A u \in SemaWoken(sema[s]) :
              u \in Thread \ {Idle} /\ Queued(u, s) /\ SemaWoken(sema[s]) = {u}
<1>1. /\ sema[s].waiters \in Seq(Thread)
      /\ SemaWoken(sema[s]) = IF sema[s].waiters = <<>> THEN {} ELSE {Head(sema[s].waiters)}
  BY DEF SyncType, SemaOf, SemaWoken
<1>2. \A u \in SemaWoken(sema[s]) : u \in Thread /\ Queued(u, s)
  BY <1>1, QueueTail DEF SemaQueues, Queued
<1>3. ~WaitsAt(pc[Idle], s)
  BY SchedulerAssumption DEF PlaceInv, PlaceOK, WaitsAt
<1> QED BY <1>1, <1>2, <1>3 DEF Queued

\* Only t queues itself on the semaphore it has on its stack.
LEMMA OwnSemaphore ==
    ASSUME KernelInv, NEW t \in Thread, current = t
    PROVE  sema[t].waiters = <<>> /\ t \in SemaName
<1>1. t \in SemaName /\ sema[t].waiters \in Seq(Thread)
  BY DEF SemaName, KernelInv, SyncType, SemaOf
<1>2. ASSUME NEW u \in Thread, In(sema[t].waiters, u) PROVE FALSE
  <2>1. status[u] = "blocked" /\ WaitsAt(pc[u], t)
    BY <1>1, <1>2 DEF KernelInv, SemaQueues
  <2>2. u = t
    BY <2>1, SchedulerAssumption
    DEF KernelInv, PlaceInv, PlaceOK, AfterDown, WaitsAt, Plain, Locks
  <2> QED BY <2>1, <2>2 DEF KernelInv, CpuInv, RunQueue
<1> QED BY <1>1, <1>2, QueueEmpty

-----------------------------------------------------------------------------
(* Steps of one thread.                                                    *)

\* The running thread moves to a place where it makes what it made before.
LEMMA BlockedStep ==
    ASSUME CpuInv, PlaceInv, Blocked, NEW woken, NEW fallen \in SUBSET {current},
           Asleep(woken, fallen), Ended({}),
           \A u \in woken : pc[u][1] = "wait",
           fallen = {} \/ current = Idle \/ pc'[current][1] = "wait",
           \A u \in Thread : u # current => pc'[u] = pc[u],
           \A c \in Thread : MakesAt(pc'[current], c) <=> MakesAt(pc[current], c)
    PROVE  Blocked'
<1>0. Idle \in Thread /\ current \in Thread /\ status[current] = "running"
  BY SchedulerAssumption DEF CpuInv, RunQueue
<1>1. \A u, c \in Thread : MakesAt(pc'[u], c) <=> MakesAt(pc[u], c)
  BY <1>0
<1>2. \A c \in Thread : pc[c] = <<"run">> => c # Idle /\ c \notin woken
  BY <1>0 DEF PlaceInv, PlaceOK
<1>3. \A t \in Thread \ {Idle} :
         status'[t] = "blocked" => pc'[t][1] = "wait" \/ \E u \in Thread : MakesAt(pc'[u], t)
  BY <1>0, <1>1 DEF Blocked, Asleep
<1>4. \A t, c \in Thread : MakesAt(pc'[t], c) => status'[c] = "blocked" /\ pc'[c] = <<"run">>
  BY <1>0, <1>1, <1>2 DEF Blocked, Asleep
<1>5. \A t, u, c \in Thread : MakesAt(pc'[t], c) /\ MakesAt(pc'[u], c) => t = u
  BY <1>1 DEF Blocked
<1>6. \A t \in Thread : status'[t] \in {"none", "dying"} => pc'[t] = <<"none">>
  BY <1>0 DEF Blocked, Ended
<1> QED BY <1>3, <1>4, <1>5, <1>6 DEF Blocked

\* Thread t is at p now, the others are where they were.
Moved(t, p) ==
    /\ DOMAIN pc' = Thread
    /\ pc'[t] = p
    /\ \A u \in Thread : u # t => pc'[u] = pc[u]
    /\ t # Idle => idle_thread' = idle_thread
    /\ t = Idle => \/ p # <<"idle">> /\ idle_thread' = Idle
                   \/ p = <<"idle">> /\ p = pc[t] /\ idle_thread' = idle_thread

LEMMA GotoMoves ==
    ASSUME PlaceInv, NEW t \in Thread, NEW p, PlaceOK(t, p), t # Idle, UNCHANGED idle_thread
    PROVE  /\ Goto(t, p) => Moved(t, p)
           /\ UNCHANGED pc => Moved(t, pc[t])
BY DEF PlaceInv, Moved, Goto

LEMMA PlaceStep ==
    ASSUME PlaceInv, NEW t \in Thread, NEW p, PlaceOK(t, p), Moved(t, p)
    PROVE  PlaceInv'
BY SchedulerAssumption DEF PlaceInv, Moved

\* The thread that moves was not blocked, so it does not matter for those that are.
LEMMA QueuedStep ==
    ASSUME CpuInv, PlaceInv, NEW p, PlaceOK(current, p), Moved(current, p),
           NEW woken, NEW fallen \in SUBSET {current}, Asleep(woken, fallen),
           NEW u \in Thread, NEW s \in SemaName
    PROVE  Queued(u, s)' <=> \/ Queued(u, s) /\ u \notin woken
                             \/ u \in fallen /\ WaitsAt(p, s)
<1>0. status[current] = "running" /\ Idle \in Thread /\ current \in Thread
  BY SchedulerAssumption DEF CpuInv, RunQueue
<1>1. ~WaitsAt(pc[Idle], s) /\ (current = Idle => ~WaitsAt(p, s))
  BY <1>0 DEF PlaceInv, PlaceOK, WaitsAt
<1>2. u # current => pc'[u] = pc[u]
  BY DEF Moved
<1>3. pc'[current] = p
  BY DEF Moved
<1>4. CASE u = Idle
  BY <1>0, <1>1, <1>2, <1>3, <1>4 DEF Queued
<1>5. CASE u # Idle
  BY <1>0, <1>2, <1>3, <1>5 DEF Queued, Asleep
<1> QED BY <1>4, <1>5

\* The processor while nobody is switched to, woken or made.
LEMMA QuietCpu ==
    ASSUME CpuInv, UNCHANGED <<current, status, ready_list, idle_thread>>,
           level' \in {"on", "off"}, thread_ticks' \in Nat
    PROVE  CpuInv' /\ Asleep({}, {}) /\ Ended({})
BY DEF CpuInv, Asleep, Ended

\* A step of the running thread that neither waits nor wakes.
LEMMA MoveStep ==
    ASSUME KernelInv, NEW p, PlaceOK(current, p), Moved(current, p),
           CpuInv', Asleep({}, {}), Ended({}), UNCHANGED sync,
           \A c \in Thread : MakesAt(p, c) <=> MakesAt(pc[current], c),
           \A l \in Locks : HoldsAt(p, l) <=> HoldsAt(pc[current], l)
    PROVE  KernelInv'
<1> USE DEF KernelInv
<1>0. /\ pc'[current] = p /\ \A u \in Thread : u # current => pc'[u] = pc[u]
      /\ sema' = sema /\ holder' = holder /\ waiters' = waiters /\ current \in Thread
  BY DEF Moved, sync, CpuInv
<1>1. PlaceInv'
  BY <1>0, PlaceStep
<1>2. SyncType'
  BY <1>0 DEF SyncType
<1>3. SemaQueues'
  <2>1. \A u \in Thread, s \in SemaName : Queued(u, s)' <=> Queued(u, s)
    BY QueuedStep
  <2> QED BY <1>0, <2>1, ListsStay
<1>4. Blocked'
  BY <1>0, BlockedStep
<1>5. LockInv'
  BY <1>0 DEF LockInv
<1> QED BY <1>1, <1>2, <1>3, <1>4, <1>5

\* sema_up(s) by the running thread; what becomes of the locks is left to show.
LEMMA UpStep ==
    ASSUME KernelInv, NEW p, PlaceOK(current, p), Moved(current, p),
           NEW s \in SemaName, Up(s, sema),
           holder' \in [Locks -> Thread \cup {Nobody}], waiters' \in [Conds -> Seq(Thread)],
           \A c \in Thread : MakesAt(p, c) <=> MakesAt(pc[current], c),
           LockInv'
    PROVE  KernelInv'
<1> USE DEF KernelInv
<1> DEFINE woken == SemaWoken(sema[s])
<1>0. /\ pc'[current] = p /\ \A u \in Thread : u # current => pc'[u] = pc[u]
      /\ sema' = [sema EXCEPT ![s] = SemaUp(@)] /\ Unblock(woken) /\ current \in Thread
  BY DEF Moved, Up, CpuInv
<1>1. PlaceInv'
  BY <1>0, PlaceStep
<1>2. \A u \in woken : u \in Thread \ {Idle} /\ Queued(u, s) /\ woken = {u}
  BY WokenWaits
<1> HIDE DEF woken
<1>3. \A u \in woken : status[u] = "blocked" /\ pc[u][1] = "wait"
  BY <1>2 DEF Queued, WaitsAt
<1>4. CpuInv' /\ Asleep(woken, {}) /\ Ended({})
  <2>1. idle_thread' \in {idle_thread, Idle} /\ (idle_thread' # idle_thread => current = Idle)
    BY DEF Moved, PlaceInv
  <2> QED BY <1>0, <1>2, <1>3, <2>1, UnblockRun
<1>5. SemaQueues' /\ SyncType'
  <2>1. \A u \in Thread, r \in SemaName : Queued(u, r)' <=> Queued(u, r) /\ u \notin woken
    BY <1>4, QueuedStep
  <2>2. SemaQueues' /\ sema' \in [SemaName -> SemaOf(Thread)]
    BY <1>0, <2>1, ListsUp DEF woken
  <2> QED BY <2>2 DEF SyncType
<1>6. Blocked'
  BY <1>0, <1>3, <1>4, BlockedStep
<1> QED BY <1>1, <1>4, <1>5, <1>6

\* The locks while nobody enters or leaves one.
LEMMA LocksStay ==
    ASSUME LockInv, CpuInv, NEW p, Moved(current, p), UNCHANGED holder,
           \A l \in Locks : sema'[l].value = sema[l].value,
           \A l \in Locks : HoldsAt(p, l) <=> HoldsAt(pc[current], l)
    PROVE  LockInv'
BY DEF LockInv, Moved, CpuInv

\* Where a thread goes on that has its unit.
LEMMA PlaceTaken ==
    ASSUME NEW t \in Thread, NEW p, PlaceOK(t, p), p[1] \in {"down", "wait"}
    PROVE  /\ t # Idle /\ p[2] \in SemaName /\ PlaceOK(t, p[3])
           /\ p = <<p[1], p[2], p[3]>> /\ PlaceOK(t, <<"wait", p[2], p[3]>>)
           /\ \A c \in Thread : MakesAt(p[3], c) <=> MakesAt(p, c)
           /\ \A l \in Locks : HoldsAt(p[3], l) <=> HoldsAt(p, l) \/ l = p[2]
<1> USE SchedulerAssumption DEF PlaceOK
<1>1. /\ t # Idle /\ p[2] \in SemaName /\ p = <<p[1], p[2], p[3]>> /\ Len(p) = 3
      /\ AfterDown(t, p[2], p[3])
  BY DEF Plain
<1>2. PlaceOK(t, <<"wait", p[2], p[3]>>)
  BY <1>1
<1>3. PlaceOK(t, p[3])
  BY <1>1 DEF AfterDown, AfterUp, Plain, SemaName, Locks
<1>4. \A c \in Thread : MakesAt(p[3], c) <=> MakesAt(p, c)
  BY <1>1 DEF AfterDown, MakesAt
<1>5. \A l \in Locks : HoldsAt(p[3], l) <=> HoldsAt(p, l) \/ l = p[2]
  BY <1>1 DEF AfterDown, HoldsAt, Locks
<1> QED BY <1>1, <1>2, <1>3, <1>4, <1>5

LEMMA PlaceReleased ==
    ASSUME NEW t \in Thread, NEW p, PlaceOK(t, p), p[1] = "up"
    PROVE  /\ t # Idle /\ p[2] \in Locks /\ PlaceOK(t, p[3])
           /\ \A c \in Thread : MakesAt(p[3], c) <=> MakesAt(p, c)
           /\ \A l \in Locks : HoldsAt(p, l) <=> l = p[2]
           /\ \A l \in Locks : ~HoldsAt(p[3], l)
<1> USE SchedulerAssumption DEF PlaceOK
<1>1. /\ t # Idle /\ p[2] \in Locks /\ Len(p) = 3 /\ AfterUp(t, p[2], p[3])
  BY DEF Plain
<1>3. PlaceOK(t, p[3])
  <2> DEFINE k == p[3]
  <2>1. \/ \E x \in {"run", "cleanup", "hard_power_off"} : k = <<x>>
        \/ \E c \in Thread : k = <<"unblock", c>>
        \/ t = Main /\ k = <<"down", t, <<"down", "alive_lock", <<"poweroff_check">>>>>>
        \/ k = <<"down", t, <<"down", "sl_lock", <<"remove">>>>>>
    BY <1>1 DEF AfterUp
  <2> HIDE DEF k
  <2>2. t \in SemaName
    BY DEF SemaName
  <2>3. CASE \/ \E x \in {"run", "cleanup", "hard_power_off"} : k = <<x>>
             \/ \E c \in Thread : k = <<"unblock", c>>
    BY <1>1, <2>3 DEF Plain, k
  <2>4. CASE t = Main /\ k = <<"down", t, <<"down", "alive_lock", <<"poweroff_check">>>>>>
    BY <1>1, <2>2, <2>4 DEF AfterDown, k
  <2>5. CASE k = <<"down", t, <<"down", "sl_lock", <<"remove">>>>>>
    BY <1>1, <2>2, <2>5 DEF AfterDown, k
  <2> QED BY <2>1, <2>3, <2>4, <2>5 DEF k
<1>4. \A c \in Thread : MakesAt(p[3], c) <=> MakesAt(p, c)
  BY <1>1 DEF AfterUp, MakesAt
<1>5. \A l \in Locks : (HoldsAt(p, l) <=> l = p[2]) /\ ~HoldsAt(p[3], l)
  BY <1>1 DEF AfterUp, HoldsAt, Locks
<1> QED BY <1>1, <1>3, <1>4, <1>5

\* A unit is taken; if it is a lock's, nobody held that lock.
LEMMA TakeStep ==
    ASSUME KernelInv, pc[current][1] \in {"down", "wait"},
           sema[pc[current][2]].value > 0, Take(current, pc[current][2]),
           UNCHANGED <<current, status, ready_list, idle_thread, waiters>>,
           level' \in {"on", "off"}, thread_ticks' \in Nat
    PROVE  KernelInv'
<1> DEFINE t == current  s == pc[current][2]  p == pc[current][3]
<1> USE DEF KernelInv
<1>0. /\ current \in Thread /\ PlaceOK(current, pc[current]) /\ s \in SemaName
      /\ sema[s] \in SemaOf(Thread) /\ status[current] = "running"
  BY PlaceTaken DEF CpuInv, PlaceInv, SyncType, RunQueue
<1>1. /\ current # Idle /\ PlaceOK(current, p)
      /\ \A c \in Thread : MakesAt(p, c) <=> MakesAt(pc[current], c)
      /\ \A l \in Locks : HoldsAt(p, l) <=> HoldsAt(pc[current], l) \/ l = s
  BY <1>0, PlaceTaken
<1>2. Moved(current, p)
  BY <1>0, <1>1, GotoMoves DEF Take
<1>3. CpuInv' /\ Asleep({}, {}) /\ Ended({})
  BY QuietCpu
<1>4. /\ sema' = [sema EXCEPT ![s] = SemaTake(@)] /\ SemaTake(sema[s]) \in SemaOf(Thread)
      /\ SemaTake(sema[s]).value = sema[s].value - 1
      /\ SemaTake(sema[s]).waiters = sema[s].waiters
      /\ holder' = IF s \in Locks THEN [holder EXCEPT ![s] = current] ELSE holder
  BY <1>0 DEF Take, SemaTake, SemaOf
<1> HIDE DEF s, p
<1>5. PlaceInv'
  BY <1>0, <1>1, <1>2, PlaceStep
<1>6. SyncType'
  BY <1>0, <1>4 DEF SyncType
<1>7. SemaQueues'
  <2>1. \A u \in Thread, r \in SemaName : Queued(u, r)' <=> Queued(u, r)
    BY <1>1, <1>2, <1>3, QueuedStep
  <2>2. \A r \in SemaName : sema'[r].waiters = sema[r].waiters
    BY <1>0, <1>4 DEF SyncType
  <2> QED BY <2>1, <2>2, ListsStay
<1>8. Blocked'
  BY <1>1, <1>2, <1>3, BlockedStep DEF Moved
<1>9. LockInv'
  <2>1. CASE s \notin Locks
    <3>1. \A l \in Locks : sema'[l] = sema[l]
      BY <2>1, <1>0, <1>4 DEF SyncType, SemaName
    <3> QED BY <2>1, <3>1, <1>1, <1>2, <1>4, LocksStay
  <2>2. CASE s \in Locks
    <3>1. holder[s] = Nobody /\ sema[s].value = 1
      BY <2>2 DEF LockInv, s
    <3>2. \A u \in Thread, l \in Locks :
             HoldsAt(pc'[u], l) <=> HoldsAt(pc[u], l) \/ (u = current /\ l = s)
      BY <1>1, <1>2 DEF Moved
    <3>3. \A l \in Locks :
            /\ holder'[l] = IF l = s THEN current ELSE holder[l]
            /\ sema'[l].value = IF l = s THEN 0 ELSE sema[l].value
      BY <2>2, <3>1, <1>0, <1>4 DEF SyncType, SemaName
    <3>4. Nobody \notin Thread
      BY SchedulerAssumption
    <3> QED BY <3>1, <3>2, <3>3, <3>4, <1>0 DEF LockInv
  <2> QED BY <2>1, <2>2
<1> QED BY <1>3, <1>5, <1>6, <1>7, <1>8, <1>9

\* The running thread queues itself and blocks.
LEMMA QueueStep ==
    ASSUME KernelInv, pc[current][1] \in {"down", "wait"},
           sema' = [sema EXCEPT ![pc[current][2]] = SemaQueue(@, current)],
           Moved(current, <<"wait", pc[current][2], pc[current][3]>>),
           Block(current), UNCHANGED <<idle_thread, holder, waiters>>
    PROVE  KernelInv'
<1> DEFINE s == pc[current][2]  p == <<"wait", pc[current][2], pc[current][3]>>
<1> USE DEF KernelInv
<1>0. current \in Thread /\ PlaceOK(current, pc[current]) /\ status[current] = "running"
  BY DEF CpuInv, PlaceInv, RunQueue
<1>1. /\ current # Idle /\ PlaceOK(current, p) /\ s \in SemaName
      /\ pc[current] = <<pc[current][1], pc[current][2], pc[current][3]>>
  BY <1>0, PlaceTaken
<1>2. /\ \A c \in Thread : MakesAt(p, c) <=> MakesAt(pc[current], c)
      /\ \A l \in Locks : HoldsAt(p, l) <=> HoldsAt(pc[current], l)
  BY <1>1 DEF MakesAt, HoldsAt
<1>3. CpuInv' /\ Asleep({}, {current}) /\ Ended({})
  BY <1>1, BlockRun
<1>4. WaitsAt(p, s) /\ p[1] = "wait" /\ \A r \in SemaName : WaitsAt(p, r) => r = s
  BY DEF WaitsAt
<1> HIDE DEF p, s
<1>5. PlaceInv'
  BY <1>0, <1>1, PlaceStep DEF p
<1>6. /\ SemaQueues' /\ sema' \in [SemaName -> SemaOf(Thread)]
      /\ \A r \in SemaName : sema'[r].value = sema[r].value
  <2>1. \A u \in Thread, r \in SemaName :
           Queued(u, r)' <=> Queued(u, r) \/ (u = current /\ r = s)
    BY <1>0, <1>1, <1>3, <1>4, QueuedStep DEF p
  <2>2. ~Queued(current, s)
    BY <1>0 DEF Queued
  <2> QED BY <1>0, <1>1, <2>1, <2>2, ListsQueue DEF s
<1>7. SyncType'
  BY <1>6 DEF SyncType
<1>8. Blocked'
  BY <1>1, <1>2, <1>3, <1>4, BlockedStep DEF Moved, p
<1>9. LockInv'
  <2>1. \A l \in Locks : sema'[l].value = sema[l].value
    BY <1>6 DEF SemaName
  <2> QED BY <2>1, <1>2, LocksStay DEF p
<1> QED BY <1>3, <1>5, <1>6, <1>7, <1>8, <1>9

LEMMA DownStep == ASSUME KernelInv, NEW t \in Thread, Down(t) PROVE KernelInv'
<1>1. current = t /\ pc[current][1] = "down" /\ UNCHANGED <<idle_thread, waiters>>
  BY DEF Down, At, others
<1>2. CASE sema[pc[t][2]].value > 0
  BY <1>1, <1>2, TakeStep DEF Down, cpu, KernelInv, CpuInv
<1>3. CASE ~(sema[pc[t][2]].value > 0)
  <2>1. t # Idle /\ PlaceOK(t, <<"wait", pc[t][2], pc[t][3]>>)
    BY <1>1, PlaceTaken DEF KernelInv, PlaceInv
  <2>2. Moved(t, <<"wait", pc[t][2], pc[t][3]>>)
    BY <1>1, <1>3, <2>1, GotoMoves DEF Down, KernelInv
  <2> QED BY <1>1, <1>3, <2>2, QueueStep DEF Down
<1> QED BY <1>2, <1>3

LEMMA WaitStep == ASSUME KernelInv, NEW t \in Thread, Wait(t) PROVE KernelInv'
<1>1. current = t /\ pc[current][1] = "wait" /\ UNCHANGED <<idle_thread, waiters>>
  BY DEF Wait, others
<1>2. CASE sema[pc[t][2]].value > 0
  BY <1>1, <1>2, TakeStep DEF Wait, cpu, KernelInv, CpuInv
<1>3. CASE ~(sema[pc[t][2]].value > 0)
  <2>1. t # Idle /\ PlaceOK(t, pc[t]) /\ pc[t] = <<"wait", pc[t][2], pc[t][3]>>
    BY <1>1, PlaceTaken DEF KernelInv, PlaceInv
  <2>2. Moved(t, <<"wait", pc[t][2], pc[t][3]>>)
    BY <1>1, <1>3, <2>1, GotoMoves DEF Wait, KernelInv
  <2> QED BY <1>1, <1>3, <2>2, QueueStep DEF Wait
<1> QED BY <1>2, <1>3

LEMMA ReleaseStep == ASSUME KernelInv, NEW t \in Thread, LockRelease(t) PROVE KernelInv'
<1> DEFINE l == pc[t][2]  p == pc[t][3]
<1> USE DEF KernelInv
<1>1. /\ current = t /\ pc[t][1] = "up" /\ holder' = [holder EXCEPT ![l] = Nobody]
      /\ Up(l, sema) /\ Goto(t, p) /\ UNCHANGED <<idle_thread, waiters>>
  BY DEF LockRelease, At, others
<1>2. /\ t # Idle /\ l \in Locks /\ PlaceOK(t, p)
      /\ \A c \in Thread : MakesAt(p, c) <=> MakesAt(pc[t], c)
      /\ \A k \in Locks : (HoldsAt(pc[t], k) <=> k = l) /\ ~HoldsAt(p, k)
  BY <1>1, PlaceReleased DEF PlaceInv
<1>3. Moved(t, p)
  BY <1>1, <1>2, GotoMoves
<1> HIDE DEF l, p
<1>4. holder' \in [Locks -> Thread \cup {Nobody}] /\ waiters' \in [Conds -> Seq(Thread)]
  BY <1>1, <1>2 DEF SyncType
<1>5. LockInv'
  <2>1. /\ holder[l] = t /\ l \in SemaName /\ sema[l] \in SemaOf(Thread)
        /\ Nobody \notin Thread
    BY <1>2, SchedulerAssumption DEF LockInv, SemaName, SyncType
  <2>2. sema[l].value = 0
    BY <1>2, <2>1 DEF LockInv
  <2>3. \A k \in Locks :
          /\ holder'[k] = IF k = l THEN Nobody ELSE holder[k]
          /\ sema'[k].value = IF k = l THEN 1 ELSE sema[k].value
    BY <1>1, <1>2, <2>1, <2>2 DEF Up, SyncType, SemaName, SemaUp, SemaOf
  <2>4. \A u \in Thread, k \in Locks :
           HoldsAt(pc'[u], k) <=> HoldsAt(pc[u], k) /\ ~(u = t /\ k = l)
    BY <1>2, <1>3 DEF Moved
  <2> QED BY <1>2, <2>1, <2>3, <2>4 DEF LockInv
<1> QED BY <1>1, <1>2, <1>3, <1>4, <1>5, UpStep DEF SemaName

\* cond_wait up to the release: the thread's own semaphore is new, its place is
\* still within the lock.
LEMMA CondWaitStep ==
    ASSUME KernelInv, NEW t \in Thread, current = t, t # Idle,
           NEW c \in Conds, NEW l \in Locks, NEW place, CondWait(t, c, l, place),
           PlaceOK(t, Release(l, <<"down", t, Acquire(l, place)>>)),
           \A k \in Locks : HoldsAt(pc[t], k) <=> k = l,
           \A b \in Thread : ~MakesAt(pc[t], b),
           UNCHANGED <<idle_thread, holder>>
    PROVE  KernelInv'
<1> DEFINE p == Release(l, <<"down", t, Acquire(l, place)>>)
<1> USE DEF KernelInv
<1>0. t \in SemaName \ Locks /\ sema[t].waiters = <<>>
  BY OwnSemaphore, SchedulerAssumption DEF SemaName
<1>1. Moved(t, p)
  BY GotoMoves DEF CondWait
<1>2. /\ \A b \in Thread : ~MakesAt(p, b)
      /\ \A k \in Locks : HoldsAt(p, k) <=> k = l
  BY DEF MakesAt, HoldsAt, Release, Acquire, Locks
<1>3. CpuInv' /\ Asleep({}, {}) /\ Ended({})
  BY QuietCpu DEF CondWait, cpu, CpuInv
<1>4. /\ sema' = [sema EXCEPT ![t] = sema_init(0)]
      /\ sema_init(0) \in SemaOf(Thread) /\ sema_init(0).waiters = <<>>
      /\ waiters' = [waiters EXCEPT ![c] = Append(@, t)]
  BY DEF CondWait, sema_init, SemaOf
<1> HIDE DEF p
<1>5. PlaceInv'
  BY <1>1, PlaceStep DEF p
<1>6. SyncType'
  BY <1>0, <1>4 DEF SyncType
<1>7. SemaQueues'
  <2>1. \A u \in Thread, r \in SemaName : Queued(u, r)' <=> Queued(u, r)
    BY <1>1, <1>3, QueuedStep DEF p
  <2>2. \A r \in SemaName : sema'[r].waiters = sema[r].waiters
    BY <1>0, <1>4 DEF SyncType
  <2> QED BY <2>1, <2>2, ListsStay
<1>8. Blocked'
  BY <1>1, <1>2, <1>3, BlockedStep DEF Moved
<1>9. LockInv'
  <2>1. \A k \in Locks : sema'[k].value = sema[k].value
    BY <1>0, <1>4 DEF SyncType, SemaName
  <2> QED BY <2>1, <1>1, <1>2, LocksStay
<1> QED BY <1>3, <1>5, <1>6, <1>7, <1>8, <1>9

\* The threads in the queue of a condition variable wait with their own semaphore.
LEMMA CondSignalStep ==
    ASSUME KernelInv, NEW t \in Thread, current = t, t # Idle,
           NEW c \in Conds, CondSignal(c),
           NEW p, PlaceOK(t, p), Goto(t, p),
           \A k \in Locks : HoldsAt(p, k) <=> HoldsAt(pc[t], k),
           \A b \in Thread : MakesAt(p, b) <=> MakesAt(pc[t], b),
           UNCHANGED <<idle_thread, holder>>
    PROVE  KernelInv'
<1> USE DEF KernelInv
<1>1. Moved(t, p)
  BY GotoMoves
<1>2. CASE waiters[c] = <<>>
  <2>1. UNCHANGED <<cpu, sema, waiters>>
    BY <1>2 DEF CondSignal
  <2>2. CpuInv' /\ Asleep({}, {}) /\ Ended({})
    BY <2>1, QuietCpu DEF cpu, CpuInv
  <2> QED BY <1>1, <2>1, <2>2, MoveStep DEF sync
<1>3. CASE waiters[c] # <<>>
  <2> DEFINE w == Head(waiters[c])
  <2>1. w \in Thread /\ waiters[c] \in Seq(Thread) /\ Tail(waiters[c]) \in Seq(Thread)
    BY <1>3 DEF SyncType
  <2>2. Up(w, sema) /\ waiters' = [waiters EXCEPT ![c] = Tail(@)]
    BY <1>3 DEF CondSignal
  <2> HIDE DEF w
  <2>3. w \in SemaName \ Locks
    BY <2>1, SchedulerAssumption DEF SemaName
  <2>4. /\ waiters' \in [Conds -> Seq(Thread)]
        /\ holder' \in [Locks -> Thread \cup {Nobody}]
    BY <2>1, <2>2 DEF SyncType
  <2>5. \A k \in Locks : sema'[k].value = sema[k].value
    BY <2>2, <2>3 DEF Up, SyncType, SemaName
  <2>6. LockInv'
    BY <1>1, <2>5, LocksStay
  <2> QED BY <1>1, <2>2, <2>3, <2>4, <2>6, UpStep
<1> QED BY <1>2, <1>3

LEMMA CreateStep ==
    ASSUME KernelInv, NEW t \in Thread, NEW c \in Thread, Create(t, c) PROVE KernelInv'
<1> DEFINE p == <<"down", "alive_lock", <<"count_up", c>>>>
<1> USE DEF KernelInv
<1>1. /\ current = t /\ pc[t][1] = "run" /\ status[c] = "none"
      /\ status' = [status EXCEPT ![c] = "blocked"]
      /\ pc' = [pc EXCEPT ![c] = <<"run">>, ![t] = p]
      /\ UNCHANGED <<current, level, ready_list, thread_ticks, idle_thread, sema, holder, waiters>>
  BY DEF Create, Call, At, Acquire, others, sync
<1>2. /\ t # c /\ c # Idle /\ t # Idle /\ status[t] = "running"
      /\ pc[c] = <<"none">> /\ pc[t] = <<"run">>
  BY <1>1, SchedulerAssumption DEF CpuInv, RunQueue, Blocked, PlaceInv, PlaceOK, Plain
<1>3. /\ DOMAIN pc' = Thread /\ pc'[c] = <<"run">> /\ pc'[t] = p
      /\ \A u \in Thread : u # c /\ u # t => pc'[u] = pc[u]
  BY <1>1, <1>2 DEF PlaceInv
<1>4. /\ status' \in [Thread -> Statuses] /\ status'[c] = "blocked"
      /\ \A u \in Thread : u # c => status'[u] = status[u]
  BY <1>1 DEF CpuInv, Statuses
<1>5. /\ \A b \in Thread : MakesAt(p, b) <=> b = c
      /\ \A u \in {t, c}, b \in Thread : ~MakesAt(pc[u], b)
      /\ \A b \in Thread : ~MakesAt(<<"run">>, b)
  BY <1>2 DEF MakesAt
<1>6. /\ \A u \in {t, c}, l \in Locks : ~HoldsAt(pc[u], l) /\ ~HoldsAt(pc'[u], l)
      /\ \A u \in {t, c}, s \in SemaName : ~WaitsAt(pc[u], s) /\ ~WaitsAt(pc'[u], s)
  BY <1>2, <1>3 DEF HoldsAt, WaitsAt, Locks
<1>7. PlaceOK(t, p) /\ PlaceOK(c, <<"run">>)
  BY <1>2 DEF PlaceOK, AfterDown, SemaName, Locks, Plain
<1> HIDE DEF p
<1>8. CpuInv'
  <2>1. RunQueue(current', status', ready_list', idle_thread')
    BY <1>1, <1>2, <1>4, SchedulerAssumption DEF CpuInv, RunQueue
  <2> QED BY <1>1, <1>4, <2>1 DEF CpuInv
<1>9. PlaceInv'
  BY <1>1, <1>2, <1>3, <1>7, SchedulerAssumption DEF PlaceInv
<1>10. SyncType'
  BY <1>1 DEF SyncType
<1>11. SemaQueues'
  <2>1. \A u \in Thread, s \in SemaName : Queued(u, s)' <=> Queued(u, s)
    BY <1>3, <1>4, <1>6 DEF Queued
  <2> QED BY <1>1, <2>1, ListsStay
<1>12. Blocked'
  <2>1. \A u, b \in Thread : MakesAt(pc'[u], b) <=> MakesAt(pc[u], b) \/ (u = t /\ b = c)
    BY <1>2, <1>3, <1>5
  <2>2. \A u \in Thread : ~MakesAt(pc[u], c)
    BY <1>1 DEF Blocked
  <2>3. \A u, b \in Thread : MakesAt(pc[u], b) => b # t /\ b # c
    BY <1>1, <1>2 DEF Blocked
  <2>4. \A u \in Thread \ {Idle} :
          status'[u] = "blocked" => pc'[u][1] = "wait" \/ \E v \in Thread : MakesAt(pc'[v], u)
    BY <1>2, <1>3, <1>4, <2>1 DEF Blocked
  <2>5. \A u, b \in Thread : MakesAt(pc'[u], b) => status'[b] = "blocked" /\ pc'[b] = <<"run">>
    BY <1>3, <1>4, <2>1, <2>3 DEF Blocked
  <2>6. \A u, v, b \in Thread : MakesAt(pc'[u], b) /\ MakesAt(pc'[v], b) => u = v
    BY <2>1, <2>2 DEF Blocked
  <2>7. \A u \in Thread : status'[u] \in {"none", "dying"} => pc'[u] = <<"none">>
    BY <1>2, <1>3, <1>4 DEF Blocked
  <2> QED BY <2>4, <2>5, <2>6, <2>7 DEF Blocked
<1>13. LockInv'
  BY <1>1, <1>3, <1>6 DEF LockInv
<1> QED BY <1>8, <1>9, <1>10, <1>11, <1>12, <1>13

\* The new thread joins the run queue; nobody makes it any more.
LEMMA UnblockNewStep ==
    ASSUME KernelInv, NEW t \in Thread, UnblockNew(t) PROVE KernelInv'
<1> DEFINE c == pc[t][2]
<1> USE DEF KernelInv
<1>1. /\ current = t /\ pc[t][1] = "unblock" /\ Unblock({c}) /\ Goto(t, <<"run">>)
      /\ UNCHANGED <<idle_thread, sema, holder, waiters>>
  BY DEF UnblockNew, At, others, sync
<1>2. t # Idle /\ c \in Thread /\ pc[t] = <<"unblock", c>>
  BY <1>1 DEF PlaceInv, PlaceOK, Plain
<1> HIDE DEF c
<1>3. /\ \A b \in Thread : MakesAt(pc[t], b) <=> b = c
      /\ \A b \in Thread : ~MakesAt(<<"run">>, b)
      /\ \A l \in Locks : ~HoldsAt(pc[t], l) /\ ~HoldsAt(<<"run">>, l)
  BY <1>2 DEF MakesAt, HoldsAt, Locks
<1>4. status[c] = "blocked" /\ pc[c] = <<"run">> /\ c # Idle /\ c # t
  BY <1>2, <1>3, SchedulerAssumption DEF Blocked, PlaceInv, PlaceOK
<1>5. PlaceOK(t, <<"run">>)
  BY <1>2 DEF PlaceOK, Plain
<1>6. Moved(t, <<"run">>)
  BY <1>1, <1>2, <1>5, GotoMoves
<1>7. CpuInv' /\ Asleep({c}, {}) /\ Ended({})
  BY <1>1, <1>2, <1>4, UnblockRun
<1>8. PlaceInv'
  BY <1>5, <1>6, PlaceStep
<1>9. SyncType'
  BY <1>1 DEF SyncType
<1>10. SemaQueues'
  <2>1. \A s \in SemaName : ~WaitsAt(pc[c], s)
    BY <1>4 DEF WaitsAt
  <2>2. \A u \in Thread, s \in SemaName : Queued(u, s)' <=> Queued(u, s) /\ u \notin {c}
    BY <1>1, <1>5, <1>6, <1>7, QueuedStep
  <2>3. \A u \in Thread, s \in SemaName : Queued(u, s)' <=> Queued(u, s)
    BY <2>1, <2>2 DEF Queued
  <2> QED BY <1>1, <2>3, ListsStay
<1>11. Blocked'
  <2>1. \A u, b \in Thread : MakesAt(pc'[u], b) <=> MakesAt(pc[u], b) /\ b # c
    <3>1. \A u \in Thread : MakesAt(pc[u], c) => u = t
      BY <1>2, <1>3 DEF Blocked
    <3> QED BY <3>1, <1>3, <1>6 DEF Moved
  <2>2. status[t] = "running"
    BY <1>1 DEF CpuInv, RunQueue
  <2>3. \A u \in Thread \ {Idle} :
          status'[u] = "blocked" => pc'[u][1] = "wait" \/ \E v \in Thread : MakesAt(pc'[v], u)
    BY <1>6, <1>7, <2>1, <2>2 DEF Blocked, Moved, Asleep
  <2>4. \A u, b \in Thread : MakesAt(pc'[u], b) => status'[b] = "blocked" /\ pc'[b] = <<"run">>
    <3>1. \A b \in Thread : pc[b] = <<"run">> => b # Idle
      BY SchedulerAssumption DEF PlaceInv, PlaceOK
    <3> QED BY <3>1, <1>6, <1>7, <2>1, <2>2 DEF Blocked, Moved, Asleep
  <2>5. \A u, v, b \in Thread : MakesAt(pc'[u], b) /\ MakesAt(pc'[v], b) => u = v
    BY <2>1 DEF Blocked
  <2>6. \A u \in Thread : status'[u] \in {"none", "dying"} => pc'[u] = <<"none">>
    BY <1>6, <1>7, <2>2 DEF Blocked, Moved, Ended
  <2> QED BY <2>3, <2>4, <2>5, <2>6 DEF Blocked
<1>12. LockInv'
  BY <1>1, <1>3, <1>6, LocksStay
<1> QED BY <1>7, <1>8, <1>9, <1>10, <1>11, <1>12

LEMMA DieStep == ASSUME KernelInv, NEW t \in Thread, Die(t) PROVE KernelInv'
<1> USE DEF KernelInv
<1>1. /\ current = t /\ pc[t][1] = "die" /\ Goto(t, <<"none">>)
      /\ Schedule([status EXCEPT ![t] = "dying"], ready_list)
      /\ UNCHANGED <<idle_thread, sema, holder, waiters>>
  BY DEF Die, At, others, sync
<1>2. t # Idle /\ pc[t] = <<"die">> /\ PlaceOK(t, <<"none">>) /\ status[t] = "running"
  BY <1>1 DEF PlaceInv, PlaceOK, Plain, CpuInv, RunQueue
<1>3. Moved(t, <<"none">>)
  BY <1>1, <1>2, GotoMoves
<1>4. CpuInv' /\ Asleep({}, {}) /\ Ended({t})
  BY <1>1, <1>2, DieRun
<1>5. /\ \A b \in Thread : ~MakesAt(pc[t], b) /\ ~MakesAt(<<"none">>, b)
      /\ \A l \in Locks : ~HoldsAt(pc[t], l) /\ ~HoldsAt(<<"none">>, l)
  BY <1>2 DEF MakesAt, HoldsAt, Locks
<1>6. PlaceInv'
  BY <1>2, <1>3, PlaceStep
<1>7. SyncType'
  BY <1>1 DEF SyncType
<1>8. SemaQueues'
  <2>1. \A u \in Thread, s \in SemaName : Queued(u, s)' <=> Queued(u, s)
    BY <1>1, <1>2, <1>3, <1>4, QueuedStep
  <2> QED BY <1>1, <2>1, ListsStay
<1>9. Blocked'
  <2>1. \A u, b \in Thread : MakesAt(pc'[u], b) <=> MakesAt(pc[u], b)
    BY <1>3, <1>5 DEF Moved
  <2>2. \A u \in Thread : pc[u] = <<"run">> => u # Idle /\ u # t
    BY <1>2, SchedulerAssumption DEF PlaceInv, PlaceOK
  <2>3. \A u \in Thread \ {Idle} :
          status'[u] = "blocked" => pc'[u][1] = "wait" \/ \E v \in Thread : MakesAt(pc'[v], u)
    BY <1>2, <1>3, <1>4, <2>1 DEF Blocked, Moved, Asleep
  <2>4. \A u, b \in Thread : MakesAt(pc'[u], b) => status'[b] = "blocked" /\ pc'[b] = <<"run">>
    BY <1>3, <1>4, <2>1, <2>2 DEF Blocked, Moved, Asleep
  <2>5. \A u, v, b \in Thread : MakesAt(pc'[u], b) /\ MakesAt(pc'[v], b) => u = v
    BY <2>1 DEF Blocked
  <2>6. \A u \in Thread : status'[u] \in {"none", "dying"} => pc'[u] = <<"none">>
    BY <1>3, <1>4 DEF Blocked, Moved, Ended
  <2> QED BY <2>3, <2>4, <2>5, <2>6 DEF Blocked
<1>10. LockInv'
  BY <1>1, <1>3, <1>5, LocksStay
<1> QED BY <1>4, <1>6, <1>7, <1>8, <1>9, <1>10

-----------------------------------------------------------------------------
(* Interrupts and the idle thread.                                         *)

\* Only the idle thread is ever found at hlt.
LEMMA ResumedMoves ==
    ASSUME KernelInv, pc' = Resumed, UNCHANGED idle_thread
    PROVE  \E p : /\ Moved(current, p) /\ PlaceOK(current, p)
                  /\ \A b \in Thread : MakesAt(p, b) <=> MakesAt(pc[current], b)
                  /\ \A l \in Locks : HoldsAt(p, l) <=> HoldsAt(pc[current], l)
<1> USE DEF KernelInv
<1>1. current \in Thread /\ PlaceOK(current, pc[current])
  BY DEF CpuInv, PlaceInv
<1>2. CASE pc[current] = <<"hlt">>
  <2>1. current = Idle
    BY <1>1, <1>2 DEF PlaceOK, Plain
  <2>2. pc' = [pc EXCEPT ![Idle] = <<"block">>] /\ idle_thread = Idle
    BY <1>2, <2>1 DEF Resumed, PlaceInv
  <2>3. Moved(current, <<"block">>)
    BY <1>1, <2>1, <2>2 DEF Moved, PlaceInv
  <2>4. PlaceOK(current, <<"block">>)
    BY <2>1 DEF PlaceOK
  <2>5. /\ \A b \in Thread : MakesAt(<<"block">>, b) <=> MakesAt(pc[current], b)
        /\ \A l \in Locks : HoldsAt(<<"block">>, l) <=> HoldsAt(pc[current], l)
    BY <1>2 DEF MakesAt, HoldsAt, Locks
  <2> QED BY <2>3, <2>4, <2>5
<1>3. CASE pc[current] # <<"hlt">>
  <2>1. pc' = pc
    BY <1>3 DEF Resumed
  <2>2. Moved(current, pc[current])
    BY <1>1, <2>1 DEF Moved, PlaceInv
  <2> QED BY <1>1, <2>2
<1> QED BY <1>2, <1>3

LEMMA TickStep == ASSUME KernelInv, Tick PROVE KernelInv'
<1>1. pc' = Resumed /\ UNCHANGED <<idle_thread, sync>>
  BY DEF Tick
<1>2. CpuInv' /\ Asleep({}, {}) /\ Ended({})
  <2>1. CASE thread_ticks + 1 >= TimeSlice
    BY <1>1, <2>1, YieldRun DEF Tick, KernelInv
  <2>2. CASE ~(thread_ticks + 1 >= TimeSlice)
    <3>1. /\ UNCHANGED <<current, status, ready_list, idle_thread>>
          /\ level' \in {"on", "off"} /\ thread_ticks' \in Nat
      BY <1>1, <2>2 DEF Tick, KernelInv, CpuInv
    <3> QED BY <3>1, QuietCpu DEF KernelInv
  <2> QED BY <2>1, <2>2
<1>3. PICK p : /\ Moved(current, p) /\ PlaceOK(current, p)
               /\ \A b \in Thread : MakesAt(p, b) <=> MakesAt(pc[current], b)
               /\ \A l \in Locks : HoldsAt(p, l) <=> HoldsAt(pc[current], l)
  BY <1>1, ResumedMoves
<1> QED BY <1>1, <1>2, <1>3, MoveStep

LEMMA DiskInterruptStep == ASSUME KernelInv, DiskInterrupt PROVE KernelInv'
<1>1. pc' = Resumed /\ UNCHANGED <<idle_thread, holder, waiters>>
  BY DEF DiskInterrupt, others
<1>2. PICK p : /\ Moved(current, p) /\ PlaceOK(current, p)
               /\ \A b \in Thread : MakesAt(p, b) <=> MakesAt(pc[current], b)
               /\ \A l \in Locks : HoldsAt(p, l) <=> HoldsAt(pc[current], l)
  BY <1>1, ResumedMoves
<1>3. CASE expecting
  <2>1. Up("completion_wait", sema) /\ "completion_wait" \in SemaName \ Locks
    BY <1>3 DEF DiskInterrupt, SemaName, Locks
  <2>2. \A k \in Locks : sema'[k].value = sema[k].value
    BY <2>1 DEF Up, KernelInv, SyncType, SemaName
  <2>3. LockInv'
    BY <1>1, <1>2, <2>2, LocksStay DEF KernelInv
  <2>4. /\ waiters' \in [Conds -> Seq(Thread)]
        /\ holder' \in [Locks -> Thread \cup {Nobody}]
    BY <1>1 DEF KernelInv, SyncType
  <2> QED BY <1>2, <2>1, <2>3, <2>4, UpStep
<1>4. CASE ~expecting
  <2>1. UNCHANGED <<cpu, sema>>
    BY <1>4 DEF DiskInterrupt
  <2>2. CpuInv' /\ Asleep({}, {}) /\ Ended({})
    BY <1>1, <2>1, QuietCpu DEF cpu, KernelInv, CpuInv
  <2> QED BY <1>1, <1>2, <2>1, <2>2, MoveStep DEF sync
<1> QED BY <1>3, <1>4

LEMMA EnableStep ==
    ASSUME KernelInv, NEW t \in Thread, EnableInterrupts(t) PROVE KernelInv'
<1>1. /\ current = t /\ level' = "on"
      /\ UNCHANGED <<current, status, ready_list, thread_ticks, idle_thread, pc, sync>>
  BY DEF EnableInterrupts, others
<1>2. CpuInv' /\ Asleep({}, {}) /\ Ended({})
  BY <1>1, QuietCpu DEF KernelInv, CpuInv
<1>3. PlaceOK(current, pc[current]) /\ Moved(current, pc[current])
  BY <1>1 DEF KernelInv, PlaceInv, Moved
<1> QED BY <1>1, <1>2, <1>3, MoveStep

LEMMA IdleStartStep == ASSUME KernelInv, IdleStart PROVE KernelInv'
<1>1. /\ current = Idle /\ pc[Idle][1] = "idle" /\ idle_thread' = Idle
      /\ Up("idle_started", sema) /\ Goto(Idle, <<"block">>) /\ UNCHANGED <<holder, waiters>>
  BY DEF IdleStart, At
<1>2. PlaceOK(Idle, <<"block">>) /\ pc[Idle] = <<"idle">>
  BY <1>1, SchedulerAssumption DEF KernelInv, PlaceInv, PlaceOK
<1>3. Moved(Idle, <<"block">>)
  BY <1>1, SchedulerAssumption DEF Goto, Moved, KernelInv, PlaceInv
<1>4. /\ \A b \in Thread : MakesAt(<<"block">>, b) <=> MakesAt(pc[Idle], b)
      /\ \A l \in Locks : HoldsAt(<<"block">>, l) <=> HoldsAt(pc[Idle], l)
  BY <1>2 DEF MakesAt, HoldsAt, Locks
<1>5. "idle_started" \in SemaName \ Locks
  BY DEF SemaName, Locks
<1>6. \A k \in Locks : sema'[k].value = sema[k].value
  BY <1>1, <1>5 DEF Up, KernelInv, SyncType, SemaName
<1>7. LockInv'
  BY <1>1, <1>3, <1>4, <1>6, LocksStay DEF KernelInv
<1>8. /\ waiters' \in [Conds -> Seq(Thread)]
      /\ holder' \in [Locks -> Thread \cup {Nobody}]
  BY <1>1 DEF KernelInv, SyncType
<1> QED BY <1>1, <1>2, <1>3, <1>4, <1>5, <1>7, <1>8, UpStep

LEMMA IdleBlockStep == ASSUME KernelInv, IdleBlock PROVE KernelInv'
<1>1. /\ current = Idle /\ pc[Idle][1] = "block" /\ Block(Idle) /\ Goto(Idle, <<"hlt">>)
      /\ UNCHANGED <<sync, idle_thread>>
  BY DEF IdleBlock, At, others
<1>2. /\ PlaceOK(Idle, <<"hlt">>) /\ pc[Idle] = <<"block">> /\ idle_thread = Idle
      /\ Idle \in Thread
  BY <1>1, SchedulerAssumption DEF KernelInv, PlaceInv, PlaceOK
<1>3. Moved(Idle, <<"hlt">>)
  BY <1>1, <1>2 DEF Goto, Moved, KernelInv, PlaceInv
<1>4. /\ \A b \in Thread : MakesAt(<<"hlt">>, b) <=> MakesAt(pc[Idle], b)
      /\ \A l \in Locks : HoldsAt(<<"hlt">>, l) <=> HoldsAt(pc[Idle], l)
  BY <1>2 DEF MakesAt, HoldsAt, Locks
<1>5. CpuInv' /\ Asleep({}, {}) /\ Ended({})
  <2>1. CpuInv' /\ Asleep({}, {Idle}) /\ Ended({})
    BY <1>1, <1>2, BlockRun DEF KernelInv
  <2> QED BY <2>1 DEF Asleep
<1> QED BY <1>1, <1>2, <1>3, <1>4, <1>5, MoveStep

-----------------------------------------------------------------------------
(* The other steps.                                                        *)

\* t goes to p, and nothing else that the invariant is about changes.
LEMMA PlainStep ==
    ASSUME KernelInv, NEW t \in Thread, NEW p, PlaceOK(t, p), current = t, t # Idle, Goto(t, p),
           UNCHANGED <<current, status, level, ready_list, thread_ticks, idle_thread, sync>>,
           \A b \in Thread : MakesAt(p, b) <=> MakesAt(pc[t], b),
           \A l \in Locks : HoldsAt(p, l) <=> HoldsAt(pc[t], l)
    PROVE  KernelInv'
<1>1. Moved(t, p)
  BY GotoMoves DEF KernelInv
<1>2. CpuInv' /\ Asleep({}, {}) /\ Ended({})
  BY QuietCpu DEF KernelInv, CpuInv
<1> QED BY <1>1, <1>2, MoveStep

\* A thread that made nobody and was in no lock goes to p.
LEMMA FreeStep ==
    ASSUME KernelInv, NEW t \in Thread, current = t,
           pc[t][1] \in {"run", "cleanup", "deactivate", "destroy", "activate", "sleep"},
           NEW p, Goto(t, p),
           \/ \E x \in {"run", "sleep", "deactivate", "destroy", "die", "activate"} : p = <<x>>
           \/ p \in {Acquire("alive_lock", <<"count_down">>),
                     Acquire("alive_lock", <<"poweroff_check">>),
                     Acquire("sl_lock", <<"append">>), Acquire("sl_lock", <<"remove">>),
                     Acquire("channel_lock", <<"issue", "read">>),
                     Acquire("channel_lock", <<"issue", "write">>)},
           UNCHANGED <<current, status, level, ready_list, thread_ticks, idle_thread, sync>>
    PROVE  KernelInv'
<1>1. t # Idle /\ \E x \in Plain : x # "count_up" /\ pc[t] = <<x>> /\ pc[t][1] = x
  BY DEF KernelInv, PlaceInv, PlaceOK, Plain
<1>2. PlaceOK(t, p)
  BY <1>1 DEF PlaceOK, AfterDown, Acquire, Plain, SemaName, Locks
<1>3. \A b \in Thread : ~MakesAt(p, b) /\ ~MakesAt(pc[t], b)
  BY <1>1 DEF MakesAt, Acquire
<1>4. \A l \in Locks : ~HoldsAt(p, l) /\ ~HoldsAt(pc[t], l)
  BY <1>1 DEF HoldsAt, Acquire, Locks
<1> QED BY <1>1, <1>2, <1>3, <1>4, PlainStep

LEMMA CountUpStep == ASSUME KernelInv, NEW t \in Thread, CountUp(t) PROVE KernelInv'
<1> DEFINE p == Release("alive_lock", <<"unblock", pc[t][2]>>)
<1>1. /\ current = t /\ pc[t][1] = "count_up" /\ Goto(t, p)
      /\ UNCHANGED <<current, status, level, ready_list, thread_ticks, idle_thread, sync>>
  BY DEF CountUp, At, cpu
<1>2. t # Idle /\ pc[t][2] \in Thread /\ pc[t] = <<"count_up", pc[t][2]>>
  BY <1>1 DEF KernelInv, PlaceInv, PlaceOK, Plain
<1>3. PlaceOK(t, p)
  BY <1>2 DEF PlaceOK, AfterUp, Release, Locks
<1>4. /\ \A b \in Thread : MakesAt(p, b) <=> MakesAt(pc[t], b)
      /\ \A l \in Locks : HoldsAt(p, l) <=> HoldsAt(pc[t], l)
  BY <1>2 DEF MakesAt, HoldsAt, Release, Locks
<1> QED BY <1>1, <1>2, <1>3, <1>4, PlainStep

LEMMA CountDownStep == ASSUME KernelInv, NEW t \in Thread, CountDown(t) PROVE KernelInv'
<1> DEFINE p == Release("alive_lock", <<"cleanup">>)
<1>1. /\ current = t /\ pc[t][1] = "count_down" /\ Goto(t, p) /\ CondSignal("alive_cond")
      /\ UNCHANGED <<idle_thread, holder>>
  BY DEF CountDown, At
<1>2. t # Idle /\ pc[t] = <<"count_down">> /\ "alive_cond" \in Conds
  BY <1>1 DEF KernelInv, PlaceInv, PlaceOK, Plain, Conds
<1>3. PlaceOK(t, p)
  BY <1>2 DEF PlaceOK, AfterUp, Release, Locks
<1>4. /\ \A b \in Thread : MakesAt(p, b) <=> MakesAt(pc[t], b)
      /\ \A l \in Locks : HoldsAt(p, l) <=> HoldsAt(pc[t], l)
  BY <1>2 DEF MakesAt, HoldsAt, Release, Locks
<1> QED BY <1>1, <1>2, <1>3, <1>4, CondSignalStep

LEMMA SlAppendStep == ASSUME KernelInv, NEW t \in Thread, SlAppend(t) PROVE KernelInv'
<1> DEFINE p == Release("sl_lock", <<"run">>)
<1>1. /\ current = t /\ pc[t][1] = "append" /\ Goto(t, p) /\ CondSignal("sl_empty")
      /\ UNCHANGED <<idle_thread, holder>>
  BY DEF SlAppend, At
<1>2. t # Idle /\ pc[t] = <<"append">> /\ "sl_empty" \in Conds
  BY <1>1 DEF KernelInv, PlaceInv, PlaceOK, Plain, Conds
<1>3. PlaceOK(t, p)
  BY <1>2 DEF PlaceOK, AfterUp, Release, Locks
<1>4. /\ \A b \in Thread : MakesAt(p, b) <=> MakesAt(pc[t], b)
      /\ \A l \in Locks : HoldsAt(p, l) <=> HoldsAt(pc[t], l)
  BY <1>2 DEF MakesAt, HoldsAt, Release, Locks
<1> QED BY <1>1, <1>2, <1>3, <1>4, CondSignalStep

LEMMA SlRemoveStep == ASSUME KernelInv, NEW t \in Thread, SlRemove(t) PROVE KernelInv'
<1>1. /\ current = t /\ pc[t][1] = "remove" /\ UNCHANGED <<idle_thread, holder>>
  BY DEF SlRemove, At
<1>2. t # Idle /\ pc[t] = <<"remove">> /\ "sl_empty" \in Conds /\ "sl_lock" \in Locks
  BY <1>1 DEF KernelInv, PlaceInv, PlaceOK, Plain, Conds, Locks
<1>3. /\ \A b \in Thread : ~MakesAt(pc[t], b)
      /\ \A l \in Locks : HoldsAt(pc[t], l) <=> l = "sl_lock"
  BY <1>2 DEF MakesAt, HoldsAt, Locks
<1>4. CASE items = 0
  <2>1. CondWait(t, "sl_empty", "sl_lock", <<"remove">>)
    BY <1>4 DEF SlRemove
  <2>2. PlaceOK(t, Release("sl_lock", <<"down", t, Acquire("sl_lock", <<"remove">>)>>))
    BY <1>2 DEF PlaceOK, AfterUp, Release, Acquire, Locks
  <2> QED BY <1>1, <1>2, <1>3, <2>1, <2>2, CondWaitStep
<1>5. CASE items # 0
  <2> DEFINE p == Release("sl_lock", <<"run">>)
  <2>1. /\ Goto(t, p)
        /\ UNCHANGED <<current, status, level, ready_list, thread_ticks, idle_thread, sync>>
    BY <1>1, <1>5 DEF SlRemove, cpu, sync
  <2>2. PlaceOK(t, p)
    BY <1>2 DEF PlaceOK, AfterUp, Release, Locks
  <2>3. /\ \A b \in Thread : ~MakesAt(p, b)
        /\ \A l \in Locks : HoldsAt(p, l) <=> l = "sl_lock"
    BY DEF MakesAt, HoldsAt, Release, Locks
  <2> QED BY <1>1, <1>2, <1>3, <2>1, <2>2, <2>3, PlainStep
<1> QED BY <1>4, <1>5

LEMMA PowerOffCheckStep == ASSUME KernelInv, NEW t \in Thread, PowerOffCheck(t) PROVE KernelInv'
<1>1. /\ current = t /\ pc[t][1] = "poweroff_check" /\ UNCHANGED <<idle_thread, holder>>
  BY DEF PowerOffCheck, At, others
<1>2. t # Idle /\ pc[t] = <<"poweroff_check">> /\ "alive_cond" \in Conds /\ "alive_lock" \in Locks
  BY <1>1 DEF KernelInv, PlaceInv, PlaceOK, Plain, Conds, Locks
<1>3. /\ \A b \in Thread : ~MakesAt(pc[t], b)
      /\ \A l \in Locks : HoldsAt(pc[t], l) <=> l = "alive_lock"
  BY <1>2 DEF MakesAt, HoldsAt, Locks
<1>4. CASE t = Main /\ CondWait(t, "alive_cond", "alive_lock", <<"poweroff_check">>)
  <2>1. PlaceOK(t, Release("alive_lock", <<"down", t, Acquire("alive_lock", <<"poweroff_check">>)>>))
    BY <1>2, <1>4 DEF PlaceOK, AfterUp, Release, Acquire, Locks
  <2> QED BY <1>1, <1>2, <1>3, <1>4, <2>1, CondWaitStep
<1>5. CASE Goto(t, Release("alive_lock", <<"hard_power_off">>)) /\ UNCHANGED <<cpu, sema, waiters>>
  <2> DEFINE p == Release("alive_lock", <<"hard_power_off">>)
  <2>1. UNCHANGED <<current, status, level, ready_list, thread_ticks, idle_thread, sync>>
    BY <1>1, <1>5 DEF cpu, sync
  <2>2. PlaceOK(t, p)
    BY <1>2 DEF PlaceOK, AfterUp, Release, Locks
  <2>3. /\ \A b \in Thread : ~MakesAt(p, b)
        /\ \A l \in Locks : HoldsAt(p, l) <=> l = "alive_lock"
    BY DEF MakesAt, HoldsAt, Release, Locks
  <2> QED BY <1>1, <1>2, <1>3, <1>5, <2>1, <2>2, <2>3, PlainStep
<1> QED BY <1>4, <1>5 DEF PowerOffCheck

\* The driver holds the channel's lock from issue until it has what it waited for.
LEMMA DriverStep ==
    ASSUME KernelInv, NEW t \in Thread, Issue(t) \/ Output(t) \/ Input(t) PROVE KernelInv'
<1> DEFINE up == Release("channel_lock", <<"run">>)
<1>1. /\ current = t /\ pc[t][1] \in {"issue", "output", "input"}
      /\ UNCHANGED <<current, status, level, ready_list, thread_ticks, idle_thread, sync>>
  BY DEF Issue, Output, Input, At, cpu, others
<1>2. PICK p \in {<<"down", "completion_wait", <<"input">>>>, <<"output">>,
                  <<"down", "completion_wait", up>>, up} : Goto(t, p)
  BY DEF Issue, Output, Input
<1>3. /\ t # Idle
      /\ \/ pc[t] \in {<<"output">>, <<"input">>}
         \/ \E x \in {"read", "write"} : pc[t] = <<"issue", x>>
  BY <1>1 DEF KernelInv, PlaceInv, PlaceOK, Plain
<1>4. PlaceOK(t, p)
  BY <1>2, <1>3 DEF PlaceOK, AfterUp, AfterDown, Release, Locks, SemaName, Plain
<1>5. \A b \in Thread : ~MakesAt(pc[t], b) /\ ~MakesAt(p, b)
  BY <1>2, <1>3 DEF MakesAt, Release
<1>6. \A l \in Locks : (HoldsAt(pc[t], l) <=> l = "channel_lock") /\ (HoldsAt(p, l) <=> l = "channel_lock")
  BY <1>2, <1>3 DEF HoldsAt, Release, Locks
<1> QED BY <1>1, <1>2, <1>3, <1>4, <1>5, <1>6, PlainStep

LEMMA FreeSteps ==
    ASSUME KernelInv, NEW t \in Thread,
           \/ Cleanup(t) \/ Deactivate(t) \/ Destroy(t) \/ Activate(t)
           \/ Exit(t) \/ Load(t) \/ PowerOff(t) \/ Sleep(t) \/ SlCall(t) \/ DiskCall(t)
    PROVE  KernelInv'
<1> USE DEF cpu, others, At, Call
<1>1. CASE Cleanup(t) \/ Deactivate(t) \/ Destroy(t) \/ Activate(t)
  BY <1>1, FreeStep DEF Cleanup, Deactivate, Destroy, Activate
<1>2. CASE Exit(t) \/ Load(t) \/ PowerOff(t) \/ Sleep(t)
  BY <1>2, FreeStep DEF Exit, Load, PowerOff, Sleep
<1>3. CASE SlCall(t) \/ DiskCall(t)
  BY <1>3, FreeStep DEF SlCall, DiskCall
<1> QED BY <1>1, <1>2, <1>3

LEMMA SleepLoopStep == ASSUME KernelInv, NEW t \in Thread, SleepLoop(t) PROVE KernelInv'
<1>1. current = t /\ pc[t][1] = "sleep" /\ UNCHANGED <<idle_thread, sync>>
  BY DEF SleepLoop, At, others
<1>2. CASE Yield(t) /\ UNCHANGED pc
  <2>1. t # Idle /\ PlaceOK(t, pc[t])
    BY <1>1 DEF KernelInv, PlaceInv, PlaceOK
  <2>2. Moved(t, pc[t])
    BY <1>1, <1>2, <2>1, GotoMoves DEF KernelInv
  <2>3. CpuInv' /\ Asleep({}, {}) /\ Ended({})
    BY <1>1, <1>2, YieldRun DEF KernelInv
  <2> QED BY <1>1, <2>1, <2>2, <2>3, MoveStep
<1>3. CASE Goto(t, <<"run">>) /\ UNCHANGED cpu
  BY <1>1, <1>3, FreeStep DEF cpu
<1> QED BY <1>2, <1>3 DEF SleepLoop

-----------------------------------------------------------------------------
LEMMA KernelInit == Init => KernelInv
<1> SUFFICES ASSUME Init PROVE KernelInv
  OBVIOUS
<1>0. Main \in Thread /\ Idle \in Thread /\ Main # Idle /\ Nobody \notin Thread
  BY SchedulerAssumption
<1>1. /\ DOMAIN pc = Thread
      /\ pc[Main] = <<"down", "idle_started", <<"run">>>> /\ pc[Idle] = <<"idle">>
      /\ \A t \in Thread \ {Main, Idle} : pc[t] = <<"none">>
  BY <1>0 DEF Init
<1>2. /\ status \in [Thread -> Statuses]
      /\ status[Main] = "running" /\ status[Idle] = "ready"
      /\ \A t \in Thread \ {Main, Idle} : status[t] = "none"
  BY <1>0 DEF Init, Statuses
<1>3. /\ current = Main /\ level = "off" /\ ready_list = <<Idle>> /\ thread_ticks = 0
      /\ idle_thread = Nobody
      /\ sema = [s \in SemaName |-> sema_init(IF s \in Locks THEN 1 ELSE 0)]
      /\ holder = [l \in Locks |-> Nobody] /\ waiters = [c \in Conds |-> <<>>]
  BY DEF Init
<1>4. \A s \in SemaName : /\ sema[s] \in SemaOf(Thread) /\ sema[s].waiters = <<>>
                          /\ sema[s].value = IF s \in Locks THEN 1 ELSE 0
  BY <1>3 DEF sema_init, SemaOf
<1>5. CpuInv
  <2>1. /\ ready_list \in Seq(Thread) /\ Once(ready_list)
        /\ \A t \in Thread : In(ready_list, t) <=> t = Idle
    BY <1>0, <1>3 DEF Once, In
  <2>2. RunQueue(current, status, ready_list, idle_thread)
    BY <1>0, <1>2, <1>3, <2>1 DEF RunQueue
  <2> QED BY <1>0, <1>2, <1>3, <2>1, <2>2 DEF CpuInv
<1>6. PlaceInv
  <2>1. PlaceOK(Main, pc[Main])
    BY <1>0, <1>1 DEF PlaceOK, AfterDown, SemaName
  <2>2. \A t \in Thread \ {Main} : PlaceOK(t, pc[t])
    BY <1>0, <1>1 DEF PlaceOK, Plain
  <2> QED BY <1>0, <1>1, <1>3, <2>1, <2>2 DEF PlaceInv
<1>7. SyncType
  BY <1>3, <1>4 DEF SyncType
<1>8. SemaQueues
  <2>1. \A t \in Thread, s \in SemaName : ~WaitsAt(pc[t], s)
    BY <1>0, <1>1 DEF WaitsAt
  <2>2. Once(<<>>) /\ \A t \in Thread : ~In(<<>>, t)
    BY DEF Once, In
  <2> QED BY <1>4, <2>1, <2>2 DEF SemaQueues
<1>9. Blocked
  <2>1. \A t, c \in Thread : ~MakesAt(pc[t], c)
    BY <1>0, <1>1 DEF MakesAt
  <2> QED BY <1>0, <1>1, <1>2, <2>1 DEF Blocked
<1>10. LockInv
  <2>1. \A t \in Thread, l \in Locks : ~HoldsAt(pc[t], l)
    BY <1>0, <1>1 DEF HoldsAt, Locks
  <2> QED BY <1>0, <1>3, <1>4, <2>1 DEF LockInv, SemaName
<1> QED BY <1>5, <1>6, <1>7, <1>8, <1>9, <1>10 DEF KernelInv

LEMMA KernelNext == KernelInv /\ [Next]_vars => KernelInv'
<1> SUFFICES ASSUME KernelInv, [Next]_vars PROVE KernelInv'
  OBVIOUS
<1>1. CASE Tick \/ DiskInterrupt
  BY <1>1, TickStep, DiskInterruptStep
<1>2. ASSUME NEW t \in Thread, EnableInterrupts(t) PROVE KernelInv'
  BY <1>2, EnableStep
<1>3. ASSUME NEW t \in Thread, Run(t) PROVE KernelInv'
  <2>1. CASE HardPowerOff(t)
    <3>1. UNCHANGED <<cpu, pc, sync, idle_thread>>
      BY <2>1 DEF HardPowerOff
    <3> QED BY <3>1 DEF cpu, sync, KernelInv, CpuInv, PlaceInv, SyncType, SemaQueues,
                        Blocked, LockInv
  <2>2. CASE \/ Down(t) \/ Wait(t) \/ LockRelease(t) \/ (t = Idle /\ (IdleStart \/ IdleBlock))
             \/ CountUp(t) \/ UnblockNew(t) \/ CountDown(t) \/ Die(t)
    BY <2>2, DownStep, WaitStep, ReleaseStep, IdleStartStep, IdleBlockStep, CountUpStep,
       UnblockNewStep, CountDownStep, DieStep
  <2>3. CASE \/ Cleanup(t) \/ Deactivate(t) \/ Destroy(t) \/ Activate(t)
             \/ PowerOffCheck(t) \/ SleepLoop(t)
             \/ SlAppend(t) \/ SlRemove(t) \/ Issue(t) \/ Output(t) \/ Input(t)
    BY <2>3, FreeSteps, PowerOffCheckStep, SleepLoopStep, SlAppendStep, SlRemoveStep, DriverStep
  <2> QED
    <3>1. \/ HardPowerOff(t)
          \/ Down(t) \/ Wait(t) \/ LockRelease(t) \/ (t = Idle /\ (IdleStart \/ IdleBlock))
          \/ CountUp(t) \/ UnblockNew(t) \/ CountDown(t) \/ Die(t)
          \/ Cleanup(t) \/ Deactivate(t) \/ Destroy(t) \/ Activate(t)
          \/ PowerOffCheck(t) \/ SleepLoop(t)
          \/ SlAppend(t) \/ SlRemove(t) \/ Issue(t) \/ Output(t) \/ Input(t)
      BY <1>3 DEF Run
    <3> QED BY <3>1, <2>1, <2>2, <2>3
<1>4. ASSUME NEW t \in Thread, Program(t) PROVE KernelInv'
  BY <1>4, CreateStep, FreeSteps DEF Program
<1>5. CASE UNCHANGED vars
  BY <1>5 DEF vars, cpu, sync, others, KernelInv, CpuInv, PlaceInv, SyncType, SemaQueues,
              Blocked, LockInv
<1> QED BY <1>1, <1>2, <1>3, <1>4, <1>5 DEF Next

-----------------------------------------------------------------------------
(* What follows from the invariant.                                        *)

LEMMA TimesOnce ==
    ASSUME NEW q \in Seq(Thread), Once(q), NEW t \in Thread
    PROVE  Times(q, t) = IF In(q, t) THEN 1 ELSE 0
<1> DEFINE D == {i \in DOMAIN q : q[i] = t}
<1>1. DOMAIN q = 1..Len(q) /\ Times(q, t) = Cardinality(D)
  BY DEF Times
<1>2. CASE In(q, t)
  <2>1. PICK i \in 1..Len(q) : q[i] = t
    BY <1>2 DEF In
  <2>2. D = {i}
    BY <1>1, <2>1 DEF Once
  <2> QED BY <1>1, <1>2, <2>2, FS_Singleton
<1>3. CASE ~In(q, t)
  <2>1. D = {}
    BY <1>1, <1>3 DEF In
  <2> QED BY <1>1, <1>3, <2>1, FS_EmptySet
<1> QED BY <1>2, <1>3

LEMMA MadeBy ==
    ASSUME PlaceInv, NEW c \in Thread
    PROVE  BeingCreated(c) <=> \E u \in Thread : MakesAt(pc[u], c)
<1> SUFFICES ASSUME NEW u \in Thread
             PROVE  MakesAt(pc[u], c) <=>
                      \/ pc[u] \in {<<"count_up", c>>, <<"unblock", c>>}
                      \/ Len(pc[u]) = 3 /\ pc[u][3] \in {<<"count_up", c>>, <<"unblock", c>>}
  BY DEF BeingCreated
<1> QED BY DEF PlaceInv, PlaceOK, MakesAt, Plain

LEMMA KernelOneQueue == KernelInv => OneQueue
<1> SUFFICES ASSUME KernelInv, NEW t \in Thread
             PROVE  LET waits == {s \in SemaName : Times(sema[s].waiters, t) > 0}
                    IN  /\ status[t] = "running" <=> current = t
                        /\ Times(ready_list, t) =
                             IF status[t] = "ready" /\ t # idle_thread THEN 1 ELSE 0
                        /\ \A s \in waits : Times(sema[s].waiters, t) = 1
                        /\ Cardinality(waits) =
                             IF status[t] = "blocked" /\ t # idle_thread /\ ~BeingCreated(t)
                             THEN 1 ELSE 0
  BY DEF OneQueue
<1> DEFINE waits == {s \in SemaName : Times(sema[s].waiters, t) > 0}
<1> USE DEF KernelInv
<1>0. Idle \in Thread /\ Nobody \notin Thread
  BY SchedulerAssumption
<1>1. status[t] = "running" <=> current = t
  BY DEF CpuInv, RunQueue
<1>2. Times(ready_list, t) = IF status[t] = "ready" /\ t # idle_thread THEN 1 ELSE 0
  BY TimesOnce DEF CpuInv, RunQueue
<1>3. \A s \in SemaName :
        Times(sema[s].waiters, t) = IF Queued(t, s) THEN 1 ELSE 0
  <2> TAKE s \in SemaName
  <2> DEFINE q == sema[s].waiters
  <2>1. q \in Seq(Thread) /\ Once(q) /\ (In(q, t) <=> Queued(t, s))
    BY DEF SyncType, SemaOf, SemaQueues, Queued
  <2> HIDE DEF q
  <2>2. Times(q, t) = IF Queued(t, s) THEN 1 ELSE 0
    BY <2>1, TimesOnce
  <2> QED BY <2>2 DEF q
<1>4. waits = {s \in SemaName : Queued(t, s)}
  BY <1>3
<1> HIDE DEF waits
<1>5. CASE status[t] = "blocked" /\ pc[t][1] = "wait"
  <2>1. pc[t][2] \in SemaName /\ t # Idle
    BY <1>5, PlaceTaken DEF PlaceInv
  <2>2. waits = {pc[t][2]}
    BY <1>4, <1>5, <2>1 DEF Queued, WaitsAt
  <2>3. ~BeingCreated(t)
    BY <1>5, MadeBy DEF Blocked
  <2> QED BY <1>0, <1>1, <1>2, <1>3, <1>4, <1>5, <2>1, <2>2, <2>3, FS_Singleton DEF CpuInv, waits
<1>6. CASE ~(status[t] = "blocked" /\ pc[t][1] = "wait")
  <2>1. waits = {}
    BY <1>4, <1>6 DEF Queued, WaitsAt
  <2>2. status[t] = "blocked" /\ t # idle_thread => BeingCreated(t)
    <3>1. CASE t = Idle
      BY <1>0, <3>1 DEF CpuInv, RunQueue
    <3>2. CASE t # Idle
      BY <1>6, <3>2, MadeBy DEF Blocked
    <3> QED BY <3>1, <3>2
  <2> QED BY <1>1, <1>2, <2>1, <2>2, FS_EmptySet DEF waits
<1> QED BY <1>5, <1>6

\* Every thread is in the one queue its status says, exactly once: no sequence of
\* blocking, waking, creating and ending threads breaks the lists of thread.c and
\* synch.c, which share one list element per thread.
THEOREM OneQueueHolds == Spec => []OneQueue
<1>1. Init => KernelInv
  BY KernelInit
<1>2. KernelInv /\ [Next]_vars => KernelInv'
  BY KernelNext
<1>3. KernelInv => OneQueue
  BY KernelOneQueue
<1> QED BY <1>1, <1>2, <1>3, PTL DEF Spec

\* No assertion of synch.c or thread.c about the running thread fails: schedule
\* always finds a thread, and a lock is released, waited with and signalled with
\* only by the thread that holds it.
THEOREM AssertionsNeverFail == Spec => []AssertionsHold
<1>1. Init => KernelInv
  BY KernelInit
<1>2. KernelInv /\ [Next]_vars => KernelInv'
  BY KernelNext
<1>3. KernelInv => AssertionsHold
  <2> SUFFICES ASSUME KernelInv PROVE AssertionsHold
    OBVIOUS
  <2>1. current \in Thread /\ Nobody \notin Thread
    BY SchedulerAssumption DEF KernelInv, CpuInv
  <2>2. pc[current][1] = "up" => pc[current][2] \in Locks
    BY <2>1, PlaceReleased DEF KernelInv, PlaceInv
  <2>3. \A l \in Locks : HoldsAt(pc[current], l) => holder[l] = current
    BY <2>1 DEF KernelInv, LockInv
  <2> QED BY <2>1, <2>2, <2>3 DEF AssertionsHold, HoldsAt, Locks
<1> QED BY <1>1, <1>2, <1>3, PTL DEF Spec

-----------------------------------------------------------------------------
(* Round robin.                                                            *)

LEMMA PrefixSelf == ASSUME NEW q \in Seq(Thread) PROVE IsPrefix(q, q)
BY DEF IsPrefix

LEMMA PrefixAppend ==
    ASSUME NEW q \in Seq(Thread), NEW t \in Thread PROVE IsPrefix(q, Append(q, t))
<1>1. /\ Len(q) \in Nat /\ Len(Append(q, t)) = Len(q) + 1
      /\ \A i \in 1..Len(q) : Append(q, t)[i] = q[i]
  OBVIOUS
<1>2. SubSeq(q, 1, Len(q)) = SubSeq(Append(q, t), 1, Len(q))
  BY <1>1
<1> QED BY <1>1, <1>2 DEF IsPrefix

Rounds ==
    \/ IsPrefix(ready_list, ready_list')
    \/ /\ ready_list # <<>>
       /\ IsPrefix(Tail(ready_list), ready_list')
       /\ current' = Head(ready_list)

LEMMA ScheduleRounds ==
    ASSUME ready_list \in Seq(Thread), NEW st, Schedule(st, ready_list) PROVE Rounds
<1>1. CASE ready_list = <<>>
  BY <1>1, PrefixSelf DEF Schedule, Rounds
<1>2. CASE ready_list # <<>>
  <2>1. ready_list' = Tail(ready_list) /\ current' = Head(ready_list) /\ Tail(ready_list) \in Seq(Thread)
    BY <1>2 DEF Schedule
  <2> QED BY <1>2, <2>1, PrefixSelf DEF Rounds
<1> QED BY <1>1, <1>2

LEMMA YieldRounds ==
    ASSUME ready_list \in Seq(Thread), NEW t \in Thread, Yield(t) PROVE Rounds
<1>1. CASE t = idle_thread
  BY <1>1, ScheduleRounds DEF Yield
<1>2. CASE t # idle_thread
  <2> DEFINE q == ready_list  r == Append(ready_list, t)
  <2>1. Len(q) \in Nat /\ r \in Seq(Thread) /\ Len(r) = Len(q) + 1 /\ r[Len(q) + 1] = t
        /\ \A i \in 1..Len(q) : r[i] = q[i]
    OBVIOUS
  <2>2. r # <<>>
    BY <2>1
  <2>3. ready_list' = Tail(r) /\ current' = Head(r)
    BY <1>2, <2>2 DEF Yield, Schedule
  <2>4. CASE q = <<>>
    <3>1. Tail(r) = <<>>
      BY <2>4
    <3> QED BY <2>3, <2>4, <3>1, PrefixSelf DEF Rounds
  <2>5. CASE q # <<>>
    <3>1. Head(r) = Head(q)
      BY <2>1, <2>5
    <3>2. Tail(q) \in Seq(Thread) /\ Tail(r) = Append(Tail(q), t)
      BY <2>5
    <3>3. IsPrefix(Tail(q), Tail(r))
      BY <3>2, PrefixAppend
    <3> QED BY <2>3, <2>5, <3>1, <3>3 DEF Rounds
  <2> QED BY <2>4, <2>5
<1> QED BY <1>1, <1>2

LEMMA UnblockRounds ==
    ASSUME ready_list \in Seq(Thread), NEW woken \in SUBSET Thread, Unblock(woken) PROVE Rounds
<1>1. CASE woken = {}
  BY <1>1, PrefixSelf DEF Unblock, Rounds
<1>2. CASE woken # {}
  <2>1. (CHOOSE t \in woken : TRUE) \in Thread
    BY <1>2
  <2> QED BY <1>2, <2>1, PrefixAppend DEF Unblock, Rounds
<1> QED BY <1>1, <1>2

LEMMA UpRounds ==
    ASSUME KernelInv, NEW s \in SemaName, Up(s, sema) PROVE Rounds
<1>1. SemaWoken(sema[s]) \in SUBSET Thread
  BY WokenWaits DEF KernelInv
<1> QED BY <1>1, UnblockRounds DEF Up, KernelInv, CpuInv

LEMMA SignalRounds ==
    ASSUME KernelInv, NEW c \in Conds, CondSignal(c) PROVE Rounds
<1>1. CASE waiters[c] = <<>>
  BY <1>1, PrefixSelf DEF CondSignal, cpu, Rounds, KernelInv, CpuInv
<1>2. CASE waiters[c] # <<>>
  <2>1. Head(waiters[c]) \in SemaName
    BY <1>2 DEF KernelInv, SyncType, SemaName
  <2> QED BY <1>2, <2>1, UpRounds DEF CondSignal
<1> QED BY <1>1, <1>2

LEMMA RoundsNext == KernelInv /\ [Next]_vars => Rounds \/ UNCHANGED vars
<1> SUFFICES ASSUME KernelInv, Next PROVE Rounds
  OBVIOUS
<1>0. ready_list \in Seq(Thread) /\ current \in Thread
  BY DEF KernelInv, CpuInv
<1>s. UNCHANGED ready_list => Rounds
  BY <1>0, PrefixSelf DEF Rounds
<1>1. CASE Tick
  BY <1>0, <1>1, <1>s, YieldRounds DEF Tick
<1>2. CASE DiskInterrupt
  <2>1. "completion_wait" \in SemaName
    BY DEF SemaName
  <2> QED BY <1>2, <1>s, <2>1, UpRounds DEF DiskInterrupt, cpu
<1>3. ASSUME NEW t \in Thread, EnableInterrupts(t) PROVE Rounds
  BY <1>3, <1>s DEF EnableInterrupts
<1>4. ASSUME NEW t \in Thread, Run(t) PROVE Rounds
  <2>1. CASE Down(t) \/ Wait(t)
    BY <1>0, <2>1, <1>s, ScheduleRounds DEF Down, Wait, Block, cpu
  <2>2. CASE LockRelease(t)
    <3>1. pc[t][2] \in SemaName
      BY <2>2, PlaceReleased DEF LockRelease, At, KernelInv, PlaceInv, SemaName
    <3> QED BY <2>2, <3>1, UpRounds DEF LockRelease
  <2>3. CASE t = Idle /\ (IdleStart \/ IdleBlock)
    <3>1. "idle_started" \in SemaName
      BY DEF SemaName
    <3> QED BY <1>0, <2>3, <3>1, UpRounds, ScheduleRounds DEF IdleStart, IdleBlock, Block
  <2>4. CASE UnblockNew(t)
    <3>1. pc[t][2] \in Thread
      BY <2>4 DEF UnblockNew, At, KernelInv, PlaceInv, PlaceOK, Plain
    <3> QED BY <1>0, <2>4, <3>1, UnblockRounds DEF UnblockNew
  <2>5. CASE CountDown(t) \/ SlAppend(t)
    BY <2>5, SignalRounds DEF CountDown, SlAppend, Conds
  <2>6. CASE Die(t)
    BY <1>0, <2>6, ScheduleRounds DEF Die
  <2>7. CASE SleepLoop(t)
    BY <1>0, <2>7, <1>s, YieldRounds DEF SleepLoop, cpu
  <2>8. CASE \/ CountUp(t) \/ Cleanup(t) \/ Deactivate(t) \/ Destroy(t) \/ Activate(t)
             \/ HardPowerOff(t) \/ PowerOffCheck(t) \/ SlRemove(t)
             \/ Issue(t) \/ Output(t) \/ Input(t)
    BY <2>8, <1>s DEF CountUp, Cleanup, Deactivate, Destroy, Activate, HardPowerOff,
       PowerOffCheck, SlRemove, Issue, Output, Input, CondWait, cpu
  <2>9. \/ Down(t) \/ Wait(t) \/ LockRelease(t) \/ (t = Idle /\ (IdleStart \/ IdleBlock))
        \/ UnblockNew(t) \/ CountDown(t) \/ SlAppend(t) \/ Die(t) \/ SleepLoop(t)
        \/ CountUp(t) \/ Cleanup(t) \/ Deactivate(t) \/ Destroy(t) \/ Activate(t)
        \/ HardPowerOff(t) \/ PowerOffCheck(t) \/ SlRemove(t)
        \/ Issue(t) \/ Output(t) \/ Input(t)
    BY <1>4 DEF Run
  <2> QED BY <2>1, <2>2, <2>3, <2>4, <2>5, <2>6, <2>7, <2>8, <2>9
<1>5. ASSUME NEW t \in Thread, Program(t) PROVE Rounds
  BY <1>5, <1>s DEF Program, Create, Exit, Load, PowerOff, Sleep, SlCall, DiskCall, cpu
<1> QED BY <1>1, <1>2, <1>3, <1>4, <1>5 DEF Next

\* thread_yield, thread_unblock and schedule keep the run queue first in, first out.
THEOREM RoundRobinHolds == Spec => RoundRobin
<1>1. Init => KernelInv
  BY KernelInit
<1>2. KernelInv /\ [Next]_vars => KernelInv'
  BY KernelNext
<1>3. KernelInv /\ [Next]_vars =>
        [\/ IsPrefix(ready_list, ready_list')
         \/ /\ ready_list # <<>>
            /\ IsPrefix(Tail(ready_list), ready_list')
            /\ current' = Head(ready_list)]_vars
  BY RoundsNext DEF Rounds
<1> QED BY <1>1, <1>2, <1>3, PTL DEF Spec, RoundRobin

-----------------------------------------------------------------------------
(* Page directories.                                                       *)

\* cr3 holds the directory of the running thread or the base directory; the former
\* as soon as the thread is beyond process_activate, and no longer than until it has
\* deactivated it.
SpaceInv ==
    /\ pagedir \in [Thread -> BOOLEAN]
    /\ \A t \in Thread : pagedir[t] => t \in directories
    /\ \A t \in Thread : pc[t][1] \in {"deactivate", "destroy", "die", "none"} => ~pagedir[t]
    /\ \A t \in Thread : pc[t][1] = "deactivate" => t \in directories
    /\ cr3 \in {Nobody, current}
    /\ cr3 = current => pagedir[current] \/ pc[current][1] = "deactivate"
    /\ pagedir[current] => cr3 = current \/ pc[current][1] = "activate"

SpacePlaces == {"deactivate", "destroy", "die", "none", "activate"}

\* No thread comes to or leaves one of these places.
Calm == \A u \in Thread : pc'[u][1] # pc[u][1] => pc'[u][1] \notin SpacePlaces /\ pc[u][1] \notin SpacePlaces

LEMMA CalmGoto ==
    ASSUME PlaceInv, NEW t \in Thread, NEW p, Goto(t, p),
           pc[t][1] \notin SpacePlaces, p[1] \notin SpacePlaces
    PROVE  Calm
BY DEF Goto, Calm, PlaceInv

LEMMA CalmOn ==
    ASSUME NEW t \in Thread, NEW p, PlaceOK(t, p), p[1] \in {"down", "wait", "up"}
    PROVE  p[3][1] \notin SpacePlaces
<1>1. Len(p) = 3 /\ (AfterDown(t, p[2], p[3]) \/ AfterUp(t, p[2], p[3]))
  BY DEF PlaceOK, Plain
<1> QED BY <1>1 DEF AfterDown, AfterUp, SpacePlaces

LEMMA CalmStays ==
    ASSUME CpuInv, SpaceInv, Calm, UNCHANGED <<current, cr3, space>> PROVE SpaceInv'
BY DEF SpaceInv, Calm, SpacePlaces, CpuInv, space

\* A switch activates the directory of the thread that runs then.
LEMMA CalmSwitch ==
    ASSUME SpaceInv, CpuInv', Calm, UNCHANGED space, NEW st, NEW rl, Schedule(st, rl)
    PROVE  SpaceInv'
<1>1. current' \in Thread /\ Nobody \notin Thread
  BY SchedulerAssumption DEF CpuInv
<1>2. cr3' = IF pagedir[current'] THEN current' ELSE Nobody
  BY <1>1 DEF Schedule
<1> QED BY <1>1, <1>2 DEF SpaceInv, Calm, SpacePlaces, space

LEMMA SpaceInit == Init => SpaceInv
<1> SUFFICES ASSUME Init PROVE SpaceInv
  OBVIOUS
<1>1. /\ pc[Main][1] = "down" /\ Main \in Thread /\ Nobody \notin Thread
      /\ pc[Idle][1] = "idle" /\ \A t \in Thread \ {Main, Idle} : pc[t][1] = "none"
  BY SchedulerAssumption DEF Init
<1>2. current = Main /\ cr3 = Nobody /\ pagedir = [t \in Thread |-> FALSE]
  BY DEF Init
<1> QED BY <1>1, <1>2 DEF SpaceInv

LEMMA SpaceNext == KernelInv /\ KernelInv' /\ SpaceInv /\ [Next]_vars => SpaceInv'
<1> SUFFICES ASSUME KernelInv, KernelInv', SpaceInv, Next PROVE SpaceInv'
  BY DEF SpaceInv, vars, cpu, space
<1>0. CpuInv /\ CpuInv' /\ PlaceInv /\ SyncType /\ current \in Thread /\ Nobody \notin Thread
  BY SchedulerAssumption DEF KernelInv, CpuInv
<1>a. UNCHANGED pc => Calm
  BY DEF Calm
<1>b. pc' = Resumed => Calm
  BY <1>0 DEF Resumed, Calm, PlaceInv, SpacePlaces
<1>1. CASE Tick
  BY <1>0, <1>1, <1>b, CalmStays, CalmSwitch DEF Tick, Yield
<1>2. CASE DiskInterrupt
  BY <1>0, <1>2, <1>b, CalmStays DEF DiskInterrupt, Up, Unblock, cpu
<1>3. ASSUME NEW t \in Thread, EnableInterrupts(t) PROVE SpaceInv'
  BY <1>0, <1>3, <1>a, CalmStays DEF EnableInterrupts
<1>4. ASSUME NEW t \in Thread, Down(t) \/ Wait(t) PROVE SpaceInv'
  <2>1. pc[t][3][1] \notin SpacePlaces /\ pc[t][1] \notin SpacePlaces
    BY <1>0, <1>4, CalmOn DEF Down, Wait, At, PlaceInv, SpacePlaces
  <2>2. Calm
    <3>1. <<"wait", pc[t][2], pc[t][3]>>[1] \notin SpacePlaces
      BY DEF SpacePlaces
    <3>2. \/ Goto(t, pc[t][3]) \/ Goto(t, <<"wait", pc[t][2], pc[t][3]>>) \/ UNCHANGED pc
      BY <1>4 DEF Down, Wait, Take
    <3> QED BY <1>0, <2>1, <3>1, <3>2, <1>a, CalmGoto
  <2> QED BY <1>0, <1>4, <2>2, CalmStays, CalmSwitch DEF Down, Wait, Block, cpu
<1>5. ASSUME NEW t \in Thread, LockRelease(t) PROVE SpaceInv'
  <2>1. pc[t][3][1] \notin SpacePlaces /\ pc[t][1] \notin SpacePlaces
    BY <1>0, <1>5, CalmOn DEF LockRelease, At, PlaceInv, SpacePlaces
  <2> QED BY <1>0, <1>5, <2>1, CalmGoto, CalmStays DEF LockRelease, Up, Unblock
<1>6. CASE IdleStart \/ IdleBlock
  <2>1. Idle \in Thread /\ Calm
    BY <1>0, <1>6, CalmGoto, SchedulerAssumption DEF IdleStart, IdleBlock, At, SpacePlaces
  <2> QED BY <1>0, <1>6, <2>1, CalmStays, CalmSwitch DEF IdleStart, IdleBlock, Up, Unblock, Block
<1>7. ASSUME NEW t \in Thread, UnblockNew(t) \/ CountDown(t) \/ SlAppend(t) PROVE SpaceInv'
  <2>1. Calm
    BY <1>0, <1>7, CalmGoto DEF UnblockNew, CountDown, SlAppend, At, Release, SpacePlaces
  <2> QED BY <1>0, <1>7, <2>1, CalmStays
          DEF UnblockNew, CountDown, SlAppend, CondSignal, Up, Unblock, cpu
<1>8. ASSUME NEW t \in Thread, SleepLoop(t) PROVE SpaceInv'
  <2>1. Calm
    BY <1>0, <1>8, <1>a, CalmGoto DEF SleepLoop, At, SpacePlaces
  <2> QED BY <1>0, <1>8, <2>1, CalmStays, CalmSwitch DEF SleepLoop, Yield, cpu
<1>9. ASSUME NEW t \in Thread,
             CountUp(t) \/ HardPowerOff(t) \/ PowerOffCheck(t) \/ SlRemove(t)
               \/ Issue(t) \/ Output(t) \/ Input(t)
      PROVE  SpaceInv'
  <2>1. Calm
    BY <1>0, <1>9, <1>a, CalmGoto DEF CountUp, HardPowerOff, PowerOffCheck, SlRemove, Issue,
       Output, Input, CondWait, At, Release, SpacePlaces
  <2> QED BY <1>0, <1>9, <2>1, CalmStays DEF CountUp, HardPowerOff, PowerOffCheck, SlRemove,
       Issue, Output, Input, CondWait, cpu
<1>10. ASSUME NEW t \in Thread,
              Exit(t) \/ PowerOff(t) \/ Sleep(t) \/ SlCall(t) \/ DiskCall(t)
       PROVE  SpaceInv'
  <2>1. Calm
    BY <1>0, <1>10, CalmGoto DEF Exit, PowerOff, Sleep, SlCall, DiskCall, Call, At, Acquire,
       SpacePlaces
  <2> QED BY <1>0, <1>10, <2>1, CalmStays DEF Exit, PowerOff, Sleep, SlCall, DiskCall, cpu
<1>11. ASSUME NEW t \in Thread, NEW c \in Thread, Create(t, c) PROVE SpaceInv'
  <2>1. /\ pc[c][1] = "none" /\ c # t /\ current = t /\ pc[t][1] = "run"
        /\ pc' = [pc EXCEPT ![c] = <<"run">>, ![t] = Acquire("alive_lock", <<"count_up", c>>)]
        /\ UNCHANGED <<current, cr3, space>>
    BY <1>11 DEF Create, Call, At, KernelInv, Blocked, PlaceInv, CpuInv, RunQueue
  <2>2. /\ pc'[c] = <<"run">> /\ pc'[t] = <<"down", "alive_lock", <<"count_up", c>>>>
        /\ \A u \in Thread : u # c /\ u # t => pc'[u] = pc[u]
    BY <1>0, <2>1 DEF PlaceInv, Acquire
  <2>3. pc'[c][1] = "run" /\ pc'[t][1] = "down"
    BY <2>2
  <2>4. \A u \in Thread : pc'[u][1] \in SpacePlaces => pc'[u] = pc[u]
    BY <2>2, <2>3 DEF SpacePlaces
  <2> QED BY <1>0, <2>1, <2>3, <2>4 DEF SpaceInv, SpacePlaces, space
<1>12. ASSUME NEW t \in Thread, Cleanup(t) PROVE SpaceInv'
  <2>1. current = t /\ pc[t][1] = "cleanup" /\ pagedir' = [pagedir EXCEPT ![t] = FALSE]
        /\ UNCHANGED <<current, cr3, directories>>
        /\ pc' = [pc EXCEPT ![t] = IF pagedir[t] THEN <<"deactivate">> ELSE <<"die">>]
    BY <1>12 DEF Cleanup, At, Goto, cpu
  <2>2. /\ pc'[t] = IF pagedir[t] THEN <<"deactivate">> ELSE <<"die">>
        /\ \A u \in Thread : u # t => pc'[u] = pc[u]
    BY <1>0, <2>1 DEF PlaceInv
  <2> QED BY <1>0, <2>1, <2>2 DEF SpaceInv
<1>13. ASSUME NEW t \in Thread, Deactivate(t) PROVE SpaceInv'
  <2>1. current = t /\ pc[t][1] = "deactivate" /\ cr3' = Nobody
        /\ UNCHANGED <<current, pagedir, directories>> /\ pc' = [pc EXCEPT ![t] = <<"destroy">>]
    BY <1>13 DEF Deactivate, At, Goto, space
  <2>2. pc'[t] = <<"destroy">> /\ \A u \in Thread : u # t => pc'[u] = pc[u]
    BY <1>0, <2>1 DEF PlaceInv
  <2> QED BY <1>0, <2>1, <2>2 DEF SpaceInv
<1>14. ASSUME NEW t \in Thread, Destroy(t) PROVE SpaceInv'
  <2>1. current = t /\ pc[t][1] = "destroy" /\ directories' = directories \ {t}
        /\ UNCHANGED <<current, cr3, pagedir>> /\ pc' = [pc EXCEPT ![t] = <<"die">>]
    BY <1>14 DEF Destroy, At, Goto, cpu
  <2>2. pc'[t] = <<"die">> /\ \A u \in Thread : u # t => pc'[u] = pc[u]
    BY <1>0, <2>1 DEF PlaceInv
  <2> QED BY <1>0, <2>1, <2>2 DEF SpaceInv
<1>15. ASSUME NEW t \in Thread, Die(t) PROVE SpaceInv'
  <2>1. /\ current = t /\ pc[t][1] = "die" /\ UNCHANGED <<pagedir, directories>>
        /\ Schedule([status EXCEPT ![t] = "dying"], ready_list)
        /\ pc' = [pc EXCEPT ![t] = <<"none">>]
    BY <1>15 DEF Die, At, Goto, space
  <2>2. pc'[t] = <<"none">> /\ \A u \in Thread : u # t => pc'[u] = pc[u]
    BY <1>0, <2>1 DEF PlaceInv
  <2>3. current' \in Thread /\ cr3' = IF pagedir[current'] THEN current' ELSE Nobody
    BY <1>0, <2>1 DEF Schedule, CpuInv
  <2> QED BY <1>0, <2>1, <2>2, <2>3 DEF SpaceInv
<1>16. ASSUME NEW t \in Thread, Load(t) PROVE SpaceInv'
  <2>1. /\ current = t /\ pc[t][1] = "run" /\ ~pagedir[t]
        /\ directories' = directories \cup {t} /\ pagedir' = [pagedir EXCEPT ![t] = TRUE]
        /\ UNCHANGED <<current, cr3>> /\ pc' = [pc EXCEPT ![t] = <<"activate">>]
    BY <1>16 DEF Load, Call, At, Goto, cpu
  <2>2. pc'[t] = <<"activate">> /\ \A u \in Thread : u # t => pc'[u] = pc[u]
    BY <1>0, <2>1 DEF PlaceInv
  <2> QED BY <1>0, <2>1, <2>2 DEF SpaceInv
<1>17. ASSUME NEW t \in Thread, Activate(t) PROVE SpaceInv'
  <2>1. /\ current = t /\ pc[t][1] = "activate" /\ cr3' = (IF pagedir[t] THEN t ELSE Nobody)
        /\ UNCHANGED <<current, pagedir, directories>> /\ pc' = [pc EXCEPT ![t] = <<"run">>]
    BY <1>17 DEF Activate, At, Goto, space
  <2>2. pc'[t] = <<"run">> /\ \A u \in Thread : u # t => pc'[u] = pc[u]
    BY <1>0, <2>1 DEF PlaceInv
  <2> QED BY <1>0, <2>1, <2>2 DEF SpaceInv
<1>18. ASSUME NEW t \in Thread, Run(t) PROVE SpaceInv'
  BY <1>18, <1>4, <1>5, <1>6, <1>7, <1>8, <1>9, <1>12, <1>13, <1>14, <1>15, <1>17 DEF Run
<1>19. ASSUME NEW t \in Thread, Program(t) PROVE SpaceInv'
  BY <1>19, <1>10, <1>11, <1>16 DEF Program
<1> QED BY <1>1, <1>2, <1>3, <1>18, <1>19 DEF Next

\* A program always runs in its own address space, and the processor never uses a
\* page directory that was destroyed, however process_cleanup, process_activate and
\* the switches of schedule interleave.
THEOREM AddressSpaceRight == Spec => []AddressSpace
<1>1. Init => KernelInv /\ SpaceInv
  BY KernelInit, SpaceInit
<1>2. (KernelInv /\ SpaceInv) /\ [Next]_vars => (KernelInv /\ SpaceInv)'
  BY KernelNext, SpaceNext
<1>3. KernelInv /\ SpaceInv => AddressSpace
  BY DEF KernelInv, CpuInv, SpaceInv, AddressSpace
<1> QED BY <1>1, <1>2, <1>3, PTL DEF Spec

-----------------------------------------------------------------------------
(* What the users of the threads rely on, standing on KernelInv: no signal *)
(* of the synchronised list is lost, power off waits for the last thread,  *)
(* and the disk serves who asked.                                          *)

-----------------------------------------------------------------------------
(* More questions about places.                                            *)

\* t has left DEBUG_thread_count_down.
FinAt(p) ==
    \/ p[1] \in {"cleanup", "deactivate", "destroy", "die", "none"}
    \/ Len(p) = 3 /\ p[3] = <<"cleanup">>

\* At p a thread is about to count c up.
CountsAt(p, c) == p = <<"count_up", c>> \/ (Len(p) = 3 /\ p[3] = <<"count_up", c>>)

\* At p the initial thread has decided to power off.
HardAt(p) == p[1] = "hard_power_off" \/ (Len(p) = 3 /\ p[3] = <<"hard_power_off">>)

\* At p thread t is in sl_remove.
TakerAt(t, p) ==
    \/ p[1] = "remove"
    \/ /\ Len(p) = 3
       /\ p[3] \in {<<"remove">>, Acquire("sl_lock", <<"remove">>),
                    <<"down", t, Acquire("sl_lock", <<"remove">>)>>}

\* Where t goes on after it was signalled through c.
Again(c) == IF c = "sl_empty" THEN Acquire("sl_lock", <<"remove">>)
                              ELSE Acquire("alive_lock", <<"poweroff_check">>)

\* At p thread t is in cond_wait for c.
CondAt(t, p, c) ==
    /\ Len(p) = 3
    /\ \/ p[1] = "up" /\ p[3] = <<"down", t, Again(c)>>
       \/ p[1] \in {"down", "wait"} /\ p[2] = t /\ p[3] = Again(c)

\* At p a thread waits for the disk.
CompletionAt(p) == p[1] \in {"down", "wait"} /\ p[2] = "completion_wait"

\* p and q do not differ in whether a thread is counted, or takes an item.
AliveAlike(p, q) ==
    /\ FinAt(p) <=> FinAt(q)
    /\ \A c \in Thread : CountsAt(p, c) <=> CountsAt(q, c)
    /\ HardAt(p) <=> HardAt(q)

\* p and q do not differ in what the thread does with the disk.
DiskAlike(p, q) ==
    \/ p = q
    \/ ~HoldsAt(p, "channel_lock") /\ ~HoldsAt(q, "channel_lock")
    \/ CompletionAt(p) /\ CompletionAt(q)

-----------------------------------------------------------------------------
(* The invariants.                                                         *)

\* Who is in the queue of a condition variable is in cond_wait for it and was not
\* signalled.
CondInv ==
    \A c \in Conds :
        /\ Once(waiters[c])
        /\ \A t \in Thread : In(waiters[c], t) => CondAt(t, pc[t], c) /\ sema[t].value = 0

\* alive_count counts the threads that were counted up and not down.
Counted == {t \in Thread : ~FinAt(pc[t]) /\ \A u \in Thread : ~CountsAt(pc[u], t)}

AliveInv ==
    /\ alive_count = Cardinality(Counted)
    /\ ~ForceOff =>
        /\ waiters["alive_cond"] # <<>> => Counted \cap Workers # {}
        /\ HardAt(pc[Main]) => \A t \in Workers : FinAt(pc[t])

ItemInv == items \in Nat /\ NoItemStranded

\* The disk and the semaphore of the driver, as the holder of the channel's lock
\* must find them.
Quiet == device.state \in {"idle", "done"} /\ sema["completion_wait"].value = 0

DiskAt(p, t) ==
    /\ p[1] \in {"issue", "up"} => Quiet
    /\ p[1] = "output" =>
         /\ device = [state |-> "asking", for |-> t]
         /\ expecting /\ sema["completion_wait"].value = 0
    /\ p[1] = "input" =>
         device = [state |-> "done", for |-> t] /\ sema["completion_wait"].value = 0
    /\ CompletionAt(p) =>
         \/ /\ device = [state |-> "busy", for |-> t]
            /\ expecting /\ sema["completion_wait"].value = 0
         \/ device = [state |-> "done", for |-> t] /\ sema["completion_wait"].value = 1

DiskInv ==
    /\ \A t \in Thread : HoldsAt(pc[t], "channel_lock") => DiskAt(pc[t], t)
    /\ holder["channel_lock"] = Nobody => Quiet

UsersInv == CondInv /\ AliveInv /\ ItemInv /\ DiskInv

-----------------------------------------------------------------------------
(* Steps that change nothing these invariants ask for.                     *)

Alike(t, p, q) ==
    /\ AliveAlike(p, q) /\ DiskAlike(p, q)
    /\ TakerAt(t, p) <=> TakerAt(t, q)
    /\ \A c \in Conds : CondAt(t, p, c) => CondAt(t, q, c)

LEMMA AlikeSelf == ASSUME NEW t, NEW p PROVE Alike(t, p, p)
BY DEF Alike, AliveAlike, DiskAlike

LEMMA AlikeGoto ==
    ASSUME PlaceInv, NEW t \in Thread, NEW p, Alike(t, pc[t], p), Goto(t, p)
    PROVE  \A u \in Thread : Alike(u, pc[u], pc'[u])
<1>1. pc'[t] = p /\ \A u \in Thread : u # t => pc'[u] = pc[u]
  BY DEF PlaceInv, Goto
<1> QED BY <1>1, AlikeSelf

LEMMA CondStays ==
    ASSUME CondInv, UNCHANGED waiters,
           \A c \in Conds, u \in Thread : In(waiters[c], u) =>
               /\ sema'[u].value = sema[u].value
               /\ CondAt(u, pc[u], c) => CondAt(u, pc'[u], c)
    PROVE  CondInv'
BY DEF CondInv

LEMMA CountedStays ==
    ASSUME \A u \in Thread : AliveAlike(pc[u], pc'[u])
    PROVE  Counted' = Counted
BY DEF Counted, AliveAlike

LEMMA AliveStays ==
    ASSUME AliveInv, \A u \in Thread : AliveAlike(pc[u], pc'[u]), UNCHANGED alive_count,
           waiters'["alive_cond"] # <<>> => waiters["alive_cond"] # <<>>
    PROVE  AliveInv'
<1>1. Counted' = Counted
  BY CountedStays
<1>2. Main \in Thread /\ Workers \subseteq Thread
  BY SchedulerAssumption DEF Workers
<1> QED BY <1>1, <1>2 DEF AliveInv, AliveAlike

\* Takers in the words of these proofs, and that there are finitely many.
LEMMA TakersAre ==
    ASSUME SyncType
    PROVE  /\ Takers = {t \in Thread : ~In(waiters["sl_empty"], t) /\ TakerAt(t, pc[t])}
           /\ IsFiniteSet(Takers) /\ Cardinality(Takers) \in Nat
<1>1. DOMAIN waiters["sl_empty"] = 1..Len(waiters["sl_empty"])
  BY DEF SyncType, Conds
<1>2. Takers = {t \in Thread : ~In(waiters["sl_empty"], t) /\ TakerAt(t, pc[t])}
  BY <1>1 DEF Takers, In, TakerAt
<1>3. Takers \subseteq Thread /\ IsFiniteSet(Thread)
  BY SchedulerAssumption DEF Takers
<1> QED BY <1>2, <1>3, FS_Subset, FS_CardinalityType

LEMMA TakersNext ==
    ASSUME SyncType'
    PROVE  /\ Takers' = {t \in Thread : ~In(waiters'["sl_empty"], t) /\ TakerAt(t, pc'[t])}
           /\ IsFiniteSet(Takers') /\ Cardinality(Takers') \in Nat
<1>1. DOMAIN waiters'["sl_empty"] = 1..Len(waiters'["sl_empty"])
  BY DEF SyncType, Conds
<1>2. Takers' = {t \in Thread : ~In(waiters'["sl_empty"], t) /\ TakerAt(t, pc'[t])}
  BY <1>1 DEF Takers, In, TakerAt
<1>3. Takers' \subseteq Thread /\ IsFiniteSet(Thread)
  BY SchedulerAssumption DEF Takers
<1> QED BY <1>2, <1>3, FS_Subset, FS_CardinalityType

LEMMA ItemStays ==
    ASSUME SyncType, SyncType', ItemInv,
           waiters'["sl_empty"] = waiters["sl_empty"], UNCHANGED items,
           \A u \in Thread : TakerAt(u, pc[u]) => TakerAt(u, pc'[u])
    PROVE  ItemInv'
<1>1. Takers = {t \in Thread : ~In(waiters["sl_empty"], t) /\ TakerAt(t, pc[t])}
        /\ Cardinality(Takers) \in Nat
  BY TakersAre
<1>2. /\ Takers' = {t \in Thread : ~In(waiters'["sl_empty"], t) /\ TakerAt(t, pc'[t])}
      /\ IsFiniteSet(Takers') /\ Cardinality(Takers') \in Nat
  BY TakersNext
<1>3. Takers \subseteq Takers'
  BY <1>1, <1>2
<1>4. Cardinality(Takers) <= Cardinality(Takers')
  BY <1>2, <1>3, FS_Subset
<1> QED BY <1>1, <1>2, <1>4 DEF ItemInv, NoItemStranded

LEMMA DiskStays ==
    ASSUME KernelInv, KernelInv', DiskInv, UNCHANGED disk,
           sema'["completion_wait"].value = sema["completion_wait"].value,
           \A u \in Thread : DiskAlike(pc[u], pc'[u])
    PROVE  DiskInv'
<1>1. \A u \in Thread : HoldsAt(pc'[u], "channel_lock") <=> HoldsAt(pc[u], "channel_lock")
  BY DEF DiskAlike, CompletionAt, HoldsAt
<1>2. ASSUME NEW u \in Thread, HoldsAt(pc'[u], "channel_lock")
      PROVE  DiskAt(pc[u], u) => DiskAt(pc[u], u)'
  <2>1. CASE pc'[u] = pc[u]
    BY <2>1 DEF DiskAt, Quiet, disk
  <2>2. CASE CompletionAt(pc[u]) /\ CompletionAt(pc'[u])
    BY <2>2 DEF DiskAt, CompletionAt, Quiet, disk
  <2> QED BY <1>1, <1>2, <2>1, <2>2 DEF DiskAlike
<1>3. holder'["channel_lock"] = Nobody => holder["channel_lock"] = Nobody
  <2>1. "channel_lock" \in Locks /\ Nobody \notin Thread
    BY SchedulerAssumption DEF Locks
  <2>2. \A u \in Thread : holder["channel_lock"] = u => HoldsAt(pc'[u], "channel_lock")
    BY <1>1, <2>1 DEF KernelInv, LockInv
  <2>3. \A u \in Thread : HoldsAt(pc'[u], "channel_lock") => holder'["channel_lock"] = u
    BY <2>1 DEF KernelInv, LockInv
  <2> QED BY <2>1, <2>2, <2>3 DEF KernelInv, SyncType
<1> QED BY <1>1, <1>2, <1>3 DEF DiskInv, Quiet, disk

LEMMA UsersStay ==
    ASSUME KernelInv, KernelInv', UsersInv, \A u \in Thread : Alike(u, pc[u], pc'[u]),
           UNCHANGED <<waiters, alive_count, items, disk>>,
           \A s \in Thread \cup {"completion_wait"} : sema'[s].value = sema[s].value
    PROVE  UsersInv'
<1>1. CondInv'
  BY CondStays DEF UsersInv, Alike
<1>2. AliveInv'
  BY AliveStays DEF UsersInv, Alike
<1>3. ItemInv'
  BY ItemStays DEF UsersInv, Alike, KernelInv
<1>4. DiskInv'
  BY DiskStays DEF UsersInv, Alike
<1> QED BY <1>1, <1>2, <1>3, <1>4 DEF UsersInv

-----------------------------------------------------------------------------
(* How the answers change along sema_down and lock_release.                *)

LEMMA TakenAlike ==
    ASSUME NEW t \in Thread, NEW p, PlaceOK(t, p), p[1] \in {"down", "wait"}
    PROVE  /\ AliveAlike(p, p[3]) /\ (TakerAt(t, p) <=> TakerAt(t, p[3]))
           /\ p[2] \notin {"channel_lock", "completion_wait"} => DiskAlike(p, p[3])
           /\ Alike(t, p, <<"wait", p[2], p[3]>>)
<1>1. /\ p = <<p[1], p[2], p[3]>> /\ Len(p) = 3 /\ AfterDown(t, p[2], p[3])
  BY DEF PlaceOK, Plain
<1>2. AliveAlike(p, p[3])
  BY <1>1 DEF AfterDown, AliveAlike, FinAt, CountsAt, HardAt
<1>3. TakerAt(t, p) <=> TakerAt(t, p[3])
  BY <1>1 DEF AfterDown, TakerAt, Acquire
<1>4. p[2] \notin {"channel_lock", "completion_wait"} => DiskAlike(p, p[3])
  BY <1>1 DEF AfterDown, DiskAlike, HoldsAt
<1>5. Alike(t, p, <<"wait", p[2], p[3]>>)
  <2> DEFINE q == <<"wait", p[2], p[3]>>
  <2>1. AliveAlike(p, q)
    BY <1>1 DEF AliveAlike, FinAt, CountsAt, HardAt
  <2>2. DiskAlike(p, q)
    BY <1>1 DEF DiskAlike, HoldsAt, CompletionAt
  <2>3. TakerAt(t, p) <=> TakerAt(t, q)
    BY <1>1 DEF TakerAt
  <2>4. \A c \in Conds : CondAt(t, p, c) => CondAt(t, q, c)
    BY <1>1 DEF CondAt
  <2> QED BY <2>1, <2>2, <2>3, <2>4 DEF Alike
<1> QED BY <1>2, <1>3, <1>4, <1>5

LEMMA ReleasedAlike ==
    ASSUME NEW t \in Thread, NEW p, PlaceOK(t, p), p[1] = "up"
    PROVE  /\ AliveAlike(p, p[3]) /\ (TakerAt(t, p) <=> TakerAt(t, p[3]))
           /\ \A c \in Conds : CondAt(t, p, c) => CondAt(t, p[3], c)
           /\ p[2] # "channel_lock" => DiskAlike(p, p[3])
<1>1. /\ p = <<"up", p[2], p[3]>> /\ Len(p) = 3 /\ AfterUp(t, p[2], p[3])
  BY DEF PlaceOK, Plain
<1>2. AliveAlike(p, p[3])
  BY <1>1 DEF AfterUp, AliveAlike, FinAt, CountsAt, HardAt
<1>3. TakerAt(t, p) <=> TakerAt(t, p[3])
  BY <1>1 DEF AfterUp, TakerAt, Acquire
<1>4. \A c \in Conds : CondAt(t, p, c) => CondAt(t, p[3], c)
  BY <1>1 DEF CondAt
<1>5. p[2] # "channel_lock" => DiskAlike(p, p[3])
  BY <1>1, SchedulerAssumption DEF AfterUp, DiskAlike, HoldsAt
<1> QED BY <1>2, <1>3, <1>4, <1>5

LEMMA TakeUsers ==
    ASSUME KernelInv, KernelInv', UsersInv, NEW t \in Thread, current = t,
           pc[t][1] \in {"down", "wait"}, sema[pc[t][2]].value > 0, Take(t, pc[t][2]),
           UNCHANGED <<waiters, alive_count, items, disk>>
    PROVE  UsersInv'
<1> DEFINE s == pc[t][2]  p == pc[t][3]
<1> USE DEF UsersInv
<1>0. Thread \cap (Locks \cup {Nobody, "idle_started", "completion_wait"}) = {}
  BY SchedulerAssumption
<1>1. /\ PlaceOK(t, pc[t]) /\ s \in SemaName /\ AfterDown(t, s, p)
      /\ pc[t] = <<pc[t][1], s, p>> /\ Len(pc[t]) = 3
  BY PlaceTaken DEF KernelInv, PlaceInv, PlaceOK, Plain
<1>2. /\ AliveAlike(pc[t], p) /\ (TakerAt(t, pc[t]) <=> TakerAt(t, p))
      /\ s \notin {"channel_lock", "completion_wait"} => DiskAlike(pc[t], p)
  BY <1>1, TakenAlike
<1>3. /\ pc'[t] = p /\ \A u \in Thread : u # t => pc'[u] = pc[u]
      /\ sema' = [sema EXCEPT ![s] = SemaTake(@)]
  BY DEF Take, Goto, KernelInv, PlaceInv
<1>4. /\ \A r \in SemaName : r # s => sema'[r] = sema[r]
      /\ sema'[s].value = sema[s].value - 1
      /\ \A r \in SemaName : sema[r].value \in Nat
  <2>1. sema[s] \in SemaOf(Thread)
    BY <1>1 DEF KernelInv, SyncType
  <2> QED BY <1>1, <1>3, <2>1 DEF KernelInv, SyncType, SemaOf, SemaTake
<1>5. CondInv'
  <2>1. \A c \in Conds : ~In(waiters[c], t)
    BY <1>1 DEF CondInv, CondAt
  <2>2. \A u \in Thread : u # t => u \in SemaName /\ u # s
    BY <1>0, <1>1 DEF AfterDown, SemaName, Locks
  <2> QED BY <1>3, <1>4, <2>1, <2>2, CondStays
<1>6. AliveInv'
  <2>1. \A u \in Thread : AliveAlike(pc[u], pc'[u])
    BY <1>2, <1>3 DEF AliveAlike
  <2> QED BY <2>1, AliveStays
<1>7. ItemInv'
  BY <1>2, <1>3, ItemStays DEF KernelInv
<1>8. DiskInv'
  <2>0. /\ {"channel_lock", "completion_wait"} \subseteq SemaName
        /\ "channel_lock" \in Locks /\ Nobody \notin Thread
    BY <1>0 DEF SemaName, Locks
  <2>h. /\ \A u \in Thread : holder["channel_lock"] = u <=> HoldsAt(pc[u], "channel_lock")
        /\ \A u \in Thread : holder'["channel_lock"] = u <=> HoldsAt(pc'[u], "channel_lock")
    BY <2>0 DEF KernelInv, LockInv
  <2>1. CASE s \notin {"channel_lock", "completion_wait"}
    <3>1. \A u \in Thread : DiskAlike(pc[u], pc'[u])
      BY <1>2, <1>3, <2>1 DEF DiskAlike
    <3> QED BY <1>4, <2>0, <2>1, <3>1, DiskStays
  <2>2. CASE s = "channel_lock"
    <3>1. holder["channel_lock"] = Nobody
      BY <2>0, <2>2 DEF KernelInv, LockInv
    <3>2. Quiet /\ sema'["completion_wait"] = sema["completion_wait"]
      BY <1>4, <2>0, <2>2, <3>1 DEF DiskInv
    <3>3. \E x \in {"read", "write"} : p = <<"issue", x>>
      BY <1>0, <1>1, <2>2 DEF AfterDown, Locks
    <3>4. HoldsAt(p, "channel_lock") /\ p[1] = "issue"
      BY <3>3 DEF HoldsAt
    <3>5. holder'["channel_lock"] = t
      BY <1>3, <2>h, <3>4
    <3>6. Quiet' /\ \A u \in Thread : HoldsAt(pc'[u], "channel_lock") => u = t
      BY <2>h, <3>2, <3>5 DEF Quiet, disk
    <3> QED BY <1>3, <2>0, <3>4, <3>5, <3>6 DEF DiskInv, DiskAt, CompletionAt
  <2>3. CASE s = "completion_wait"
    <3>1. CompletionAt(pc[t]) /\ HoldsAt(pc[t], "channel_lock")
      BY <2>3 DEF CompletionAt, HoldsAt
    <3>2. device = [state |-> "done", for |-> t] /\ sema["completion_wait"].value = 1
      BY <2>3, <3>1 DEF DiskInv, DiskAt
    <3>3. device' = [state |-> "done", for |-> t] /\ sema'["completion_wait"].value = 0
      BY <1>4, <2>3, <3>2 DEF disk
    <3>4. p = <<"input">> \/ p = <<"up", "channel_lock", <<"run">>>>
      BY <1>0, <1>1, <2>3 DEF AfterDown, Locks
    <3>5. HoldsAt(p, "channel_lock")
      BY <3>4 DEF HoldsAt
    <3>6. holder'["channel_lock"] = t
      BY <1>3, <2>h, <3>5
    <3>7. \A u \in Thread : HoldsAt(pc'[u], "channel_lock") => u = t
      BY <2>h, <3>6
    <3>8. DiskAt(pc[t], t)'
      BY <1>3, <3>3, <3>4 DEF DiskAt, CompletionAt, Quiet
    <3> QED BY <2>0, <3>6, <3>7, <3>8 DEF DiskInv
  <2> QED BY <2>1, <2>2, <2>3
<1> QED BY <1>5, <1>6, <1>7, <1>8

LEMMA QueueUsers ==
    ASSUME KernelInv, KernelInv', UsersInv, NEW t \in Thread,
           pc[t][1] \in {"down", "wait"},
           sema' = [sema EXCEPT ![pc[t][2]] = SemaQueue(@, t)],
           Goto(t, <<"wait", pc[t][2], pc[t][3]>>) \/ UNCHANGED pc,
           UNCHANGED <<waiters, alive_count, items, disk>>
    PROVE  UsersInv'
<1>1. PlaceOK(t, pc[t]) /\ PlaceInv /\ pc[t][2] \in SemaName
  BY PlaceTaken DEF KernelInv, PlaceInv
<1>2. \A u \in Thread : Alike(u, pc[u], pc'[u])
  BY <1>1, TakenAlike, AlikeGoto, AlikeSelf
<1>3. \A s \in Thread \cup {"completion_wait"} : sema'[s].value = sema[s].value
  <2>1. sema[pc[t][2]] \in SemaOf(Thread)
    BY <1>1 DEF KernelInv, SyncType
  <2>2. SemaQueue(sema[pc[t][2]], t).value = sema[pc[t][2]].value
    BY <2>1 DEF SemaQueue, SemaOf
  <2> QED BY <1>1, <2>2 DEF KernelInv, SyncType, SemaName
<1> QED BY <1>2, <1>3, UsersStay

LEMMA DownUsers ==
    ASSUME KernelInv, KernelInv', UsersInv, NEW t \in Thread, Down(t) \/ Wait(t)
    PROVE  UsersInv'
<1>1. /\ current = t /\ pc[t][1] \in {"down", "wait"}
      /\ UNCHANGED <<waiters, alive_count, items, disk>>
  BY DEF Down, Wait, At, others
<1>2. CASE sema[pc[t][2]].value > 0
  BY <1>1, <1>2, TakeUsers DEF Down, Wait
<1>3. CASE ~(sema[pc[t][2]].value > 0)
  BY <1>1, <1>3, QueueUsers DEF Down, Wait
<1> QED BY <1>2, <1>3

LEMMA ReleaseUsers ==
    ASSUME KernelInv, KernelInv', UsersInv, NEW t \in Thread, LockRelease(t)
    PROVE  UsersInv'
<1> DEFINE l == pc[t][2]  p == pc[t][3]
<1> USE DEF UsersInv
<1>1. /\ current = t /\ pc[t][1] = "up" /\ sema' = [sema EXCEPT ![l] = SemaUp(@)] /\ Goto(t, p)
      /\ holder' = [holder EXCEPT ![l] = Nobody]
      /\ UNCHANGED <<waiters, alive_count, items, disk>>
  BY DEF LockRelease, At, Up, others
<1>2. PlaceOK(t, pc[t]) /\ PlaceInv /\ l \in Locks
  BY <1>1, PlaceReleased DEF KernelInv, PlaceInv
<1>3. /\ AliveAlike(pc[t], p) /\ (TakerAt(t, pc[t]) <=> TakerAt(t, p))
      /\ \A c \in Conds : CondAt(t, pc[t], c) => CondAt(t, p, c)
      /\ l # "channel_lock" => DiskAlike(pc[t], p)
  BY <1>1, <1>2, ReleasedAlike
<1>4. pc'[t] = p /\ \A u \in Thread : u # t => pc'[u] = pc[u]
  BY <1>1 DEF Goto, KernelInv, PlaceInv
<1>5. \A s \in Thread \cup {"completion_wait"} : sema'[s] = sema[s]
  BY <1>1, <1>2, SchedulerAssumption DEF KernelInv, SyncType, SemaName, Locks
<1>6. CASE l # "channel_lock"
  <2>1. Alike(t, pc[t], p)
    BY <1>3, <1>6 DEF Alike
  <2> QED BY <1>1, <1>2, <1>5, <2>1, AlikeGoto, UsersStay
<1>7. CASE l = "channel_lock"
  <2>1. CondInv'
    BY <1>1, <1>3, <1>4, <1>5, CondStays
  <2>2. AliveInv'
    <3>1. \A u \in Thread : AliveAlike(pc[u], pc'[u])
      BY <1>3, <1>4 DEF AliveAlike
    <3> QED BY <1>1, <3>1, AliveStays
  <2>3. ItemInv'
    BY <1>1, <1>3, <1>4, ItemStays DEF KernelInv
  <2>4. DiskInv'
    <3>1. Quiet
      BY <1>1, <1>7 DEF DiskInv, DiskAt, HoldsAt
    <3>2. Quiet'
      BY <1>1, <1>5, <3>1 DEF Quiet, disk
    <3>3. holder'["channel_lock"] = Nobody
      BY <1>1, <1>2, <1>7 DEF KernelInv, SyncType
    <3>4. \A u \in Thread : ~HoldsAt(pc'[u], "channel_lock")
      BY <1>2, <1>7, <3>3, SchedulerAssumption DEF KernelInv, LockInv
    <3> QED BY <3>2, <3>4 DEF DiskInv
  <2> QED BY <2>1, <2>2, <2>3, <2>4
<1> QED BY <1>6, <1>7

-----------------------------------------------------------------------------
(* Steps between places that are alike.                                    *)

LEMMA PlaceIs ==
    ASSUME PlaceInv, NEW t \in Thread
    PROVE  /\ \A x \in Plain \cup {"idle", "block", "hlt"} : pc[t][1] = x => pc[t] = <<x>>
           /\ pc[t][1] \in {"count_up", "unblock"} =>
                pc[t] = <<pc[t][1], pc[t][2]>> /\ pc[t][2] \in Thread
           /\ pc[t][1] = "issue" => pc[t] = <<"issue", pc[t][2]>> /\ pc[t][2] \in {"read", "write"}
BY DEF PlaceInv, PlaceOK, Plain

\* What a thread does outside the locks, the synchronised list apart.
LEMMA OutsideAlike ==
    ASSUME NEW t \in Thread, NEW p, NEW q,
           \/ /\ \E x \in {"run", "sleep", "activate"} : p = <<x>>
              /\ \/ \E x \in {"run", "sleep", "activate"} : q = <<x>>
                 \/ q \in {Acquire("alive_lock", <<"count_down">>),
                           Acquire("alive_lock", <<"poweroff_check">>),
                           Acquire("channel_lock", <<"issue", "read">>),
                           Acquire("channel_lock", <<"issue", "write">>),
                           Acquire("sl_lock", <<"append">>)}
           \/ (\E c \in Thread : p = <<"unblock", c>>) /\ q = <<"run">>
           \/ /\ \E x \in {"cleanup", "deactivate", "destroy", "die"} : p = <<x>>
              /\ \E x \in {"deactivate", "destroy", "die", "none"} : q = <<x>>
           \/ /\ \E x \in {"idle", "block", "hlt"} : p = <<x>>
              /\ \E x \in {"block", "hlt"} : q = <<x>>
    PROVE  Alike(t, p, q)
<1>1. AliveAlike(p, q)
  BY DEF AliveAlike, FinAt, CountsAt, HardAt, Acquire
<1>2. DiskAlike(p, q)
  BY DEF DiskAlike, HoldsAt, Acquire
<1>3. TakerAt(t, p) <=> TakerAt(t, q)
  BY DEF TakerAt, Acquire
<1>4. \A c \in Conds : ~CondAt(t, p, c)
  BY DEF CondAt
<1> QED BY <1>1, <1>2, <1>3, <1>4 DEF Alike

LEMMA OutsideUsers ==
    ASSUME KernelInv, KernelInv', UsersInv, NEW t \in Thread,
           \/ Cleanup(t) \/ Deactivate(t) \/ Destroy(t) \/ Die(t) \/ Activate(t)
           \/ Exit(t) \/ Load(t) \/ PowerOff(t) \/ Sleep(t) \/ DiskCall(t)
           \/ UnblockNew(t) \/ HardPowerOff(t) \/ SleepLoop(t) \/ EnableInterrupts(t)
    PROVE  UsersInv'
<1>1. PlaceInv
  BY DEF KernelInv
<1>2. UNCHANGED <<waiters, alive_count, items, disk, sema>>
  BY DEF Cleanup, Deactivate, Destroy, Die, Activate, Exit, Load, PowerOff, Sleep, DiskCall,
         UnblockNew, HardPowerOff, SleepLoop, EnableInterrupts, sync, others
<1>3. \/ UNCHANGED pc
      \/ \E p : Goto(t, p) /\ Alike(t, pc[t], p)
  <2> USE <1>1, PlaceIs, OutsideAlike DEF At, Call, Plain
  <2>1. CASE Cleanup(t) \/ Deactivate(t) \/ Destroy(t) \/ Die(t)
    BY <2>1 DEF Cleanup, Deactivate, Destroy, Die
  <2>2. CASE Activate(t) \/ UnblockNew(t) \/ Load(t) \/ Sleep(t) \/ SleepLoop(t)
    BY <2>2 DEF Activate, UnblockNew, Load, Sleep, SleepLoop
  <2>3. CASE Exit(t) \/ PowerOff(t) \/ DiskCall(t)
    BY <2>3 DEF Exit, PowerOff, DiskCall
  <2>4. CASE HardPowerOff(t) \/ EnableInterrupts(t)
    BY <2>4 DEF HardPowerOff, EnableInterrupts
  <2> QED BY <2>1, <2>2, <2>3, <2>4
<1>4. \A u \in Thread : Alike(u, pc[u], pc'[u])
  BY <1>1, <1>3, AlikeGoto, AlikeSelf
<1> QED BY <1>2, <1>4, UsersStay

LEMMA ResumedAlike ==
    ASSUME KernelInv, pc' = Resumed PROVE \A u \in Thread : Alike(u, pc[u], pc'[u])
<1>1. PlaceInv /\ current \in Thread
  BY DEF KernelInv, CpuInv
<1>2. CASE pc[current] = <<"hlt">>
  <2>1. Goto(current, <<"block">>) /\ Alike(current, pc[current], <<"block">>)
    BY <1>1, <1>2, OutsideAlike DEF Resumed, Goto
  <2> QED BY <1>1, <2>1, AlikeGoto
<1>3. CASE pc[current] # <<"hlt">>
  BY <1>3, AlikeSelf DEF Resumed
<1> QED BY <1>2, <1>3

LEMMA TickUsers == ASSUME KernelInv, KernelInv', UsersInv, Tick PROVE UsersInv'
<1>1. UNCHANGED <<waiters, alive_count, items, disk, sema>> /\ pc' = Resumed
  BY DEF Tick, sync
<1> QED BY <1>1, ResumedAlike, UsersStay

LEMMA IdleUsers ==
    ASSUME KernelInv, KernelInv', UsersInv, IdleStart \/ IdleBlock PROVE UsersInv'
<1>1. PlaceInv /\ Idle \in Thread
  BY SchedulerAssumption DEF KernelInv
<1>2. UNCHANGED <<waiters, alive_count, items, disk>>
  BY DEF IdleStart, IdleBlock, sync, others
<1>3. \E p : Goto(Idle, p) /\ Alike(Idle, pc[Idle], p)
  BY <1>1, PlaceIs, OutsideAlike DEF IdleStart, IdleBlock, At
<1>4. \A u \in Thread : Alike(u, pc[u], pc'[u])
  BY <1>1, <1>3, AlikeGoto
<1>5. \A s \in Thread \cup {"completion_wait"} : sema'[s] = sema[s]
  BY SchedulerAssumption DEF IdleStart, IdleBlock, Up, sync, KernelInv, SyncType, SemaName
<1> QED BY <1>2, <1>4, <1>5, UsersStay

LEMMA SlCallUsers ==
    ASSUME KernelInv, KernelInv', UsersInv, NEW t \in Thread, SlCall(t) PROVE UsersInv'
<1>1. /\ PlaceInv /\ pc[t] = <<"run">>
      /\ UNCHANGED <<waiters, alive_count, items, disk, sema>>
  BY PlaceIs DEF KernelInv, SlCall, Call, At, Plain, sync, others
<1>2. CASE Goto(t, Acquire("sl_lock", <<"append">>))
  <2>1. Alike(t, pc[t], Acquire("sl_lock", <<"append">>))
    BY <1>1, OutsideAlike
  <2> QED BY <1>1, <1>2, <2>1, AlikeGoto, UsersStay
<1>3. CASE Goto(t, Acquire("sl_lock", <<"remove">>))
  <2> DEFINE p == Acquire("sl_lock", <<"remove">>)
  <2>1. pc'[t] = p /\ \A u \in Thread : u # t => pc'[u] = pc[u]
    BY <1>1, <1>3 DEF PlaceInv, Goto
  <2>2. /\ AliveAlike(pc[t], p) /\ DiskAlike(pc[t], p) /\ ~TakerAt(t, pc[t])
        /\ \A c \in Conds : ~CondAt(t, pc[t], c)
    BY <1>1 DEF AliveAlike, FinAt, CountsAt, HardAt, DiskAlike, HoldsAt, TakerAt, CondAt, Acquire
  <2>3. CondInv'
    BY <1>1, <2>1, <2>2, CondStays DEF UsersInv, CondInv
  <2>4. AliveInv'
    <3>1. \A u \in Thread : AliveAlike(pc[u], pc'[u])
      BY <2>1, <2>2 DEF AliveAlike
    <3> QED BY <1>1, <3>1, AliveStays DEF UsersInv
  <2>5. ItemInv'
    BY <1>1, <2>1, <2>2, ItemStays DEF UsersInv, KernelInv
  <2>6. DiskInv'
    <3>1. \A u \in Thread : DiskAlike(pc[u], pc'[u])
      BY <2>1, <2>2 DEF DiskAlike
    <3> QED BY <1>1, <3>1, DiskStays DEF UsersInv
  <2> QED BY <2>3, <2>4, <2>5, <2>6 DEF UsersInv
<1> QED BY <1>2, <1>3 DEF SlCall

-----------------------------------------------------------------------------
(* The disk.                                                               *)

\* Steps that only matter for the disk.
LEMMA BesidesDisk ==
    ASSUME KernelInv, KernelInv', UsersInv, UNCHANGED <<waiters, alive_count, items>>,
           \A u \in Thread : sema'[u].value = sema[u].value,
           \A u \in Thread : AliveAlike(pc[u], pc'[u]) /\ (TakerAt(u, pc[u]) <=> TakerAt(u, pc'[u])),
           \A u \in Thread, c \in Conds : CondAt(u, pc[u], c) => CondAt(u, pc'[u], c)
    PROVE  CondInv' /\ AliveInv' /\ ItemInv'
<1>1. CondInv'
  BY CondStays DEF UsersInv
<1>2. AliveInv'
  BY AliveStays DEF UsersInv
<1>3. ItemInv'
  BY ItemStays DEF UsersInv, KernelInv
<1> QED BY <1>1, <1>2, <1>3

LEMMA DiskInterruptUsers ==
    ASSUME KernelInv, KernelInv', UsersInv, DiskInterrupt PROVE UsersInv'
<1>1. /\ device.state = "busy" /\ device' = [device EXCEPT !.state = "done"] /\ pc' = Resumed
      /\ UNCHANGED <<waiters, alive_count, items, expecting, holder>>
      /\ expecting => sema' = [sema EXCEPT !["completion_wait"] = SemaUp(@)]
      /\ ~expecting => sema' = sema
  BY DEF DiskInterrupt, Up, others
<1>2. \A u \in Thread : Alike(u, pc[u], pc'[u])
  BY <1>1, ResumedAlike
<1>0. /\ Thread \cap (Locks \cup {Nobody, "idle_started", "completion_wait"}) = {}
      /\ "channel_lock" \in Locks /\ "completion_wait" \in SemaName /\ Thread \subseteq SemaName
  BY SchedulerAssumption DEF Locks, SemaName
<1>3. \A u \in Thread : sema'[u].value = sema[u].value
  BY <1>0, <1>1 DEF KernelInv, SyncType
<1>4. CondInv' /\ AliveInv' /\ ItemInv'
  BY <1>1, <1>2, <1>3, BesidesDisk DEF Alike
<1>5. PICK t \in Thread : holder["channel_lock"] = t
  BY <1>0, <1>1 DEF UsersInv, DiskInv, Quiet, KernelInv, SyncType
<1>6. /\ HoldsAt(pc[t], "channel_lock") /\ DiskAt(pc[t], t)
      /\ \A u \in Thread : HoldsAt(pc[u], "channel_lock") => u = t
  BY <1>0, <1>5 DEF UsersInv, DiskInv, KernelInv, LockInv
<1>7. CompletionAt(pc[t])
  BY <1>1, <1>6 DEF HoldsAt, DiskAt, Quiet, CompletionAt
<1>8. device = [state |-> "busy", for |-> t] /\ expecting /\ sema["completion_wait"].value = 0
  BY <1>1, <1>6, <1>7 DEF DiskAt
<1>9. device' = [state |-> "done", for |-> t] /\ sema'["completion_wait"].value = 1
  <2>1. sema'["completion_wait"] = SemaUp(sema["completion_wait"])
    BY <1>0, <1>1, <1>8 DEF KernelInv, SyncType
  <2> QED BY <1>1, <1>8, <2>1 DEF SemaUp
<1>10. CompletionAt(pc'[t]) /\ \A u \in Thread : HoldsAt(pc'[u], "channel_lock") => u = t
  <2>1. \A u \in Thread : HoldsAt(pc'[u], "channel_lock") <=> HoldsAt(pc[u], "channel_lock")
    BY <1>2 DEF Alike, DiskAlike, CompletionAt, HoldsAt
  <2>2. CompletionAt(pc'[t])
    BY <1>2, <1>6, <1>7 DEF Alike, DiskAlike
  <2> QED BY <1>6, <2>1, <2>2
<1>11. DiskInv'
  BY <1>0, <1>1, <1>5, <1>9, <1>10 DEF DiskInv, DiskAt, CompletionAt
<1> QED BY <1>4, <1>11 DEF UsersInv

LEMMA DriverUsers ==
    ASSUME KernelInv, KernelInv', UsersInv, NEW t \in Thread, Issue(t) \/ Output(t) \/ Input(t)
    PROVE  UsersInv'
<1> DEFINE up == Release("channel_lock", <<"run">>)
<1>1. /\ pc[t][1] \in {"issue", "output", "input"} /\ PlaceInv
      /\ UNCHANGED <<waiters, alive_count, items, sema, holder>>
  BY DEF Issue, Output, Input, At, sync, others, KernelInv
<1>2. PICK p \in {<<"down", "completion_wait", <<"input">>>>, <<"output">>,
                  <<"down", "completion_wait", up>>, up} :
        Goto(t, p)
  BY DEF Issue, Output, Input
<1>3. pc'[t] = p /\ \A u \in Thread : u # t => pc'[u] = pc[u]
  BY <1>1, <1>2 DEF PlaceInv, Goto
<1>0. /\ Thread \cap (Locks \cup {Nobody, "idle_started", "completion_wait"}) = {}
      /\ "channel_lock" \in Locks
  BY SchedulerAssumption DEF Locks
<1>4. /\ AliveAlike(pc[t], p) /\ (TakerAt(t, pc[t]) <=> TakerAt(t, p))
      /\ \A c \in Conds : ~CondAt(t, pc[t], c)
  <2>1. \/ Len(pc[t]) = 1
        \/ pc[t] = <<"issue", pc[t][2]>>
    BY <1>1, PlaceIs DEF Plain
  <2> QED BY <1>1, <2>1 DEF AliveAlike, FinAt, CountsAt, HardAt, TakerAt, CondAt, Release, Acquire
<1>5. CondInv' /\ AliveInv' /\ ItemInv'
  <2>1. \A u \in Thread : AliveAlike(pc[u], pc'[u])
                           /\ (TakerAt(u, pc[u]) <=> TakerAt(u, pc'[u]))
    BY <1>3, <1>4 DEF AliveAlike
  <2> QED BY <1>1, <1>3, <1>4, <2>1, BesidesDisk
<1>6. /\ holder["channel_lock"] = t /\ HoldsAt(pc[t], "channel_lock") /\ DiskAt(pc[t], t)
      /\ \A u \in Thread : HoldsAt(pc[u], "channel_lock") => u = t
  BY <1>0, <1>1 DEF UsersInv, DiskInv, KernelInv, LockInv, HoldsAt
<1>7. sema["completion_wait"].value = 0
  BY <1>1, <1>6 DEF DiskAt, Quiet
<1>8. DiskAt(pc[t], t)'
  <2>1. CASE Issue(t)
    BY <1>1, <1>7, <2>1 DEF Issue, At, DiskAt, CompletionAt, Quiet, Goto, PlaceInv
  <2>2. CASE Output(t)
    BY <1>1, <1>6, <1>7, <2>2 DEF Output, At, DiskAt, CompletionAt, Quiet, Goto, PlaceInv
  <2>3. CASE Input(t)
    BY <1>1, <1>7, <2>3 DEF Input, At, DiskAt, CompletionAt, Quiet, Goto, PlaceInv, Release
  <2> QED BY <2>1, <2>2, <2>3
<1>9. \A u \in Thread : HoldsAt(pc'[u], "channel_lock") => u = t
  BY <1>3, <1>6
<1>10. DiskInv'
  BY <1>0, <1>1, <1>6, <1>8, <1>9 DEF DiskInv
<1> QED BY <1>5, <1>10 DEF UsersInv

-----------------------------------------------------------------------------
(* Condition variables.                                                    *)

\* cond_wait by a thread that holds the lock.
LEMMA CondWaitInv ==
    ASSUME KernelInv, CondInv, NEW t \in Thread, NEW c \in Conds, NEW l,
           \A d \in Conds : ~CondAt(t, pc[t], d),
           CondWait(t, c, l, Again(c)[3]), Again(c) = Acquire(l, Again(c)[3])
    PROVE  /\ CondInv'
           /\ \A u \in Thread : u # t => pc'[u] = pc[u]
           /\ pc'[t] = Release(l, <<"down", t, Again(c)>>)
           /\ \A d \in Conds : d # c => waiters'[d] = waiters[d]
           /\ \A u \in Thread : In(waiters'[c], u) <=> In(waiters[c], u) \/ u = t
           /\ \A s \in SemaName : s # t => sema'[s] = sema[s]
<1>1. /\ sema' = [sema EXCEPT ![t] = sema_init(0)]
      /\ waiters' = [waiters EXCEPT ![c] = Append(@, t)]
      /\ pc' = [pc EXCEPT ![t] = Release(l, <<"down", t, Again(c)>>)]
  BY DEF CondWait, Goto
<1>2. /\ \A u \in Thread : u # t => pc'[u] = pc[u]
      /\ pc'[t] = Release(l, <<"down", t, Again(c)>>)
      /\ waiters'[c] = Append(waiters[c], t)
      /\ \A d \in Conds : d # c => waiters'[d] = waiters[d]
      /\ waiters[c] \in Seq(Thread)
      /\ sema'[t].value = 0 /\ \A s \in SemaName : s # t => sema'[s] = sema[s]
  BY <1>1 DEF KernelInv, PlaceInv, SyncType, sema_init, SemaName
<1>3. \A d \in Conds : ~In(waiters[d], t)
  BY DEF CondInv
<1>4. /\ Once(waiters'[c])
      /\ \A u \in Thread : In(waiters'[c], u) <=> In(waiters[c], u) \/ u = t
  BY <1>2, <1>3, QueueAppend DEF CondInv
<1>5. CondAt(t, pc'[t], c)
  BY <1>2 DEF CondAt, Release
<1>6. CondInv'
  <2> SUFFICES ASSUME NEW d \in Conds
               PROVE  /\ Once(waiters'[d])
                      /\ \A u \in Thread :
                            In(waiters'[d], u) => CondAt(u, pc'[u], d) /\ sema'[u].value = 0
    BY DEF CondInv
  <2>1. Once(waiters'[d])
    BY <1>2, <1>4 DEF CondInv
  <2>2. ASSUME NEW u \in Thread, In(waiters'[d], u)
        PROVE  CondAt(u, pc'[u], d) /\ sema'[u].value = 0
    <3>1. CASE u = t
      BY <1>2, <1>3, <1>5, <2>2, <3>1
    <3>2. CASE u # t
      BY <1>2, <1>4, <2>2, <3>2 DEF CondInv, SemaName
    <3> QED BY <3>1, <3>2
  <2> QED BY <2>1, <2>2
<1> QED BY <1>2, <1>4, <1>6

\* cond_signal: the first thread in the queue, if any, leaves it and gets a unit.
LEMMA CondSignalInv ==
    ASSUME KernelInv, CondInv, NEW t \in Thread, NEW c \in Conds,
           \A d \in Conds : ~CondAt(t, pc[t], d), NEW p, Goto(t, p), CondSignal(c)
    PROVE  /\ CondInv'
           /\ \A u \in Thread : u # t => pc'[u] = pc[u]
           /\ pc'[t] = p
           /\ \A d \in Conds : d # c => waiters'[d] = waiters[d]
           /\ waiters[c] = <<>> => waiters'[c] = waiters[c]
           /\ waiters[c] # <<>> =>
                /\ Head(waiters[c]) \in Thread /\ In(waiters[c], Head(waiters[c]))
                /\ \A u \in Thread : In(waiters'[c], u) <=>
                                       In(waiters[c], u) /\ u # Head(waiters[c])
           /\ \A s \in SemaName \ Thread : sema'[s] = sema[s]
<1>1. \A u \in Thread : u # t => pc'[u] = pc[u]
  BY DEF Goto, KernelInv, PlaceInv
<1>2. pc'[t] = p
  BY DEF Goto, KernelInv, PlaceInv
<1>3. \A d \in Conds, u \in Thread : In(waiters[d], u) => CondAt(u, pc'[u], d)
  BY <1>1 DEF CondInv
<1>4. CASE waiters[c] = <<>>
  <2>1. UNCHANGED <<sema, waiters>>
    BY <1>4 DEF CondSignal
  <2> QED BY <1>1, <1>2, <1>3, <1>4, <2>1 DEF CondInv
<1>5. CASE waiters[c] # <<>>
  <2> DEFINE h == Head(waiters[c])
  <2>1. /\ waiters[c] \in Seq(Thread) /\ waiters' = [waiters EXCEPT ![c] = Tail(@)]
        /\ sema' = [sema EXCEPT ![h] = SemaUp(@)]
    BY <1>5 DEF CondSignal, Up, KernelInv, SyncType
  <2>2. /\ waiters'[c] = Tail(waiters[c]) /\ \A d \in Conds : d # c => waiters'[d] = waiters[d]
    BY <2>1 DEF KernelInv, SyncType
  <2>3. /\ h \in Thread /\ In(waiters[c], h) /\ Once(waiters'[c])
        /\ \A u \in Thread : In(waiters'[c], u) <=> In(waiters[c], u) /\ u # h
    BY <1>5, <2>1, <2>2, QueueTail DEF CondInv
  <2> HIDE DEF h
  <2>4. \A s \in SemaName : s # h => sema'[s] = sema[s]
    BY <2>1 DEF KernelInv, SyncType
  <2>5. \A d \in Conds : d # c => ~In(waiters[d], h)
    <3>1. CondAt(h, pc[h], c) /\ \A d \in Conds : In(waiters[d], h) => CondAt(h, pc[h], d)
      BY <2>3 DEF CondInv
    <3>2. \A d \in Conds : Again(d) = Again(c) => d = c
      BY DEF Conds, Again, Acquire
    <3>3. \A d \in Conds : CondAt(h, pc[h], d) => Again(d) = Again(c)
      BY <3>1 DEF CondAt
    <3> QED BY <3>1, <3>2, <3>3
  <2>6. CondInv'
    <3> SUFFICES ASSUME NEW d \in Conds
                 PROVE  /\ Once(waiters'[d])
                        /\ \A u \in Thread :
                              In(waiters'[d], u) => CondAt(u, pc'[u], d) /\ sema'[u].value = 0
      BY DEF CondInv
    <3>1. Once(waiters'[d])
      BY <2>2, <2>3 DEF CondInv
    <3>2. \A u \in Thread : In(waiters'[d], u) => In(waiters[d], u) /\ u # h
      BY <2>2, <2>3, <2>5
    <3> QED BY <1>3, <2>4, <3>1, <3>2 DEF CondInv, SemaName
  <2> QED BY <1>1, <1>2, <1>5, <2>2, <2>3, <2>4, <2>6 DEF h
<1> QED BY <1>4, <1>5

-----------------------------------------------------------------------------
(* The synchronised list.                                                  *)

LEMMA SlAppendUsers ==
    ASSUME KernelInv, KernelInv', UsersInv, NEW t \in Thread, SlAppend(t) PROVE UsersInv'
<1> DEFINE p == Release("sl_lock", <<"run">>)  h == Head(waiters["sl_empty"])
<1>1. /\ pc[t] = <<"append">> /\ items' = items + 1 /\ CondSignal("sl_empty") /\ Goto(t, p)
      /\ UNCHANGED <<holder, disk, alive_count>>
  BY PlaceIs DEF SlAppend, At, Plain, KernelInv
<1>2. /\ AliveAlike(pc[t], p) /\ DiskAlike(pc[t], p) /\ ~TakerAt(t, pc[t])
      /\ \A c \in Conds : ~CondAt(t, pc[t], c)
  BY <1>1 DEF AliveAlike, FinAt, CountsAt, HardAt, DiskAlike, HoldsAt, TakerAt, CondAt, Release
<1>0. "sl_empty" \in Conds /\ "alive_cond" \in Conds /\ "completion_wait" \in SemaName \ Thread
  BY SchedulerAssumption DEF Conds, SemaName
<1>3. /\ CondInv'
      /\ \A u \in Thread : u # t => pc'[u] = pc[u]
      /\ pc'[t] = p
      /\ waiters'["alive_cond"] = waiters["alive_cond"]
      /\ waiters["sl_empty"] = <<>> => waiters'["sl_empty"] = <<>>
      /\ waiters["sl_empty"] # <<>> =>
           /\ h \in Thread /\ In(waiters["sl_empty"], h)
           /\ \A u \in Thread :
                In(waiters'["sl_empty"], u) <=> In(waiters["sl_empty"], u) /\ u # h
      /\ sema'["completion_wait"] = sema["completion_wait"]
  BY <1>0, <1>1, <1>2, CondSignalInv DEF UsersInv
<1> HIDE DEF h
<1>4. AliveInv'
  <2>1. \A u \in Thread : AliveAlike(pc[u], pc'[u])
    BY <1>2, <1>3 DEF AliveAlike
  <2> QED BY <1>1, <1>3, <2>1, AliveStays DEF UsersInv
<1>5. DiskInv'
  <2>1. \A u \in Thread : DiskAlike(pc[u], pc'[u])
    BY <1>2, <1>3 DEF DiskAlike
  <2> QED BY <1>1, <1>3, <2>1, DiskStays DEF UsersInv
<1>6. ItemInv'
  <2>0. items \in Nat /\ items' \in Nat
    BY <1>1 DEF UsersInv, ItemInv
  <2>1. /\ Takers = {u \in Thread : ~In(waiters["sl_empty"], u) /\ TakerAt(u, pc[u])}
        /\ IsFiniteSet(Takers) /\ Cardinality(Takers) \in Nat
    BY TakersAre DEF KernelInv
  <2>2. /\ Takers' = {u \in Thread : ~In(waiters'["sl_empty"], u) /\ TakerAt(u, pc'[u])}
        /\ IsFiniteSet(Takers') /\ Cardinality(Takers') \in Nat
    BY TakersNext DEF KernelInv
  <2>3. CASE waiters["sl_empty"] = <<>>
    BY <1>3, <2>0, <2>3 DEF ItemInv, NoItemStranded
  <2>4. CASE waiters["sl_empty"] # <<>>
    <3>1. items <= Cardinality(Takers)
      BY <2>4 DEF UsersInv, ItemInv, NoItemStranded
    <3>2. TakerAt(h, pc[h]) /\ h # t
      <4>1. h \in Thread /\ CondAt(h, pc[h], "sl_empty")
        BY <1>0, <1>3, <2>4 DEF UsersInv, CondInv
      <4>2. CondAt(h, pc[h], "sl_empty") => TakerAt(h, pc[h])
        BY DEF CondAt, TakerAt, Again
      <4> QED BY <1>0, <1>2, <4>1, <4>2
    <3>3. h \in Takers' /\ h \notin Takers /\ Takers \subseteq Takers'
      BY <1>2, <1>3, <2>1, <2>2, <2>4, <3>2
    <3>4. /\ IsFiniteSet(Takers \cup {h})
          /\ Cardinality(Takers \cup {h}) = Cardinality(Takers) + 1
      BY <2>1, <3>3, FS_AddElement
    <3>5. Cardinality(Takers \cup {h}) <= Cardinality(Takers')
      BY <2>2, <3>3, FS_Subset
    <3> QED BY <1>1, <2>0, <2>1, <2>2, <3>1, <3>4, <3>5 DEF ItemInv, NoItemStranded
  <2> QED BY <2>3, <2>4
<1> QED BY <1>3, <1>4, <1>5, <1>6 DEF UsersInv

LEMMA SlRemoveUsers ==
    ASSUME KernelInv, KernelInv', UsersInv, NEW t \in Thread, SlRemove(t) PROVE UsersInv'
<1>1. /\ pc[t] = <<"remove">> /\ PlaceInv /\ UNCHANGED <<holder, disk, alive_count>>
  BY PlaceIs DEF SlRemove, At, Plain, KernelInv
<1>0. /\ "sl_empty" \in Conds /\ "alive_cond" \in Conds
      /\ "completion_wait" \in SemaName \ Thread
  BY SchedulerAssumption DEF Conds, SemaName
<1>2. TakerAt(t, pc[t]) /\ \A c \in Conds : ~CondAt(t, pc[t], c)
  BY <1>1 DEF TakerAt, CondAt
<1>3. CASE items = 0
  <2> DEFINE p == Release("sl_lock", <<"down", t, Again("sl_empty")>>)
  <2>1. CondWait(t, "sl_empty", "sl_lock", <<"remove">>) /\ UNCHANGED items
    BY <1>3 DEF SlRemove
  <2>2. Again("sl_empty") = Acquire("sl_lock", <<"remove">>) /\ Again("sl_empty")[3] = <<"remove">>
    BY DEF Again, Acquire
  <2>3. /\ CondInv'
        /\ \A u \in Thread : u # t => pc'[u] = pc[u]
        /\ pc'[t] = p
        /\ waiters'["alive_cond"] = waiters["alive_cond"]
        /\ sema'["completion_wait"] = sema["completion_wait"]
    BY <1>0, <1>2, <2>1, <2>2, CondWaitInv DEF UsersInv
  <2>4. AliveAlike(pc[t], p) /\ DiskAlike(pc[t], p)
    BY <1>1, <2>2 DEF AliveAlike, FinAt, CountsAt, HardAt, DiskAlike, HoldsAt, Release, Acquire
  <2>5. AliveInv'
    <3>1. \A u \in Thread : AliveAlike(pc[u], pc'[u])
      BY <2>3, <2>4 DEF AliveAlike
    <3> QED BY <1>1, <2>3, <3>1, AliveStays DEF UsersInv
  <2>6. DiskInv'
    <3>1. \A u \in Thread : DiskAlike(pc[u], pc'[u])
      BY <2>3, <2>4 DEF DiskAlike
    <3> QED BY <1>1, <2>3, <3>1, DiskStays DEF UsersInv
  <2>7. ItemInv'
    <3>1. Cardinality(Takers') \in Nat
      BY TakersNext DEF KernelInv
    <3> QED BY <1>3, <2>1, <3>1 DEF ItemInv, NoItemStranded
  <2> QED BY <2>3, <2>5, <2>6, <2>7 DEF UsersInv
<1>4. CASE items # 0
  <2> DEFINE p == Release("sl_lock", <<"run">>)
  <2>1. items' = items - 1 /\ Goto(t, p) /\ UNCHANGED <<sema, waiters>>
    BY <1>4 DEF SlRemove
  <2>2. pc'[t] = p /\ \A u \in Thread : u # t => pc'[u] = pc[u]
    BY <1>1, <2>1 DEF Goto, PlaceInv
  <2>3. AliveAlike(pc[t], p) /\ DiskAlike(pc[t], p)
    BY <1>1 DEF AliveAlike, FinAt, CountsAt, HardAt, DiskAlike, HoldsAt, Release
  <2>4. CondInv'
    BY <1>2, <2>1, <2>2, CondStays DEF UsersInv, CondInv
  <2>5. AliveInv'
    <3>1. \A u \in Thread : AliveAlike(pc[u], pc'[u])
      BY <2>2, <2>3 DEF AliveAlike
    <3> QED BY <1>1, <2>1, <3>1, AliveStays DEF UsersInv
  <2>6. DiskInv'
    <3>1. \A u \in Thread : DiskAlike(pc[u], pc'[u])
      BY <2>2, <2>3 DEF DiskAlike
    <3> QED BY <1>1, <2>1, <3>1, DiskStays DEF UsersInv
  <2>7. ItemInv'
    <3>0. items \in Nat /\ items' \in Nat
      BY <1>4, <2>1 DEF UsersInv, ItemInv
    <3>1. /\ Takers = {u \in Thread : ~In(waiters["sl_empty"], u) /\ TakerAt(u, pc[u])}
          /\ IsFiniteSet(Takers) /\ Cardinality(Takers) \in Nat
      BY TakersAre DEF KernelInv
    <3>2. /\ Takers' = {u \in Thread : ~In(waiters'["sl_empty"], u) /\ TakerAt(u, pc'[u])}
          /\ IsFiniteSet(Takers') /\ Cardinality(Takers') \in Nat
      BY TakersNext DEF KernelInv
    <3>3. Takers \ {t} \subseteq Takers'
      BY <2>1, <2>2, <3>1, <3>2
    <3>4. t \in Takers
      BY <1>2, <3>1 DEF UsersInv, CondInv, Conds
    <3>5. Cardinality(Takers \ {t}) = Cardinality(Takers) - 1
      BY <3>1, <3>4, FS_RemoveElement
    <3>6. Cardinality(Takers \ {t}) <= Cardinality(Takers')
      BY <3>2, <3>3, FS_Subset
    <3> QED BY <2>1, <3>0, <3>1, <3>2, <3>5, <3>6 DEF UsersInv, ItemInv, NoItemStranded
  <2> QED BY <2>4, <2>5, <2>6, <2>7 DEF UsersInv
<1> QED BY <1>3, <1>4

-----------------------------------------------------------------------------
(* The count of threads.                                                   *)

\* Who has created a thread and not counted it keeps it at its first place.
LEMMA CountsMakes ==
    ASSUME KernelInv, NEW u \in Thread, NEW c \in Thread, CountsAt(pc[u], c)
    PROVE  pc[c] = <<"run">> /\ MakesAt(pc[u], c)
<1>1. MakesAt(pc[u], c)
  BY DEF CountsAt, MakesAt
<1> QED BY <1>1 DEF KernelInv, Blocked

LEMMA CountedFinite ==
    /\ IsFiniteSet(Counted) /\ Cardinality(Counted) \in Nat
    /\ IsFiniteSet(Counted') /\ Cardinality(Counted') \in Nat
<1>1. IsFiniteSet(Thread) /\ Counted \subseteq Thread /\ Counted' \subseteq Thread
  BY SchedulerAssumption DEF Counted
<1> QED BY <1>1, FS_Subset, FS_CardinalityType

LEMMA CreateUsers ==
    ASSUME KernelInv, KernelInv', UsersInv, NEW t \in Thread, NEW c \in Thread, Create(t, c)
    PROVE  UsersInv'
<1> DEFINE p == Acquire("alive_lock", <<"count_up", c>>)
<1>1. /\ pc[t] = <<"run">> /\ current = t /\ status[c] = "none"
      /\ pc' = [pc EXCEPT ![c] = <<"run">>, ![t] = p]
      /\ UNCHANGED <<waiters, alive_count, items, disk, sema>>
  BY PlaceIs DEF Create, Call, At, Plain, KernelInv, sync, others
<1>2. pc[c] = <<"none">> /\ c # t
  BY <1>1 DEF KernelInv, Blocked
<1>3. /\ pc'[t] = p /\ pc'[c] = <<"run">>
      /\ \A u \in Thread : u \notin {t, c} => pc'[u] = pc[u]
  BY <1>1, <1>2 DEF KernelInv, PlaceInv
<1>a. /\ pc[t] = <<"run">> /\ pc[c] = <<"none">> /\ pc'[c] = <<"run">>
      /\ pc'[t] = <<"down", "alive_lock", <<"count_up", c>>>>
  BY <1>1, <1>2, <1>3 DEF Acquire
<1>4. /\ DiskAlike(pc[t], pc'[t]) /\ DiskAlike(pc[c], pc'[c])
      /\ ~TakerAt(t, pc[t]) /\ ~TakerAt(c, pc[c])
      /\ \A d \in Conds : ~CondAt(t, pc[t], d) /\ ~CondAt(c, pc[c], d)
  <2>1. DiskAlike(pc[t], pc'[t]) /\ ~TakerAt(t, pc[t]) /\ \A d \in Conds : ~CondAt(t, pc[t], d)
    BY <1>a DEF DiskAlike, HoldsAt, TakerAt, CondAt
  <2>2. DiskAlike(pc[c], pc'[c]) /\ ~TakerAt(c, pc[c]) /\ \A d \in Conds : ~CondAt(c, pc[c], d)
    BY <1>a DEF DiskAlike, HoldsAt, TakerAt, CondAt
  <2> QED BY <2>1, <2>2
<1>5. CondInv'
  BY <1>1, <1>3, <1>4, CondStays DEF UsersInv, CondInv
<1>6. ItemInv'
  BY <1>1, <1>3, <1>4, ItemStays DEF UsersInv, KernelInv
<1>7. DiskInv'
  <2>1. \A u \in Thread : DiskAlike(pc[u], pc'[u])
    BY <1>3, <1>4 DEF DiskAlike
  <2> QED BY <1>1, <2>1, DiskStays DEF UsersInv
<1>8. /\ ~FinAt(pc[t]) /\ ~FinAt(pc'[t]) /\ FinAt(pc[c]) /\ ~FinAt(pc'[c])
      /\ \A b \in Thread : ~CountsAt(pc[t], b) /\ ~CountsAt(pc[c], b) /\ ~CountsAt(pc'[c], b)
      /\ \A b \in Thread : CountsAt(pc'[t], b) <=> b = c
      /\ ~HardAt(pc[t]) /\ ~HardAt(pc'[t]) /\ ~HardAt(pc'[c])
  <2>1. /\ ~FinAt(pc[t]) /\ ~HardAt(pc[t]) /\ ~FinAt(pc'[c]) /\ ~HardAt(pc'[c]) /\ FinAt(pc[c])
        /\ \A b \in Thread : ~CountsAt(pc[t], b) /\ ~CountsAt(pc[c], b) /\ ~CountsAt(pc'[c], b)
    <3>1. \A x : x = <<"run">> \/ x = <<"none">> =>
            /\ ~HardAt(x) /\ (FinAt(x) <=> x = <<"none">>)
            /\ \A b \in Thread : ~CountsAt(x, b)
      BY DEF FinAt, CountsAt, HardAt
    <3> QED BY <1>a, <3>1
  <2>2. /\ ~FinAt(p) /\ ~HardAt(p)
        /\ \A b \in Thread : CountsAt(p, b) <=> b = c
    BY DEF FinAt, CountsAt, HardAt, Acquire
  <2> HIDE DEF p
  <2> QED BY <1>3, <2>1, <2>2
<1>9. Counted' = Counted
  <2>1. ASSUME NEW b \in Thread
        PROVE  b \in Counted' <=> b \in Counted
    <3>1. CASE b = c
      BY <1>8, <3>1 DEF Counted
    <3>2. CASE b # c
      <4>1. FinAt(pc'[b]) <=> FinAt(pc[b])
        BY <1>3, <1>8, <3>2
      <4>2. \A u \in Thread : CountsAt(pc'[u], b) <=> CountsAt(pc[u], b)
        BY <1>3, <1>8, <3>2
      <4> QED BY <4>1, <4>2 DEF Counted
    <3> QED BY <3>1, <3>2
  <2> QED BY <2>1 DEF Counted
<1>10. HardAt(pc'[Main]) => ForceOff
  <2> SUFFICES ASSUME HardAt(pc'[Main]), ~ForceOff PROVE FALSE
    BY SchedulerAssumption
  <2>1. Main \in Thread /\ Main \notin {t, c} /\ HardAt(pc[Main])
    BY <1>3, <1>8, SchedulerAssumption
  <2>2. t \in Workers
    BY <1>1, <2>1 DEF KernelInv, PlaceInv, PlaceOK, Workers
  <2> QED BY <1>8, <2>1, <2>2 DEF UsersInv, AliveInv
<1>11. AliveInv'
  BY <1>1, <1>9, <1>10 DEF UsersInv, AliveInv
<1> QED BY <1>5, <1>6, <1>7, <1>11 DEF UsersInv

LEMMA CountUpUsers ==
    ASSUME KernelInv, KernelInv', UsersInv, NEW t \in Thread, CountUp(t) PROVE UsersInv'
<1> DEFINE c == pc[t][2]  p == Release("alive_lock", <<"unblock", c>>)
<1>1. /\ pc[t] = <<"count_up", c>> /\ c \in Thread /\ Goto(t, p)
      /\ alive_count' = alive_count + 1 /\ UNCHANGED <<waiters, items, disk, sema>>
  BY PlaceIs DEF CountUp, At, KernelInv, sync
<1>2. pc'[t] = p /\ \A u \in Thread : u # t => pc'[u] = pc[u]
  BY <1>1 DEF Goto, KernelInv, PlaceInv
<1> HIDE DEF c
<1>3. /\ DiskAlike(pc[t], p) /\ ~TakerAt(t, pc[t]) /\ \A d \in Conds : ~CondAt(t, pc[t], d)
  BY <1>1 DEF DiskAlike, HoldsAt, TakerAt, CondAt, Release
<1>4. CondInv'
  BY <1>1, <1>2, <1>3, CondStays DEF UsersInv, CondInv
<1>5. ItemInv'
  BY <1>1, <1>2, <1>3, ItemStays DEF UsersInv, KernelInv
<1>6. DiskInv'
  <2>1. \A u \in Thread : DiskAlike(pc[u], pc'[u])
    BY <1>2, <1>3 DEF DiskAlike
  <2> QED BY <1>1, <2>1, DiskStays DEF UsersInv
<1>7. /\ ~FinAt(pc[t]) /\ ~FinAt(pc'[t]) /\ CountsAt(pc[t], c) /\ MakesAt(pc[t], c)
      /\ \A b \in Thread : CountsAt(pc[t], b) => b = c
      /\ \A b \in Thread : ~CountsAt(pc'[t], b)
      /\ ~HardAt(pc[t]) /\ ~HardAt(pc'[t])
  BY <1>1, <1>2 DEF FinAt, CountsAt, HardAt, Release, MakesAt
<1>8. pc[c] = <<"run">> /\ c # t /\ \A u \in Thread : CountsAt(pc[u], c) => u = t
  <2>1. pc[c] = <<"run">>
    BY <1>1, <1>7 DEF KernelInv, Blocked
  <2>2. \A u \in Thread : CountsAt(pc[u], c) => u = t
    BY <1>1, <1>7, CountsMakes DEF KernelInv, Blocked
  <2>3. pc[t] # <<"run">>
    BY <1>1
  <2> QED BY <2>1, <2>2, <2>3
<1>9. c \notin Counted /\ Counted' = Counted \cup {c}
  <2>1. c \notin Counted
    BY <1>7 DEF Counted
  <2>2. c \in Counted'
    <3>1. ~FinAt(pc'[c])
      BY <1>1, <1>2, <1>8 DEF FinAt
    <3>2. \A u \in Thread : ~CountsAt(pc'[u], c)
      BY <1>1, <1>2, <1>7, <1>8
    <3> QED BY <1>1, <3>1, <3>2 DEF Counted
  <2>3. ASSUME NEW b \in Thread, b # c PROVE b \in Counted' <=> b \in Counted
    <3>1. FinAt(pc'[b]) <=> FinAt(pc[b])
      BY <1>2, <1>7
    <3>2. \A u \in Thread : CountsAt(pc'[u], b) <=> CountsAt(pc[u], b)
      BY <1>2, <1>7, <2>3
    <3> QED BY <3>1, <3>2 DEF Counted
  <2> QED BY <1>1, <2>1, <2>2, <2>3 DEF Counted
<1>10. alive_count' = Cardinality(Counted')
  BY <1>1, <1>9, CountedFinite, FS_AddElement DEF UsersInv, AliveInv
<1>11. (HardAt(pc'[Main]) => HardAt(pc[Main])) /\ \A u \in Workers : FinAt(pc[u]) => FinAt(pc'[u])
  BY <1>2, <1>7, SchedulerAssumption DEF Workers
<1>12. AliveInv'
  BY <1>1, <1>9, <1>10, <1>11 DEF UsersInv, AliveInv
<1> QED BY <1>4, <1>5, <1>6, <1>12 DEF UsersInv

\* Only the initial thread waits for the others.
LEMMA MainWaits ==
    ASSUME KernelInv, CondInv, NEW u \in Thread, In(waiters["alive_cond"], u) PROVE u = Main
<1>1. CondAt(u, pc[u], "alive_cond") /\ PlaceOK(u, pc[u])
  BY DEF CondInv, Conds, KernelInv, PlaceInv
<1>2. \/ pc[u][1] = "up" /\ AfterUp(u, pc[u][2], <<"down", u, Again("alive_cond")>>)
      \/ pc[u][1] \in {"down", "wait"} /\ AfterDown(u, u, Again("alive_cond"))
  BY <1>1 DEF CondAt, PlaceOK, Plain
<1> QED BY <1>2, SchedulerAssumption DEF AfterUp, AfterDown, Again, Acquire, Locks

LEMMA CountDownUsers ==
    ASSUME KernelInv, KernelInv', UsersInv, NEW t \in Thread, CountDown(t) PROVE UsersInv'
<1> DEFINE p == Release("alive_lock", <<"cleanup">>)
<1>1. /\ pc[t] = <<"count_down">> /\ alive_count' = alive_count - 1
      /\ CondSignal("alive_cond") /\ Goto(t, p) /\ UNCHANGED <<holder, disk, items>>
  BY PlaceIs DEF CountDown, At, Plain, KernelInv
<1>2. /\ DiskAlike(pc[t], p) /\ ~TakerAt(t, pc[t]) /\ \A c \in Conds : ~CondAt(t, pc[t], c)
  BY <1>1 DEF DiskAlike, HoldsAt, TakerAt, CondAt, Release
<1>0. "sl_empty" \in Conds /\ "alive_cond" \in Conds /\ "completion_wait" \in SemaName \ Thread
  BY SchedulerAssumption DEF Conds, SemaName
<1>3. /\ CondInv'
      /\ \A u \in Thread : u # t => pc'[u] = pc[u]
      /\ pc'[t] = p
      /\ waiters'["sl_empty"] = waiters["sl_empty"]
      /\ waiters["alive_cond"] = <<>> => waiters'["alive_cond"] = <<>>
      /\ waiters["alive_cond"] # <<>> =>
           /\ Head(waiters["alive_cond"]) \in Thread
           /\ In(waiters["alive_cond"], Head(waiters["alive_cond"]))
           /\ \A u \in Thread :
                In(waiters'["alive_cond"], u) <=>
                    In(waiters["alive_cond"], u) /\ u # Head(waiters["alive_cond"])
      /\ sema'["completion_wait"] = sema["completion_wait"]
  BY <1>0, <1>1, <1>2, CondSignalInv DEF UsersInv
<1>4. ItemInv'
  BY <1>1, <1>2, <1>3, ItemStays DEF UsersInv, KernelInv
<1>5. DiskInv'
  <2>1. \A u \in Thread : DiskAlike(pc[u], pc'[u])
    BY <1>2, <1>3 DEF DiskAlike
  <2> QED BY <1>1, <1>3, <2>1, DiskStays DEF UsersInv
<1>6. waiters'["alive_cond"] = <<>>
  <2>1. ASSUME waiters["alive_cond"] # <<>>, NEW u \in Thread, In(waiters'["alive_cond"], u)
        PROVE  FALSE
    BY <1>3, <2>1, MainWaits DEF UsersInv
  <2>2. waiters'["alive_cond"] \in Seq(Thread)
    BY <1>0 DEF KernelInv, SyncType
  <2> QED BY <1>3, <2>1, <2>2, QueueEmpty
<1>7. /\ ~FinAt(pc[t]) /\ FinAt(p) /\ ~HardAt(p)
      /\ \A b \in Thread : ~CountsAt(pc[t], b) /\ ~CountsAt(p, b)
  BY <1>1 DEF FinAt, CountsAt, HardAt, Release
<1> HIDE DEF p
<1>8. t \in Counted /\ Counted' = Counted \ {t}
  <2>1. t \in Counted
    BY <1>1, <1>7, CountsMakes DEF Counted
  <2>2. t \notin Counted'
    BY <1>3, <1>7 DEF Counted
  <2>3. ASSUME NEW b \in Thread, b # t PROVE b \in Counted' <=> b \in Counted
    <3>1. FinAt(pc'[b]) <=> FinAt(pc[b])
      BY <1>3, <2>3
    <3>2. \A u \in Thread : CountsAt(pc'[u], b) <=> CountsAt(pc[u], b)
      BY <1>3, <1>7
    <3> QED BY <3>1, <3>2 DEF Counted
  <2> QED BY <2>1, <2>2, <2>3 DEF Counted
<1>9. alive_count' = Cardinality(Counted')
  BY <1>1, <1>8, CountedFinite, FS_RemoveElement DEF UsersInv, AliveInv
<1>10. (HardAt(pc'[Main]) => HardAt(pc[Main])) /\ \A u \in Workers : FinAt(pc[u]) => FinAt(pc'[u])
  BY <1>3, <1>7, SchedulerAssumption DEF Workers
<1>11. AliveInv'
  BY <1>6, <1>9, <1>10 DEF UsersInv, AliveInv
<1> QED BY <1>3, <1>4, <1>5, <1>11 DEF UsersInv

\* While the initial thread looks at the count it and the idle thread are in it, and
\* a thread that was not counted yet has a creator in it, too.
LEMMA CountedTwo ==
    ASSUME KernelInv, AliveInv, pc[Main] = <<"poweroff_check">>
    PROVE  /\ {Main, Idle} \subseteq Counted
           /\ alive_count # 2 => Counted \cap Workers # {}
           /\ alive_count = 2 => \A w \in Workers : FinAt(pc[w])
<1>0. Main \in Thread /\ Idle \in Thread /\ Main # Idle /\ Counted \subseteq Thread
  BY SchedulerAssumption DEF Counted
<1>1. pc[Idle] \in {<<"idle">>, <<"block">>, <<"hlt">>}
  BY <1>0 DEF KernelInv, PlaceInv, PlaceOK
<1>2. {Main, Idle} \subseteq Counted
  <2>1. ~FinAt(pc[Main]) /\ ~FinAt(pc[Idle])
    BY <1>1 DEF FinAt
  <2>2. pc[Main] # <<"run">> /\ pc[Idle] # <<"run">>
    BY <1>1
  <2> QED BY <1>0, <2>1, <2>2, CountsMakes DEF Counted
<1>3. Cardinality({Main, Idle}) = 2 /\ IsFiniteSet({Main, Idle})
  <2>1. IsFiniteSet({Idle}) /\ Cardinality({Idle}) = 1 /\ {Main, Idle} = {Idle} \cup {Main}
    BY FS_Singleton
  <2>2. IsFiniteSet({Idle} \cup {Main}) /\ Cardinality({Idle} \cup {Main}) = Cardinality({Idle}) + 1
    BY <1>0, <2>1, FS_AddElement
  <2> QED BY <2>1, <2>2
<1>4. alive_count # 2 => Counted \cap Workers # {}
  <2> SUFFICES ASSUME Counted \cap Workers = {} PROVE alive_count = 2
    OBVIOUS
  <2>1. Counted = {Main, Idle}
    BY <1>0, <1>2 DEF Workers
  <2> QED BY <1>3, <2>1 DEF AliveInv
<1>5. ASSUME alive_count = 2 PROVE Counted = {Main, Idle}
  <2>1. ASSUME NEW w \in Counted, w \notin {Main, Idle} PROVE FALSE
    <3>1. Cardinality({Main, Idle} \cup {w}) = Cardinality({Main, Idle}) + 1
      BY <1>3, <2>1, FS_AddElement
    <3>2. Cardinality({Main, Idle} \cup {w}) <= Cardinality(Counted)
      BY <1>2, <2>1, CountedFinite, FS_Subset
    <3>3. Cardinality(Counted) = 2
      BY <1>5 DEF AliveInv
    <3> DEFINE S == {Main, Idle} \cup {w}
    <3>4. Cardinality(S) = 3 /\ Cardinality(S) <= 2
      BY <1>3, <3>1, <3>2, <3>3
    <3> HIDE DEF S
    <3> QED BY <3>4
  <2> QED BY <1>2, <2>1
<1>6. ASSUME alive_count = 2, NEW w \in Workers, ~FinAt(pc[w]) PROVE FALSE
  <2>1. w \in Thread /\ w \notin Counted
    BY <1>5, <1>6 DEF Workers
  <2>2. PICK u \in Thread : CountsAt(pc[u], w)
    BY <1>6, <2>1 DEF Counted
  <2>3. pc[u] # <<"run">> /\ ~FinAt(pc[u])
    BY <2>2, PlaceIs DEF CountsAt, FinAt, KernelInv, Plain
  <2>4. u \in Counted
    BY <2>3, CountsMakes DEF Counted
  <2>5. u \in {Main, Idle}
    BY <1>5, <1>6, <2>4
  <2> QED BY <1>1, <2>2, <2>5 DEF CountsAt
<1> QED BY <1>2, <1>4, <1>6

LEMMA PowerOffCheckUsers ==
    ASSUME KernelInv, KernelInv', UsersInv, NEW t \in Thread, PowerOffCheck(t) PROVE UsersInv'
<1>1. /\ pc[t] = <<"poweroff_check">> /\ UNCHANGED <<holder, disk, alive_count, items>>
  BY PlaceIs DEF PowerOffCheck, At, Plain, KernelInv, others
<1>0. /\ "sl_empty" \in Conds /\ "alive_cond" \in Conds
      /\ "completion_wait" \in SemaName \ Thread
  BY SchedulerAssumption DEF Conds, SemaName
<1>2. ~TakerAt(t, pc[t]) /\ \A c \in Conds : ~CondAt(t, pc[t], c)
  BY <1>1 DEF TakerAt, CondAt
<1>3. CASE alive_count # 2 /\ t = Main /\ ~ForceOff
  <2> DEFINE p == Release("alive_lock", <<"down", t, Again("alive_cond")>>)
  <2>1. CondWait(t, "alive_cond", "alive_lock", <<"poweroff_check">>)
    BY <1>3 DEF PowerOffCheck
  <2>2. /\ Again("alive_cond") = Acquire("alive_lock", <<"poweroff_check">>)
        /\ Again("alive_cond")[3] = <<"poweroff_check">>
    BY DEF Again, Acquire
  <2>3. /\ CondInv'
        /\ \A u \in Thread : u # t => pc'[u] = pc[u]
        /\ pc'[t] = p
        /\ waiters'["sl_empty"] = waiters["sl_empty"]
        /\ sema'["completion_wait"] = sema["completion_wait"]
    BY <1>0, <1>2, <2>1, <2>2, CondWaitInv DEF UsersInv
  <2>4. AliveAlike(pc[t], p) /\ DiskAlike(pc[t], p)
    BY <1>1, <2>2 DEF AliveAlike, FinAt, CountsAt, HardAt, DiskAlike, HoldsAt, Release, Acquire
  <2>5. AliveInv'
    <3>1. \A u \in Thread : AliveAlike(pc[u], pc'[u])
      BY <2>3, <2>4 DEF AliveAlike
    <3>2. Counted' = Counted
      BY <3>1, CountedStays
    <3>3. Counted \cap Workers # {}
      BY <1>1, <1>3, CountedTwo DEF UsersInv
    <3>4. HardAt(pc'[Main]) <=> HardAt(pc[Main])
      BY <3>1, SchedulerAssumption DEF AliveAlike
    <3>5. \A u \in Workers : FinAt(pc'[u]) <=> FinAt(pc[u])
      BY <3>1 DEF AliveAlike, Workers
    <3> QED BY <1>1, <3>2, <3>3, <3>4, <3>5 DEF UsersInv, AliveInv
  <2>6. DiskInv'
    <3>1. \A u \in Thread : DiskAlike(pc[u], pc'[u])
      BY <2>3, <2>4 DEF DiskAlike
    <3> QED BY <1>1, <2>3, <3>1, DiskStays DEF UsersInv
  <2>7. ItemInv'
    BY <1>1, <1>2, <2>3, ItemStays DEF UsersInv, KernelInv
  <2> QED BY <2>3, <2>5, <2>6, <2>7 DEF UsersInv
<1>4. CASE ~(alive_count # 2 /\ t = Main /\ ~ForceOff)
  <2> DEFINE p == Release("alive_lock", <<"hard_power_off">>)
  <2>1. Goto(t, p) /\ UNCHANGED <<sema, waiters>>
    BY <1>4 DEF PowerOffCheck
  <2>2. pc'[t] = p /\ \A u \in Thread : u # t => pc'[u] = pc[u]
    BY <2>1 DEF Goto, KernelInv, PlaceInv
  <2>3. /\ DiskAlike(pc[t], p) /\ ~FinAt(pc[t]) /\ ~FinAt(p)
        /\ \A b \in Thread : ~CountsAt(pc[t], b) /\ ~CountsAt(p, b)
    BY <1>1 DEF FinAt, CountsAt, DiskAlike, HoldsAt, Release
  <2> HIDE DEF p
  <2>4. CondInv'
    BY <1>2, <2>1, <2>2, CondStays DEF UsersInv, CondInv
  <2>5. AliveInv'
    <3>1. /\ \A u \in Thread : FinAt(pc'[u]) <=> FinAt(pc[u])
          /\ \A u, b \in Thread : CountsAt(pc'[u], b) <=> CountsAt(pc[u], b)
      BY <2>2, <2>3
    <3>2. Counted' = Counted
      BY <3>1 DEF Counted
    <3>3. ASSUME HardAt(pc'[Main]), ~ForceOff PROVE \A w \in Workers : FinAt(pc[w])
      <4>1. CASE t = Main
        BY <1>1, <1>4, <3>3, <4>1, CountedTwo DEF UsersInv
      <4>2. CASE t # Main
        BY <2>2, <3>3, <4>2, SchedulerAssumption DEF UsersInv, AliveInv
      <4> QED BY <4>1, <4>2
    <3>4. \A w \in Workers : FinAt(pc'[w]) <=> FinAt(pc[w])
      BY <3>1 DEF Workers
    <3> QED BY <1>1, <2>1, <3>2, <3>3, <3>4 DEF UsersInv, AliveInv
  <2>6. DiskInv'
    <3>1. \A u \in Thread : DiskAlike(pc[u], pc'[u])
      BY <2>2, <2>3 DEF DiskAlike
    <3> QED BY <1>1, <2>1, <3>1, DiskStays DEF UsersInv
  <2>7. ItemInv'
    BY <1>1, <1>2, <2>1, <2>2, ItemStays DEF UsersInv, KernelInv
  <2> QED BY <2>4, <2>5, <2>6, <2>7 DEF UsersInv
<1> QED BY <1>3, <1>4

-----------------------------------------------------------------------------
(* The theorems.                                                           *)

LEMMA UsersNext == KernelInv /\ KernelInv' /\ UsersInv /\ [Next]_vars => UsersInv'
<1> SUFFICES ASSUME KernelInv, KernelInv', UsersInv, [Next]_vars PROVE UsersInv'
  OBVIOUS
<1>1. CASE Tick \/ DiskInterrupt
  BY <1>1, TickUsers, DiskInterruptUsers
<1>2. ASSUME NEW t \in Thread, EnableInterrupts(t) PROVE UsersInv'
  BY <1>2, OutsideUsers
<1>3. ASSUME NEW t \in Thread, Run(t) PROVE UsersInv'
  <2>1. CASE Down(t) \/ Wait(t) \/ LockRelease(t)
    BY <2>1, DownUsers, ReleaseUsers
  <2>2. CASE t = Idle /\ (IdleStart \/ IdleBlock)
    BY <2>2, IdleUsers
  <2>3. CASE CountUp(t) \/ CountDown(t) \/ PowerOffCheck(t)
    BY <2>3, CountUpUsers, CountDownUsers, PowerOffCheckUsers
  <2>4. CASE SlAppend(t) \/ SlRemove(t) \/ Issue(t) \/ Output(t) \/ Input(t)
    BY <2>4, SlAppendUsers, SlRemoveUsers, DriverUsers
  <2>5. CASE \/ UnblockNew(t) \/ Cleanup(t) \/ Deactivate(t) \/ Destroy(t) \/ Die(t)
             \/ Activate(t) \/ HardPowerOff(t) \/ SleepLoop(t)
    BY <2>5, OutsideUsers
  <2> QED BY <1>3, <2>1, <2>2, <2>3, <2>4, <2>5 DEF Run
<1>4. ASSUME NEW t \in Thread, Program(t) PROVE UsersInv'
  <2>1. ASSUME NEW c \in Thread, Create(t, c) PROVE UsersInv'
    BY <2>1, CreateUsers
  <2>2. CASE Exit(t) \/ Load(t) \/ PowerOff(t) \/ Sleep(t) \/ DiskCall(t)
    BY <2>2, OutsideUsers
  <2>3. CASE SlCall(t)
    BY <2>3, SlCallUsers
  <2> QED BY <1>4, <2>1, <2>2, <2>3 DEF Program
<1>5. CASE UNCHANGED vars
  <2>1. UNCHANGED <<pc, sema, waiters, alive_count, items, disk>>
    BY <1>5 DEF vars, sync, others
  <2>2. \A u \in Thread : Alike(u, pc[u], pc'[u])
    BY <2>1, AlikeSelf
  <2> QED BY <2>1, <2>2, UsersStay
<1> QED BY <1>1, <1>2, <1>3, <1>4, <1>5 DEF Next

LEMMA UsersInit == Init => UsersInv
<1> SUFFICES ASSUME Init PROVE UsersInv
  OBVIOUS
<1>0. Main \in Thread /\ Idle \in Thread /\ Main # Idle /\ Counted \subseteq Thread
  BY SchedulerAssumption DEF Counted
<1>1. /\ pc[Main] = <<"down", "idle_started", <<"run">>>> /\ pc[Idle] = <<"idle">>
      /\ \A t \in Workers : pc[t] = <<"none">>
      /\ waiters = [c \in Conds |-> <<>>] /\ alive_count = 2 /\ items = 0
      /\ device.state = "idle" /\ holder = [l \in Locks |-> Nobody]
      /\ sema = [s \in SemaName |-> sema_init(IF s \in Locks THEN 1 ELSE 0)]
  BY <1>0 DEF Init, Workers
<1>2. CondInv
  <2>1. <<>> \in Seq(Thread)
    OBVIOUS
  <2>2. Once(<<>>) /\ \A t \in Thread : ~In(<<>>, t)
    BY <2>1, QueueEmpty
  <2> QED BY <1>1, <2>2 DEF CondInv
<1>3. AliveInv
  <2>1. /\ ~FinAt(pc[Main]) /\ ~FinAt(pc[Idle]) /\ ~HardAt(pc[Main])
        /\ \A t \in Workers : FinAt(pc[t])
        /\ \A c \in Thread : ~CountsAt(pc[Main], c) /\ ~CountsAt(pc[Idle], c)
        /\ \A t \in Workers, c \in Thread : ~CountsAt(pc[t], c)
    BY <1>1 DEF FinAt, HardAt, CountsAt
  <2>2. Counted = {Main, Idle}
    BY <1>0, <2>1 DEF Counted, Workers
  <2>3. Cardinality({Main, Idle}) = 2
    <3>1. IsFiniteSet({Idle}) /\ Cardinality({Idle}) = 1 /\ {Main, Idle} = {Idle} \cup {Main}
      BY FS_Singleton
    <3>2. Cardinality({Idle} \cup {Main}) = Cardinality({Idle}) + 1
      BY <1>0, <3>1, FS_AddElement
    <3> QED BY <3>1, <3>2
  <2> QED BY <1>1, <2>1, <2>2, <2>3 DEF AliveInv, Conds
<1>4. ItemInv
  BY <1>1 DEF ItemInv, NoItemStranded, Conds
<1>5. DiskInv
  <2>1. "completion_wait" \in SemaName \ Locks
    BY DEF SemaName, Locks
  <2>2. Quiet
    BY <1>1, <2>1 DEF Quiet, sema_init
  <2>3. \A t \in Thread : ~HoldsAt(pc[t], "channel_lock")
    BY <1>1 DEF HoldsAt, Workers
  <2> QED BY <2>2, <2>3 DEF DiskInv
<1> QED BY <1>2, <1>3, <1>4, <1>5 DEF UsersInv

LEMMA UsersAlways == Spec => [](KernelInv /\ UsersInv)
<1>1. Init => KernelInv /\ UsersInv
  BY KernelInit, UsersInit
<1>2. (KernelInv /\ UsersInv) /\ [Next]_vars => (KernelInv /\ UsersInv)'
  BY KernelNext, UsersNext
<1> QED BY <1>1, <1>2, PTL DEF Spec

\* sl_append signals once for each item, and whoever is signalled takes an item or
\* goes back to waiting with none left: no item stays while its taker sleeps.
THEOREM NoItemStrandedHolds == Spec => []NoItemStranded
<1>1. UsersInv => NoItemStranded
  BY DEF UsersInv, ItemInv
<1> QED BY <1>1, UsersAlways, PTL

\* DEBUG_thread_poweroff_check: the initial thread leaves its loop only when every
\* other thread has been counted out, and sleeps only while one of them has not.
THEOREM PowerOffWaitsForAll == Spec => []PowerOffWaits
<1>1. UsersInv => PowerOffWaits
  <2> SUFFICES ASSUME UsersInv, ~ForceOff
               PROVE  /\ pc[Main][1] = "hard_power_off" => \A t \in Workers : Finishing(t)
                      /\ waiters["alive_cond"] # <<>> => \E t \in Workers : ~Finishing(t)
    BY DEF PowerOffWaits
  <2>1. \A t \in Thread : Finishing(t) <=> FinAt(pc[t])
    BY DEF Finishing, FinAt
  <2>2. Workers \subseteq Thread
    BY DEF Workers
  <2>3. pc[Main][1] = "hard_power_off" => HardAt(pc[Main])
    BY DEF HardAt
  <2> QED BY <2>1, <2>2, <2>3 DEF UsersInv, AliveInv, Counted
<1> QED BY <1>1, UsersAlways, PTL

\* disk_read copies the sector, and disk_write returns, after the disk has done what
\* that thread asked for, whatever other threads asked for before and after.
THEOREM DiskServesItsCaller == Spec => []DiskServesCaller
<1>1. KernelInv /\ UsersInv => DiskServesCaller
  <2> SUFFICES ASSUME KernelInv, UsersInv PROVE DiskServesCaller
    OBVIOUS
  <2>1. current \in Thread
    BY DEF KernelInv, CpuInv
  <2>2. pc[current][1] = "input" => device = [state |-> "done", for |-> current]
    BY <2>1 DEF UsersInv, DiskInv, DiskAt, HoldsAt
  <2>3. pc[current] = Release("channel_lock", <<"run">>) => Quiet
    BY <2>1 DEF UsersInv, DiskInv, DiskAt, HoldsAt, Release
  <2> QED BY <2>2, <2>3 DEF DiskServesCaller, Quiet
<1> QED BY <1>1, UsersAlways, PTL
=============================================================================

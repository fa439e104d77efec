----------------------------- MODULE IntqProofs -----------------------------
(***************************************************************************)
(* At most one thread waits for an interrupt queue, for any number of      *)
(* threads and any size of the ring; and with a single thread no assertion *)
(* fails.  Neither argument looks at the ring: Ready is any Boolean.  The  *)
(* third part is about the ring alone: it implements BoundedQueue.  The    *)
(* last is about Console: what is printed comes out whole.                 *)
(***************************************************************************)
EXTENDS Intq, Console, SequenceTheorems, WellFoundedInduction, TLAPS

SyncTypeOK ==
    /\ not_empty \in Reader \cup {NoThread}
    /\ not_full \in Writer \cup {NoThread}
    /\ lock \in SemaOf(Thread)
    /\ pc \in [Thread -> {"idle", "locking", "waiting"}]
    /\ blocked \subseteq {t \in Thread : pc[t] # "idle"}

\* Who is in the queue of the lock: threads blocked there, each once.
QueueOK(waiters, place, asleep) ==
    /\ \A i \in 1..Len(waiters) :
         place[waiters[i]] = "locking" /\ waiters[i] \in asleep
    /\ \A i, j \in 1..Len(waiters) : waiters[i] = waiters[j] => i = j

\* The unit of the lock l is there unless a thread other than those in S waits.
UnitOK(l, S) ==
    l.value = IF \E u \in Thread \ S : pc[u] = "waiting" THEN 0 ELSE 1

WaiterInv ==
    /\ SyncTypeOK
    /\ OneWaiter
    /\ UnitOK(lock, {})
    /\ QueueOK(lock.waiters, pc, blocked)

-----------------------------------------------------------------------------
(* The queue of the lock.                                                  *)

\* A thread that was not blocked joins the queue.
LEMMA QueueAppend ==
    ASSUME NEW w \in Seq(Thread), NEW t \in Thread,
           NEW place \in [Thread -> {"idle", "locking", "waiting"}],
           NEW asleep \in SUBSET Thread, QueueOK(w, place, asleep), t \notin asleep
    PROVE  QueueOK(Append(w, t), [place EXCEPT ![t] = "locking"], asleep \cup {t})
<1> DEFINE v == Append(w, t)
<1>1. /\ Len(v) = Len(w) + 1 /\ v[Len(w) + 1] = t
      /\ \A i \in 1..Len(w) : v[i] = w[i] /\ w[i] \in Thread /\ w[i] # t
  BY DEF QueueOK
<1>2. \A i \in 1..Len(v) : i = Len(w) + 1 \/ i \in 1..Len(w)
  BY <1>1
<1>3. \A i \in 1..Len(v) :
        [place EXCEPT ![t] = "locking"][v[i]] = "locking" /\ v[i] \in asleep \cup {t}
  BY <1>1, <1>2 DEF QueueOK
<1>4. \A i, j \in 1..Len(v) : v[i] = v[j] => i = j
  BY <1>1, <1>2 DEF QueueOK
<1> QED BY <1>3, <1>4 DEF QueueOK

\* The queue stays in order while its threads stay where they are.
LEMMA QueueStays ==
    ASSUME NEW w \in Seq(Thread), NEW p, NEW q, NEW A, NEW B, QueueOK(w, p, A),
           \A u \in Thread : p[u] = "locking" /\ u \in A
                               => q[u] = "locking" /\ u \in B
    PROVE  QueueOK(w, q, B)
BY DEF QueueOK

\* sema_up takes the first one out, and only that one is made ready.
LEMMA QueuePop ==
    ASSUME NEW l \in SemaOf(Thread), NEW p, NEW A, QueueOK(l.waiters, p, A)
    PROVE  /\ QueueOK(SemaUp(l).waiters, p, A \ SemaWoken(l))
           /\ SemaWoken(l) \subseteq Thread
           /\ \A u \in SemaWoken(l) : p[u] = "locking"
<1> DEFINE w == l.waiters
<1>1. w \in Seq(Thread)
  BY DEF SemaOf
<1>2. CASE w = <<>>
  BY <1>2 DEF SemaUp, SemaWoken, QueueOK
<1>3. CASE w # <<>>
  <2>1. /\ SemaUp(l).waiters = Tail(w) /\ SemaWoken(l) = {w[1]}
        /\ Len(Tail(w)) = Len(w) - 1 /\ Len(w) \in Nat /\ Len(w) > 0
        /\ \A i \in 1..Len(Tail(w)) : Tail(w)[i] = w[i + 1]
    BY <1>1, <1>3 DEF SemaUp, SemaWoken
  <2>2. \A i \in 1..Len(Tail(w)) : i + 1 \in 1..Len(w) /\ i + 1 # 1
    BY <2>1
  <2>3. 1 \in 1..Len(w) /\ w[1] \in Thread
    BY <1>1, <2>1
  <2>4. \A i \in 1..Len(Tail(w)) :
          p[Tail(w)[i]] = "locking" /\ Tail(w)[i] \in A \ {w[1]}
    BY <2>1, <2>2, <2>3 DEF QueueOK
  <2>5. \A i, j \in 1..Len(Tail(w)) : Tail(w)[i] = Tail(w)[j] => i = j
    <3> TAKE i, j \in 1..Len(Tail(w))
    <3> HAVE Tail(w)[i] = Tail(w)[j]
    <3>1. w[i + 1] = w[j + 1] /\ i + 1 \in 1..Len(w) /\ j + 1 \in 1..Len(w)
      BY <2>1, <2>2
    <3>2. i + 1 = j + 1
      BY <3>1 DEF QueueOK
    <3> QED BY <3>2
  <2> QED BY <2>1, <2>3, <2>4, <2>5 DEF QueueOK
<1> QED BY <1>2, <1>3

-----------------------------------------------------------------------------
(* The steps of a thread.                                                  *)

\* A signal and the lock's sema_up make ready those they should: who waits for a
\* condition, apart from the one that is signalled, stays asleep.
LEMMA SignalOne ==
    ASSUME SyncTypeOK, OneWaiter, NEW t \in Thread, t \notin blocked,
           NEW woken, \A u \in woken : pc[u] = "locking",
           NEW gone \in {not_empty, not_full}, NEW kept \in {not_empty, not_full},
           gone # kept, kept # NoThread
    PROVE  kept # t /\ kept \in Thread /\ pc[kept] = "waiting"
             /\ kept \in blocked \ (woken \cup Signalled(gone))
BY DEF SyncTypeOK, OneWaiter, Waiting, Signalled, Thread

\* Nobody is found by a signal once nobody else waits.
LEMMA NobodyElse ==
    ASSUME SyncTypeOK, OneWaiter, NEW t \in Thread, t \notin blocked,
           \A u \in Thread \ {t} : pc[u] # "waiting"
    PROVE  not_empty = NoThread /\ not_full = NoThread
BY DEF SyncTypeOK, OneWaiter, Waiting, Thread

\* Taking or giving a byte by t, which has the loop behind it and the lock as l.
LEMMA ThreadTransfers ==
    ASSUME SyncTypeOK, OneWaiter, NEW t \in Thread, t \notin blocked,
           pc[t] # "locking",
           NEW l \in SemaOf(Thread), UnitOK(l, {t}),
           NEW woken, \A u \in woken : pc[u] = "locking",
           QueueOK(l.waiters, pc, blocked \ woken),
           Get(woken) \/ \E b : Put(b, woken),
           lock' = l, pc' = [pc EXCEPT ![t] = "idle"]
    PROVE  WaiterInv'
<1> USE DEF SyncTypeOK
<1>1. PICK gone \in {not_empty, not_full} :
        /\ blocked' = blocked \ (woken \cup Signalled(gone))
        /\ \/ gone = not_full /\ not_full' = NoThread /\ not_empty' = not_empty
           \/ gone = not_empty /\ not_empty' = NoThread /\ not_full' = not_full
  BY DEF Get, Put
<1>2. gone # NoThread => pc[gone] = "waiting"
  BY DEF OneWaiter, Waiting
<1>3. SyncTypeOK'
  BY <1>1
<1>4. \A u \in Thread : u # t => pc'[u] = pc[u]
  OBVIOUS
<1>5. not_empty = not_full => not_empty = NoThread
  BY IntqAssumption
<1>6. \A kept \in {not_empty, not_full} :
        kept # gone /\ kept # NoThread =>
          kept \in Thread /\ pc'[kept] = "waiting" /\ kept \in blocked'
  BY <1>1, <1>4, SignalOne
<1>7. OneWaiter'
  BY <1>1, <1>4, <1>5, <1>6 DEF OneWaiter, Waiting
<1>8. UnitOK(lock, {})'
  BY DEF UnitOK
<1>9. QueueOK(lock.waiters, pc, blocked)'
  <2>1. l.waiters \in Seq(Thread)
    BY DEF SemaOf
  <2>2. \A u \in Thread : pc[u] = "locking" /\ u \in blocked \ woken
                             => pc'[u] = "locking" /\ u \in blocked'
    BY <1>1, <1>2, <1>4 DEF Signalled
  <2> QED BY <2>1, <2>2, QueueStays
<1> QED BY <1>3, <1>7, <1>8, <1>9 DEF WaiterInv

\* t takes the lock l, whose unit is there, and waits.
LEMMA ThreadWaits ==
    ASSUME SyncTypeOK, OneWaiter, NEW t \in Thread, t \notin blocked,
           NEW l \in SemaOf(Thread), UnitOK(l, {t}), l.value > 0,
           NEW woken, \A u \in woken : pc[u] = "locking",
           QueueOK(l.waiters, pc, blocked \ woken),
           lock' = SemaTake(l), Wait(t, woken)
    PROVE  WaiterInv'
<1> USE DEF SyncTypeOK
<1>1. /\ blocked' = (blocked \ woken) \cup {t}
      /\ pc' = [pc EXCEPT ![t] = "waiting"]
      /\ \/ t \in Reader /\ not_empty' = t /\ not_full' = not_full
         \/ t \in Writer /\ not_full' = t /\ not_empty' = not_empty
  BY DEF Wait, Thread
<1>2. \A u \in Thread \ {t} : pc[u] # "waiting" /\ pc'[u] = pc[u]
  BY <1>1 DEF UnitOK
<1>3. not_empty = NoThread /\ not_full = NoThread
  BY <1>2, NobodyElse
<1>4. SemaTake(l) \in SemaOf(Thread) /\ SemaTake(l).value = 0
        /\ SemaTake(l).waiters = l.waiters /\ l.waiters \in Seq(Thread)
  <2>1. l.value = 1
    BY DEF UnitOK
  <2>2. SemaTake(l) \in SemaOf(Thread) /\ SemaTake(l).value = l.value - 1
    BY DEF SemaTake, SemaOf
  <2> QED BY <2>1, <2>2 DEF SemaTake, SemaOf
<1>5. SyncTypeOK'
  BY <1>1, <1>4
<1>6. OneWaiter'
  BY <1>1, <1>2, <1>3 DEF OneWaiter, Waiting
<1>7. UnitOK(lock, {})'
  BY <1>1, <1>4 DEF UnitOK
<1>8. QueueOK(lock.waiters, pc, blocked)'
  <2>1. \A u \in Thread : pc[u] = "locking" /\ u \in blocked \ woken
                             => pc'[u] = "locking" /\ u \in blocked'
    BY <1>1
  <2> QED BY <2>1, <1>4, QueueStays
<1> QED BY <1>5, <1>6, <1>7, <1>8 DEF WaiterInv

\* The lock l has no unit: t joins its queue.
LEMMA ThreadQueues ==
    ASSUME SyncTypeOK, OneWaiter, NEW t \in Thread, t \notin blocked,
           NEW l \in SemaOf(Thread), UnitOK(l, {t}), l.value = 0,
           NEW woken, \A u \in woken : pc[u] = "locking",
           QueueOK(l.waiters, pc, blocked \ woken),
           Queue(t, l, woken)
    PROVE  WaiterInv'
<1> USE DEF SyncTypeOK
<1>1. /\ blocked' = (blocked \ woken) \cup {t}
      /\ pc' = [pc EXCEPT ![t] = "locking"]
      /\ lock' = SemaQueue(l, t)
      /\ not_empty' = not_empty /\ not_full' = not_full
  BY DEF Queue
<1>2. lock' \in SemaOf(Thread) /\ lock'.value = 0
        /\ lock'.waiters = Append(l.waiters, t) /\ l.waiters \in Seq(Thread)
  <2>1. SemaQueue(l, t) \in SemaOf(Thread)
    BY ONLY t \in Thread, l \in SemaOf(Thread) DEF SemaQueue, SemaOf
  <2> QED BY <1>1, <2>1 DEF SemaQueue, SemaOf
<1>3. \A u \in Thread \ {t} : pc'[u] = pc[u]
  BY <1>1
<1>4. SyncTypeOK'
  BY <1>1, <1>2
<1>5. OneWaiter'
  BY <1>1, <1>3 DEF OneWaiter, Waiting, Thread
<1>6. UnitOK(lock, {})'
  <2>1. PICK u \in Thread \ {t} : pc[u] = "waiting"
    BY DEF UnitOK
  <2> QED BY <2>1, <1>2, <1>3 DEF UnitOK
<1>7. QueueOK(lock.waiters, pc, blocked)'
  <2>1. blocked \ woken \in SUBSET Thread /\ t \notin blocked \ woken
    OBVIOUS
  <2>2. QueueOK(Append(l.waiters, t), [pc EXCEPT ![t] = "locking"],
                (blocked \ woken) \cup {t})
    BY <2>1, <1>2, QueueAppend
  <2> QED BY <2>2, <1>1, <1>2
<1> QED BY <1>4, <1>5, <1>6, <1>7 DEF WaiterInv

\* The loop of intq_getc and intq_putc.
LEMMA LoopWaiterInv ==
    ASSUME SyncTypeOK, OneWaiter, NEW t \in Thread, t \notin blocked,
           pc[t] # "locking",
           NEW l \in SemaOf(Thread), UnitOK(l, {t}),
           NEW woken, \A u \in woken : pc[u] = "locking",
           QueueOK(l.waiters, pc, blocked \ woken),
           Loop(t, l, woken)
    PROVE  WaiterInv'
<1>1. CASE /\ Get(woken) \/ Put(byte'[t], woken)
           /\ lock' = l /\ pc' = [pc EXCEPT ![t] = "idle"]
  BY <1>1, ThreadTransfers
<1>2. CASE l.value > 0 /\ lock' = SemaTake(l) /\ Wait(t, woken)
  BY <1>2, ThreadWaits
<1>3. CASE l.value = 0 /\ Queue(t, l, woken)
  BY <1>3, ThreadQueues
<1> QED BY <1>1, <1>2, <1>3 DEF Loop

-----------------------------------------------------------------------------
LEMMA WaiterInit == Init => WaiterInv
<1> SUFFICES ASSUME Init PROVE WaiterInv
  OBVIOUS
<1>1. lock = [value |-> 1, waiters |-> <<>>] /\ \A t \in Thread : pc[t] = "idle"
  BY DEF Init, sema_init
<1>2. SyncTypeOK
  <2>1. lock \in SemaOf(Thread)
    BY DEF Init, sema_init, SemaOf
  <2> QED BY <2>1 DEF Init, SyncTypeOK
<1>3. OneWaiter
  BY <1>1 DEF Init, OneWaiter
<1>4. UnitOK(lock, {}) /\ QueueOK(lock.waiters, pc, blocked)
  BY <1>1 DEF UnitOK, QueueOK
<1> QED BY <1>2, <1>3, <1>4 DEF WaiterInv

LEMMA WaiterNext == WaiterInv /\ [Next]_vars => WaiterInv'
<1> SUFFICES ASSUME WaiterInv, [Next]_vars PROVE WaiterInv'
  OBVIOUS
<1>t. /\ SyncTypeOK /\ OneWaiter
      /\ UnitOK(lock, {}) /\ QueueOK(lock.waiters, pc, blocked)
      /\ lock \in SemaOf(Thread) /\ lock.waiters \in Seq(Thread)
  BY DEF WaiterInv, SyncTypeOK, SemaOf
<1>s. \A t \in Thread : pc[t] # "waiting" => UnitOK(lock, {t})
  BY <1>t DEF UnitOK
<1>1. ASSUME NEW t \in Thread, CallGetc(t) \/ CallPutc(t) PROVE WaiterInv'
  <2>1. PICK woken : woken = {} /\ pc[t] = "idle" /\ Loop(t, lock, woken)
    BY <1>1 DEF CallGetc, CallPutc, At
  <2>2. t \notin blocked /\ UnitOK(lock, {t}) /\ blocked \ woken = blocked
    BY <2>1, <1>t, <1>s DEF SyncTypeOK
  <2> QED BY <2>1, <2>2, <1>t, LoopWaiterInv
<1>2. ASSUME NEW t \in Thread, Locked(t) PROVE WaiterInv'
  <2>1. PICK woken : /\ woken = {} /\ pc[t] = "locking" /\ t \notin blocked
                     /\ \/ lock.value = 0 /\ Queue(t, lock, woken)
                        \/ /\ lock.value > 0
                           /\ lock' = SemaTake(lock) /\ Wait(t, woken)
    BY <1>2 DEF Locked, At
  <2>2. UnitOK(lock, {t}) /\ blocked \ woken = blocked
    BY <2>1, <1>s
  <2> QED BY <2>1, <2>2, <1>t, ThreadQueues, ThreadWaits
<1>3. ASSUME NEW t \in Thread, Woken(t) PROVE WaiterInv'
  <2>1. /\ pc[t] = "waiting" /\ t \notin blocked
        /\ Loop(t, SemaUp(lock), SemaWoken(lock))
    BY <1>3 DEF Woken, At
  <2>2. SemaUp(lock) \in SemaOf(Thread) /\ SemaUp(lock).value = 1
    <3>1. lock.value = 0
      BY <2>1, <1>t DEF UnitOK
    <3> QED BY <3>1, <1>t DEF SemaUp, SemaOf
  <2>3. UnitOK(SemaUp(lock), {t})
    BY <2>1, <2>2, <1>t DEF UnitOK, OneWaiter
  <2>4. /\ QueueOK(SemaUp(lock).waiters, pc, blocked \ SemaWoken(lock))
        /\ \A u \in SemaWoken(lock) : pc[u] = "locking"
    BY <1>t, QueuePop
  <2> QED BY <2>1, <2>2, <2>3, <2>4, <1>t, LoopWaiterInv
<1>4. ASSUME Device PROVE WaiterInv'
  <2>1. PICK gone \in {not_empty, not_full} :
          /\ blocked' = blocked \ Signalled(gone)
          /\ \/ gone = not_full /\ not_full' = NoThread /\ not_empty' = not_empty
             \/ gone = not_empty /\ not_empty' = NoThread /\ not_full' = not_full
    BY <1>4 DEF Device, DevicePut, DeviceGet, Get, Put
  <2>2. lock' = lock /\ pc' = pc
    BY <1>4 DEF Device, DevicePut, DeviceGet
  <2>3. gone # NoThread => pc[gone] = "waiting"
    BY <2>1, <1>t DEF OneWaiter, Waiting
  <2>4. SyncTypeOK'
    BY <2>1, <2>2, <1>t DEF SyncTypeOK
  <2>5. OneWaiter'
    BY <2>1, <2>2, <1>t, IntqAssumption DEF OneWaiter, Waiting, SyncTypeOK, Signalled
  <2>6. UnitOK(lock, {})'
    BY <2>2, <1>t DEF UnitOK
  <2>7. QueueOK(lock.waiters, pc, blocked)'
    <3>1. \A u \in Thread : pc[u] = "locking" /\ u \in blocked
                               => pc'[u] = "locking" /\ u \in blocked'
      BY <2>1, <2>2, <2>3 DEF Signalled
    <3> QED BY <3>1, <2>2, <1>t, QueueStays
  <2> QED BY <2>4, <2>5, <2>6, <2>7 DEF WaiterInv
<1>5. CASE UNCHANGED vars
  BY <1>5, <1>t DEF vars, ringVars, WaiterInv, SyncTypeOK, OneWaiter, Waiting,
                    UnitOK, QueueOK
<1> QED BY <1>1, <1>2, <1>3, <1>4, <1>5 DEF Next, Call, Step

\* Whatever the order of calls and interrupts, at most one thread waits for the
\* queue, and not_empty and not_full name no other: signal (intq.c) unblocks a
\* thread that is blocked there, as thread_unblock asserts.
THEOREM OneWaiterHolds == Spec => []OneWaiter
<1>1. Init => WaiterInv
  BY WaiterInit
<1>2. WaiterInv /\ [Next]_vars => WaiterInv'
  BY WaiterNext
<1>3. WaiterInv => OneWaiter
  BY DEF WaiterInv
<1> QED BY <1>1, <1>2, <1>3, PTL DEF Spec

-----------------------------------------------------------------------------
\* A single thread finds the lock free, and is asleep only while there is
\* something to wait for and the next signal is for it.
SingleInv ==
    /\ ~panicked
    /\ \A t \in Thread :
         /\ pc[t] # "locking"
         /\ t \in blocked =>
              ~Ready(t) /\ t = IF t \in Reader THEN not_empty ELSE not_full

\* The loop of the only thread, which has the unit of the lock l.
LEMMA SingleLoop ==
    ASSUME SyncTypeOK, SingleInv, NEW t \in Thread, \A u \in Thread : u = t,
           NEW l, l.value = 1, Loop(t, l, {}), t \notin blocked
    PROVE  SingleInv'
<1>1. CASE /\ Get({}) \/ Put(byte'[t], {})
           /\ pc' = [pc EXCEPT ![t] = "idle"] /\ UNCHANGED panicked
  <2>1. t \notin blocked'
    BY <1>1 DEF Get, Put
  <2>2. pc'[t] = "idle" /\ ~panicked'
    BY <1>1 DEF SingleInv, SyncTypeOK
  <2> QED BY <2>1, <2>2 DEF SingleInv
<1>2. CASE ~Ready(t) /\ Wait(t, {})
  <2>1. pc'[t] = "waiting" /\ ~panicked'
    BY <1>2 DEF Wait, SyncTypeOK
  <2>2. ~Ready(t)' /\ t = IF t \in Reader THEN not_empty' ELSE not_full'
    BY <1>2 DEF Wait, Ready, intq_empty, intq_full, next, ringVars
  <2> QED BY <2>1, <2>2 DEF SingleInv
<1> QED BY <1>1, <1>2 DEF Loop

LEMMA SingleNext ==
    ASSUME WaiterInv, SingleInv, \A t, u \in Thread : t = u, [Next]_vars
    PROVE  SingleInv'
<1>t. SyncTypeOK /\ OneWaiter /\ UnitOK(lock, {}) /\ lock \in SemaOf(Thread)
  BY DEF WaiterInv, SyncTypeOK
<1>1. ASSUME NEW t \in Thread, CallGetc(t) \/ CallPutc(t) PROVE SingleInv'
  <2>1. pc[t] = "idle" /\ Loop(t, lock, {})
    BY <1>1 DEF CallGetc, CallPutc, At
  <2>2. t \notin blocked /\ lock.value = 1
    BY <2>1, <1>t DEF SyncTypeOK, UnitOK
  <2> QED BY <2>1, <2>2, <1>t, SingleLoop
<1>2. ASSUME NEW t \in Thread, Locked(t) PROVE FALSE
  BY <1>2 DEF Locked, At, SingleInv
<1>3. ASSUME NEW t \in Thread, Woken(t) PROVE SingleInv'
  <2>1. /\ pc[t] = "waiting" /\ t \notin blocked
        /\ Loop(t, SemaUp(lock), SemaWoken(lock))
    BY <1>3 DEF Woken, At
  <2>2. SemaUp(lock).value = 1
    <3>1. lock.value = 0
      BY <2>1, <1>t DEF UnitOK
    <3> QED BY <3>1, <1>t DEF SemaUp, SemaOf
  <2>3. SemaWoken(lock) = {}
    <3>1. \A u \in SemaWoken(lock) : u \in Thread /\ pc[u] = "locking"
      BY <1>t, QueuePop DEF WaiterInv
    <3> QED BY <3>1 DEF SingleInv
  <2> QED BY <2>1, <2>2, <2>3, <1>t, SingleLoop
<1>4. ASSUME Device PROVE SingleInv'
  <2>1. UNCHANGED <<pc, panicked>> /\ blocked' \subseteq blocked
    BY <1>4 DEF Device, DevicePut, DeviceGet, Get, Put
  <2>2. ASSUME NEW t \in Thread, t \in blocked PROVE t \notin blocked'
    <3>1. CASE t \in Reader
      <4>1. ~DeviceGet /\ not_empty = t
        BY <2>2, <3>1 DEF SingleInv, Ready, DeviceGet
      <4> QED BY <4>1, <1>4, <2>2, IntqAssumption
              DEF Device, DevicePut, Put, Signalled, Thread
    <3>2. CASE t \notin Reader
      <4>1. ~DevicePut /\ not_full = t
        BY <2>2, <3>2 DEF SingleInv, Ready, DevicePut
      <4> QED BY <4>1, <1>4, <2>2, IntqAssumption
              DEF Device, DeviceGet, Get, Signalled, Thread
    <3> QED BY <3>1, <3>2
  <2> QED BY <2>1, <2>2 DEF SingleInv
<1>5. CASE UNCHANGED vars
  BY <1>5 DEF vars, ringVars, SingleInv, Ready, intq_empty, intq_full, next
<1> QED BY <1>1, <1>2, <1>3, <1>4, <1>5 DEF Next, Call, Step

\* When the queue has a single thread, a reader or a writer, the assertion of wait
\* (intq.c) never fails, whatever the device does.
THEOREM SingleThreadSafe ==
    ASSUME \A t, u \in Thread : t = u
    PROVE  Spec => []NoPanic
<1>1. Init => WaiterInv /\ SingleInv
  BY WaiterInit DEF Init, SingleInv
<1>2. WaiterInv /\ SingleInv /\ [Next]_vars => (WaiterInv /\ SingleInv)'
  BY WaiterNext, SingleNext
<1>3. SingleInv => NoPanic
  BY DEF SingleInv, NoPanic
<1> QED BY <1>1, <1>2, <1>3, PTL DEF Spec

-----------------------------------------------------------------------------
(* The ring                                                                *)

\* The ring is within its bounds, and the byte of a writer that waits is one
\* it was called with.
Cell == Byte \cup {NoByte}

RingInv ==
    /\ buf \in [Position -> Cell]
    /\ head \in Position /\ tail \in Position
    /\ pc \in [Thread -> {"idle", "locking", "waiting"}]
    /\ byte \in [Writer -> Cell]
    /\ \A w \in Writer : pc[w] # "idle" => byte[w] \in Byte

-----------------------------------------------------------------------------
\* How many bytes the ring holds, and where the i-th of them is.
Held == (head - tail) % INTQ_BUFSIZE
Slot(i) == (tail + i - 1) % INTQ_BUFSIZE

LEMMA NextIs ==
    ASSUME NEW p \in Position
    PROVE  next(p) = (IF p = INTQ_BUFSIZE - 1 THEN 0 ELSE p + 1) /\ next(p) \in Position
<1>1. INTQ_BUFSIZE \in Nat \ {0} /\ p \in Nat /\ p < INTQ_BUFSIZE
  BY IntqAssumption DEF Position
<1>2. /\ p + 1 < INTQ_BUFSIZE => (p + 1) % INTQ_BUFSIZE = p + 1
      /\ p + 1 = INTQ_BUFSIZE => (p + 1) % INTQ_BUFSIZE = 0
  BY <1>1
<1>3. next(p) = IF p = INTQ_BUFSIZE - 1 THEN 0 ELSE p + 1
  BY <1>1, <1>2 DEF next
<1> QED BY <1>1, <1>3 DEF Position

LEMMA HeldIs ==
    RingInv =>
      /\ Held = IF tail <= head THEN head - tail ELSE head - tail + INTQ_BUFSIZE
      /\ Held \in Nat /\ Held < INTQ_BUFSIZE
<1> HAVE RingInv
<1>1. /\ INTQ_BUFSIZE \in Nat \ {0} /\ head \in Nat /\ tail \in Nat
      /\ head < INTQ_BUFSIZE /\ tail < INTQ_BUFSIZE
  BY IntqAssumption DEF RingInv, Position
<1>2. head - tail \in Int /\ -INTQ_BUFSIZE <= head - tail /\ head - tail < INTQ_BUFSIZE
  BY <1>1
<1>3. Held = IF tail <= head THEN head - tail ELSE head - tail + INTQ_BUFSIZE
  BY <1>1, <1>2 DEF Held
<1> QED BY <1>1, <1>3

LEMMA SlotIs ==
    ASSUME RingInv, NEW i \in 1..INTQ_BUFSIZE
    PROVE  /\ Slot(i) = IF tail + i - 1 < INTQ_BUFSIZE
                        THEN tail + i - 1 ELSE tail + i - 1 - INTQ_BUFSIZE
           /\ Slot(i) \in Position
<1>1. /\ INTQ_BUFSIZE \in Nat \ {0} /\ tail \in Nat /\ tail < INTQ_BUFSIZE
      /\ i \in Nat /\ 1 <= i /\ i <= INTQ_BUFSIZE
  BY IntqAssumption DEF RingInv, Position
<1>2. /\ tail + i - 1 \in Int /\ 0 <= tail + i - 1
      /\ tail + i - 1 < 2 * INTQ_BUFSIZE
  BY <1>1
<1>3. Slot(i) = IF tail + i - 1 < INTQ_BUFSIZE
                THEN tail + i - 1 ELSE tail + i - 1 - INTQ_BUFSIZE
  BY <1>1, <1>2 DEF Slot
<1> QED BY <1>1, <1>2, <1>3 DEF Position

\* The bytes are a sequence, one shorter at most than the ring.
LEMMA ItemsAre ==
    RingInv =>
      /\ Items = [i \in 1..Held |-> buf[Slot(i)]]
      /\ Items \in Seq(Cell) /\ Len(Items) = Held
<1> HAVE RingInv
<1>1. Items = [i \in 1..Held |-> buf[Slot(i)]]
  BY DEF Items, Held, Slot
<1>2. Held \in Nat /\ Held < INTQ_BUFSIZE /\ INTQ_BUFSIZE \in Nat
  BY HeldIs, IntqAssumption
<1>3. Items \in [1..Held -> Cell]
  <2>1. \A i \in 1..Held : buf[Slot(i)] \in Cell
    <3> TAKE i \in 1..Held
    <3>1. i \in 1..INTQ_BUFSIZE
      BY <1>2
    <3> QED BY <3>1, SlotIs DEF RingInv
  <2> QED BY <1>1, <2>1
<1>4. Items \in Seq(Cell)
  BY <1>2, <1>3, SeqDef
<1> QED BY <1>1, <1>2, <1>3, <1>4, LenProperties

\* The same of the next state.
LEMMA HeldNext ==
    RingInv' =>
      (/\ Held = IF tail <= head THEN head - tail ELSE head - tail + INTQ_BUFSIZE
       /\ Held \in Nat /\ Held < INTQ_BUFSIZE)'
BY HeldIs, PTL

LEMMA ItemsNext ==
    RingInv' =>
      (/\ Items = [i \in 1..Held |-> buf[Slot(i)]]
       /\ Items \in Seq(Cell) /\ Len(Items) = Held)'
BY ItemsAre, PTL

\* A byte that is put is behind all others and overwrites none.
LEMMA PutEnqueues ==
    ASSUME RingInv, RingInv', NEW b \in Byte, NEW woken, Put(b, woken), ~intq_full
    PROVE  Fifo!Enqueue
<1> DEFINE n == INTQ_BUFSIZE
           h == Held
<1>1. /\ n \in Nat \ {0} /\ head \in Nat /\ tail \in Nat /\ head < n /\ tail < n
  BY IntqAssumption DEF RingInv, Position
<1>2. /\ next(head) = (IF head = n - 1 THEN 0 ELSE head + 1)
      /\ next(head) # tail
  BY NextIs DEF RingInv, intq_full
<1>3. /\ h = IF tail <= head THEN head - tail ELSE head - tail + n
      /\ h \in Nat
  BY HeldIs
<1>4. /\ buf' = [buf EXCEPT ![head] = b] /\ head' = next(head) /\ tail' = tail
  BY DEF Put
<1>5. h + 1 < n
  BY <1>1, <1>2, <1>3
<1>6. Held' = h + 1
  <2>1. Held' = IF tail <= next(head) THEN next(head) - tail
                ELSE next(head) - tail + n
    BY HeldNext, <1>4
  <2> HIDE DEF h
  <2> QED BY <1>1, <1>2, <1>3, <2>1
<1>7. /\ Items' = [i \in 1..h + 1 |-> buf'[Slot(i)]]
      /\ Items' \in Seq(Cell) /\ Len(Items') = h + 1
  BY ItemsNext, <1>4, <1>6 DEF Slot
<1>8. Items = [i \in 1..h |-> buf[Slot(i)]] /\ Items \in Seq(Cell) /\ Len(Items) = h
  BY ItemsAre
<1>9. \A i \in 1..h : Items'[i] = Items[i]
  <2> TAKE i \in 1..h
  <2>1. i \in 1..n /\ i \in Int /\ i <= h /\ i >= 1
    BY <1>1, <1>3, <1>5
  <2>2. Slot(i) = (IF tail + i - 1 < n THEN tail + i - 1 ELSE tail + i - 1 - n)
        /\ Slot(i) \in Position
    BY <2>1, SlotIs
  <2>3. Slot(i) # head
    <3> HIDE DEF h
    <3> QED BY <1>1, <1>3, <1>5, <2>1, <2>2
  <2>4. buf'[Slot(i)] = buf[Slot(i)]
    BY <1>4, <2>2, <2>3 DEF RingInv
  <2>5. i \in 1..h + 1
    BY <2>1, <1>3
  <2> HIDE DEF h
  <2> QED BY <1>7, <1>8, <2>4, <2>5
<1>10. Items'[h + 1] = b
  <2>1. h + 1 \in 1..n
    BY <1>1, <1>3, <1>5
  <2>2. Slot(h + 1) = IF tail + (h + 1) - 1 < n THEN tail + (h + 1) - 1
                      ELSE tail + (h + 1) - 1 - n
    BY <2>1, SlotIs
  <2> HIDE DEF h
  <2>3. Slot(h + 1) = head
    BY <1>1, <1>3, <2>2
  <2>4. buf'[head] = b
    BY <1>4 DEF RingInv
  <2>5. h + 1 \in 1..h + 1
    BY <1>3
  <2> QED BY <1>7, <2>3, <2>4, <2>5
<1>11. Items' = Append(Items, b)
  <2> HIDE DEF h
  <2>1. /\ Append(Items, b) \in Seq(Cell) /\ Len(Append(Items, b)) = h + 1
        /\ \A i \in 1..h : Append(Items, b)[i] = Items[i]
        /\ Append(Items, b)[h + 1] = b
    <3>1. b \in Cell
      BY DEF Cell
    <3> QED BY <1>3, <1>8, <3>1, AppendProperties
  <2>2. \A i \in 1..h + 1 : Items'[i] = Append(Items, b)[i]
    <3> TAKE i \in 1..h + 1
    <3>1. i \in 1..h \/ i = h + 1
      BY <1>3
    <3> QED BY <3>1, <2>1, <1>9, <1>10
  <2> QED BY <1>7, <2>1, <2>2, SeqEqual
<1>12. Len(Items) < n - 1
  BY <1>1, <1>3, <1>5, <1>8
<1> QED BY <1>11, <1>12 DEF Fifo!Enqueue

\* A byte that is got was the first.
LEMMA GetDequeues ==
    ASSUME RingInv, RingInv', NEW woken, Get(woken), ~intq_empty
    PROVE  Fifo!Dequeue
<1> DEFINE n == INTQ_BUFSIZE
           h == Held
<1>1. /\ n \in Nat \ {0} /\ head \in Nat /\ tail \in Nat /\ head < n /\ tail < n
      /\ head # tail
  BY IntqAssumption DEF RingInv, Position, intq_empty
<1>2. next(tail) = IF tail = n - 1 THEN 0 ELSE tail + 1
  BY NextIs DEF RingInv
<1>3. /\ h = IF tail <= head THEN head - tail ELSE head - tail + n
      /\ h \in Nat /\ h < n
  BY HeldIs
<1>4. buf' = buf /\ head' = head /\ tail' = next(tail)
  BY DEF Get
<1>5. h > 0
  BY <1>1, <1>3
<1>6. Held' = h - 1
  <2>1. Held' = IF next(tail) <= head THEN head - next(tail)
                ELSE head - next(tail) + n
    BY HeldNext, <1>4
  <2> HIDE DEF h
  <2> QED BY <1>1, <1>2, <1>3, <2>1
<1>7. /\ Items' = [i \in 1..h - 1 |-> buf[Slot(i)']]
      /\ Items' \in Seq(Cell) /\ Len(Items') = h - 1
  BY ItemsNext, <1>4, <1>6
<1>8. Items = [i \in 1..h |-> buf[Slot(i)]] /\ Items \in Seq(Cell) /\ Len(Items) = h
  BY ItemsAre
<1>9. \A i \in 1..h - 1 : Items'[i] = Items[i + 1]
  <2> TAKE i \in 1..h - 1
  <2>1. i \in Int /\ 1 <= i /\ i + 1 <= h /\ i + 1 \in 1..h /\ i + 1 \in 1..n /\ i \in 1..n
    BY <1>1, <1>3
  <2>2. Slot(i + 1) = IF tail + (i + 1) - 1 < n THEN tail + (i + 1) - 1
                      ELSE tail + (i + 1) - 1 - n
    BY <2>1, SlotIs
  <2>3. Slot(i)' = (next(tail) + i - 1) % n
    BY <1>4 DEF Slot
  <2>4. /\ next(tail) + i - 1 < n => (next(tail) + i - 1) % n = next(tail) + i - 1
        /\ n <= next(tail) + i - 1 => (next(tail) + i - 1) % n = next(tail) + i - 1 - n
    <3>1. /\ next(tail) \in Int /\ 0 <= next(tail) + i - 1
          /\ next(tail) + i - 1 < 2 * n
      BY <1>1, <1>2, <2>1
    <3> QED BY <1>1, <2>1, <3>1
  <2> HIDE DEF h
  <2>5. Slot(i)' = Slot(i + 1)
    BY <1>1, <1>2, <2>1, <2>2, <2>3, <2>4
  <2> QED BY <1>7, <1>8, <2>1, <2>5
<1>10. Items # <<>>
  <2> HIDE DEF h
  <2>1. Len(Items) # 0
    BY <1>3, <1>5, <1>8
  <2> QED BY <2>1
<1>11. /\ Tail(Items) \in Seq(Cell) /\ Len(Tail(Items)) = h - 1
       /\ \A i \in 1..h - 1 : Tail(Items)[i] = Items[i + 1]
  <2> HIDE DEF h
  <2> QED BY <1>3, <1>8, <1>10, HeadTailProperties
<1>12. Items' = Tail(Items)
  <2> HIDE DEF h
  <2> QED BY <1>7, <1>9, <1>11, SeqEqual
<1> QED BY <1>10, <1>12 DEF Fifo!Dequeue

-----------------------------------------------------------------------------
LEMMA RingInit == Init => RingInv
<1> SUFFICES ASSUME Init PROVE RingInv
  OBVIOUS
<1>1. 0 \in Position /\ NoByte \in Cell
  BY IntqAssumption DEF Position, Cell
<1>2. buf \in [Position -> Cell] /\ head \in Position /\ tail \in Position
  BY <1>1 DEF Init
<1>3. byte \in [Writer -> Cell] /\ pc \in [Thread -> {"idle", "locking", "waiting"}]
  BY <1>1 DEF Init
<1>4. \A w \in Writer : pc[w] = "idle"
  BY DEF Init, Thread
<1> QED BY <1>2, <1>3, <1>4 DEF RingInv

LEMMA RingStays ==
    ASSUME RingInv, UNCHANGED ringVars,
           pc' \in [Thread -> {"idle", "locking", "waiting"}],
           byte' \in [Writer -> Cell],
           \A w \in Writer : pc'[w] # "idle" => byte'[w] \in Byte
    PROVE  RingInv' /\ Items' = Items
BY DEF RingInv, ringVars, Items

LEMMA RingMoves ==
    ASSUME RingInv, NEW woken, Get(woken) \/ \E b \in Byte : Put(b, woken),
           pc' \in [Thread -> {"idle", "locking", "waiting"}],
           byte' \in [Writer -> Cell],
           \A w \in Writer : pc'[w] # "idle" => byte'[w] \in Byte
    PROVE  RingInv'
<1>1. next(head) \in Position /\ next(tail) \in Position
  BY NextIs DEF RingInv
<1> QED BY <1>1 DEF RingInv, Get, Put, Cell

\* What a step of the queue does to the bytes.
Moves == Fifo!Enqueue \/ Fifo!Dequeue \/ Items' = Items

LEMMA LoopMoves ==
    ASSUME RingInv, NEW t \in Thread, NEW l, NEW woken, Loop(t, l, woken),
           byte' \in [Writer -> Cell],
           \A w \in Writer : (pc[w] # "idle" \/ w = t) => byte'[w] \in Byte
    PROVE  RingInv' /\ Moves
<1>1. PICK place \in {"idle", "locking", "waiting"} : pc' = [pc EXCEPT ![t] = place]
  BY DEF Loop, Wait, Queue
<1>2. /\ pc' \in [Thread -> {"idle", "locking", "waiting"}]
      /\ \A w \in Writer : pc'[w] # "idle" => byte'[w] \in Byte
  BY <1>1 DEF RingInv, Thread
<1>3. CASE t \in Reader /\ ~intq_empty /\ Get(woken)
  BY <1>2, <1>3, RingMoves, GetDequeues DEF Moves
<1>4. CASE t \in Writer /\ ~intq_full /\ Put(byte'[t], woken)
  BY <1>2, <1>4, RingMoves, PutEnqueues DEF Moves
<1>5. CASE UNCHANGED ringVars
  BY <1>2, <1>5, RingStays DEF Moves
<1> QED BY <1>3, <1>4, <1>5 DEF Loop, Ready, Wait, Queue, Thread

LEMMA RingNext == RingInv /\ [Next]_vars => RingInv' /\ Moves
<1> SUFFICES ASSUME RingInv, [Next]_vars PROVE RingInv' /\ Moves
  OBVIOUS
<1>b. byte \in [Writer -> Cell] /\ pc \in [Thread -> {"idle", "locking", "waiting"}]
  BY DEF RingInv
<1>1. ASSUME NEW t \in Thread, CallGetc(t) PROVE RingInv' /\ Moves
  <2>1. t \in Reader /\ byte' = byte /\ Loop(t, lock, {})
    BY <1>1 DEF CallGetc
  <2> QED BY <2>1, LoopMoves, IntqAssumption DEF RingInv
<1>2. ASSUME NEW t \in Thread, CallPutc(t) PROVE RingInv' /\ Moves
  <2>1. Loop(t, lock, {}) /\ t \in Writer
    BY <1>2 DEF CallPutc
  <2>2. PICK b \in Byte : byte' = [byte EXCEPT ![t] = b]
    BY <1>2 DEF CallPutc
  <2>3. /\ byte' \in [Writer -> Cell]
        /\ \A w \in Writer : (pc[w] # "idle" \/ w = t) => byte'[w] \in Byte
    BY <2>1, <2>2 DEF RingInv, Cell
  <2> QED BY <2>1, <2>3, LoopMoves
<1>3. ASSUME NEW t \in Thread, Locked(t) PROVE RingInv' /\ Moves
  <2>1. /\ pc[t] = "locking" /\ byte' = byte /\ UNCHANGED ringVars
        /\ pc' = [pc EXCEPT ![t] = "locking"] \/ pc' = [pc EXCEPT ![t] = "waiting"]
    BY <1>3 DEF Locked, At, Queue, Wait
  <2>2. /\ pc' \in [Thread -> {"idle", "locking", "waiting"}]
        /\ \A w \in Writer : pc'[w] # "idle" => byte'[w] \in Byte
    BY <2>1 DEF RingInv, Thread
  <2> QED BY <2>1, <2>2, <1>b, RingStays DEF Moves
<1>4. ASSUME NEW t \in Thread, Woken(t) PROVE RingInv' /\ Moves
  <2>1. /\ pc[t] = "waiting" /\ byte' = byte
        /\ Loop(t, SemaUp(lock), SemaWoken(lock))
    BY <1>4 DEF Woken, At
  <2> QED BY <2>1, <1>b, LoopMoves DEF RingInv
<1>5. ASSUME Device PROVE RingInv' /\ Moves
  <2>1. /\ byte' = byte /\ pc' = pc
        /\ \/ ~intq_empty /\ Get({})
           \/ ~intq_full /\ \E b \in Byte : Put(b, {})
    BY <1>5 DEF Device, DevicePut, DeviceGet
  <2>2. RingInv'
    <3>1. \A w \in Writer : pc'[w] # "idle" => byte'[w] \in Byte
      BY <2>1 DEF RingInv
    <3> QED BY <2>1, <3>1, <1>b, RingMoves
  <2> QED BY <2>1, <2>2, GetDequeues, PutEnqueues DEF Moves
<1>6. CASE UNCHANGED vars
  BY <1>6, <1>b, RingStays DEF vars, Moves, RingInv
<1> QED BY <1>1, <1>2, <1>3, <1>4, <1>5, <1>6 DEF Next, Call, Step

\* The ring is a queue of at most INTQ_BUFSIZE - 1 bytes: whatever the order of
\* calls and interrupts, bytes leave it in the order in which they came, each
\* once, and none is overwritten, for any size of the ring.
THEOREM RingIsAQueue == Spec => ImplementsQueue
<1>1. Init => Fifo!QueueInit
  <2> SUFFICES ASSUME Init PROVE Items = <<>>
    BY DEF Fifo!QueueInit
  <2>1. RingInv
    BY RingInit
  <2>2. Held = 0
    BY <2>1, HeldIs DEF Init
  <2> QED BY <2>1, <2>2, ItemsAre
<1>2. RingInv /\ [Next]_vars => [Fifo!Enqueue \/ Fifo!Dequeue]_Items
  BY RingNext DEF Moves
<1>3. RingInv /\ [Next]_vars => RingInv'
  BY RingNext
<1>4. Spec => Fifo!QueueSpec
  BY <1>1, <1>2, <1>3, RingInit, PTL DEF Spec, Fifo!QueueSpec
<1> QED BY <1>4 DEF ImplementsQueue

-----------------------------------------------------------------------------
(* The console: what is printed.                                           *)

Who  == Printer \cup {Nobody}
Char == Who \X Nat \X Nat
Frame == [text : Seq(Char), sent : BOOLEAN]

\* Characters of one text; those of all texts begun so far.
OneText(a, b) == a[1] = b[1] /\ a[2] = b[2]
Begun(tx) == {c \in Char : c[2] \in 1..tx[c[1]] /\ c[3] \in 1..(IF c[1] = Nobody THEN 1 ELSE TextLength)}
Shows(out, c) == \E i \in DOMAIN out : out[i] = c

\* What has been printed when the characters of pend are still to come.
InOrder(out) ==
    \A i, k \in DOMAIN out : i < k /\ OneText(out[i], out[k]) =>
        /\ out[i][3] < out[k][3]
        /\ \A j \in i..k : out[j][1] \in {out[i][1], Nobody}
Said(out, pend, tx) ==
    /\ out \in Seq(Char) /\ InOrder(out)
    /\ \A c \in Char : Shows(out, c) <=> c \in Begun(tx) /\ c \notin pend

\* The next character of a text still finds it open.
Open(out, pend) ==
    \A c \in pend : \A i \in DOMAIN out : OneText(out[i], c) =>
        /\ out[i][3] < c[3]
        /\ \A j \in i..Len(out) : out[j][1] \in {c[1], Nobody}

\* What is still to come of the prints s a thread is in, and of all, on the screen and on
\* the port.
ToScreen(s) == {c \in Char : \E j \in DOMAIN s : \E i \in DOMAIN s[j].text : c = s[j].text[i]}
ToPort(s)   == {c \in Char : \E j \in DOMAIN s : \E i \in DOMAIN s[j].text : c = s[j].text[i] /\ ~(i = 1 /\ s[j].sent)}
ForScreen(st) == UNION {ToScreen(st[t]) : t \in Printer}
ForPort(st)   == UNION {ToPort(st[t]) : t \in Printer}

\* The prints a thread is in.
FramesOK(t, s, n) ==
    /\ \A j \in DOMAIN s : s[j].sent => s[j].text # <<>>
    /\ \A j \in DOMAIN s : \A i \in DOMAIN s[j].text :
          s[j].text[i][1] = t /\ s[j].text[i][2] \in 1..n /\ s[j].text[i][3] \in 1..TextLength
    /\ \A j \in DOMAIN s : \A i, k \in DOMAIN s[j].text :
          s[j].text[i][2] = s[j].text[k][2] /\ (i < k => s[j].text[i][3] < s[j].text[k][3])
    /\ \A j, m \in DOMAIN s : \A i \in DOMAIN s[j].text, k \in DOMAIN s[m].text :
          s[j].text[i][2] = s[m].text[k][2] => j = m

ConsoleTypeOK ==
    /\ boot \in {"early", "alone", "running"} /\ panicking \in BOOLEAN
    /\ leaving \subseteq Printer /\ halted \in Who /\ console_lock \in Who
    /\ serial \in [mode : {"UNINIT", "POLL", "QUEUE"}, txq : Seq(Char), sent : Seq(Char), xmit : BOOLEAN]
    /\ stack \in [Printer -> Seq(Frame)] /\ texts \in [Who -> Nat]

PrintsInv ==
    /\ \A t \in Printer : FramesOK(t, stack[t], texts[t])
    /\ Said(given, ForPort(stack), texts) /\ Said(shown, ForScreen(stack), texts)
    /\ On => Open(given, ForPort(stack)) /\ Open(shown, ForScreen(stack))

\* Who prints has the lock, as soon as there is one.
ConsoleLockInv ==
    /\ boot = "early" => /\ console_lock = Nobody /\ console_lock_depth = 0
                         /\ \A t \in Printer \ {Main} : stack[t] = <<>>
    /\ boot # "early" =>
          /\ \A t \in Printer : stack[t] # <<>> <=> console_lock = t
          /\ console_lock_depth = IF console_lock = Nobody THEN 0 ELSE Len(stack[console_lock]) - 1

PortInv ==
    /\ serial.sent \o serial.txq = given
    /\ serial.mode # "QUEUE" => serial.txq = <<>>
    /\ serial.mode = "QUEUE" => boot = "running"
    /\ On /\ serial.txq # <<>> => serial.xmit
    /\ \A t \in leaving : stack[t] = <<>> /\ \A i \in DOMAIN serial.txq : serial.txq[i][1] # t
    /\ halted # Nobody => \A i \in DOMAIN serial.txq : serial.txq[i][1] # halted
    /\ panicking => halted # Nobody

ConsoleInv == ConsoleTypeOK /\ PrintsInv /\ PortInv /\ (On => ConsoleLockInv)

-----------------------------------------------------------------------------
(* One character more, one text more.                                      *)

LEMMA Characters ==
    ASSUME NEW a \in Who, NEW n \in Nat, NEW k \in Nat
    PROVE  /\ <<a, n, k>> \in Char /\ <<a, n, k>>[1] = a /\ <<a, n, k>>[2] = n /\ <<a, n, k>>[3] = k
BY DEF Char

LEMMA CharacterIs ==
    ASSUME NEW c \in Char
    PROVE  c = <<c[1], c[2], c[3]>> /\ c[1] \in Who /\ c[2] \in Nat /\ c[3] \in Nat
BY DEF Char

LEMMA ShowsAppended ==
    ASSUME NEW out \in Seq(Char), NEW c \in Char
    PROVE  /\ Append(out, c) \in Seq(Char) /\ Len(Append(out, c)) = Len(out) + 1 /\ Len(out) \in Nat
           /\ DOMAIN out = 1..Len(out) /\ DOMAIN Append(out, c) = 1..(Len(out) + 1)
           /\ \A i \in DOMAIN out : Append(out, c)[i] = out[i] /\ out[i] \in Char
           /\ Append(out, c)[Len(out) + 1] = c
           /\ \A d : Shows(Append(out, c), d) <=> d = c \/ Shows(out, d)
<1>1. /\ Append(out, c) \in Seq(Char) /\ Len(Append(out, c)) = Len(out) + 1 /\ Len(out) \in Nat
      /\ DOMAIN out = 1..Len(out) /\ DOMAIN Append(out, c) = 1..(Len(out) + 1)
      /\ \A i \in DOMAIN out : Append(out, c)[i] = out[i] /\ out[i] \in Char
      /\ Append(out, c)[Len(out) + 1] = c
  BY AppendProperties, LenProperties, ElementOfSeq
<1>2. ASSUME NEW d PROVE Shows(Append(out, c), d) <=> d = c \/ Shows(out, d)
  BY <1>1 DEF Shows
<1> QED BY <1>1, <1>2

\* A character of a text that is open, the next one of it.
LEMMA Sends ==
    ASSUME NEW out, NEW pend, NEW tx, NEW c \in pend, Said(out, pend, tx), Open(out, pend), pend \subseteq Begun(tx),
           \A p \in pend : p[1] = c[1] /\ (OneText(p, c) /\ p # c => c[3] < p[3])
    PROVE  Said(Append(out, c), pend \ {c}, tx) /\ Open(Append(out, c), pend \ {c})
<1> DEFINE new == Append(out, c)
           n == Len(out)
<1>1. c \in Char /\ c \in Begun(tx) /\ out \in Seq(Char)
  BY DEF Begun, Said
<1>2. /\ new \in Seq(Char) /\ Len(new) = n + 1 /\ n \in Nat
      /\ DOMAIN out = 1..n /\ DOMAIN new = 1..(n + 1)
      /\ \A i \in DOMAIN out : new[i] = out[i] /\ out[i] \in Char
      /\ new[n + 1] = c
      /\ \A d : Shows(new, d) <=> d = c \/ Shows(out, d)
  BY <1>1, ShowsAppended
<1> HIDE DEF new, n
<1>3. InOrder(new)
  <2> SUFFICES ASSUME NEW i \in DOMAIN new, NEW k \in DOMAIN new, i < k, OneText(new[i], new[k])
               PROVE  new[i][3] < new[k][3] /\ \A j \in i..k : new[j][1] \in {new[i][1], Nobody}
    BY DEF InOrder
  <2>1. i \in DOMAIN out
    BY <1>2
  <2>2. CASE k \in DOMAIN out
    <3>1. OneText(out[i], out[k])
      BY <1>2, <2>1, <2>2
    <3>2. out[i][3] < out[k][3] /\ \A j \in i..k : out[j][1] \in {out[i][1], Nobody}
      BY <2>1, <2>2, <3>1 DEF Said, InOrder
    <3>3. \A j \in i..k : j \in DOMAIN out
      BY <1>2, <2>1, <2>2
    <3> QED BY <1>2, <2>1, <2>2, <3>2, <3>3
  <2>3. CASE k = n + 1
    <3>1. OneText(out[i], c)
      BY <1>2, <2>1, <2>3
    <3>2. out[i][3] < c[3] /\ \A j \in i..n : out[j][1] \in {c[1], Nobody}
      BY <2>1, <3>1 DEF Open, n
    <3>3. ASSUME NEW j \in i..k PROVE new[j][1] \in {out[i][1], Nobody}
      <4>1. CASE j = n + 1
        BY <1>2, <3>1, <4>1 DEF OneText
      <4>2. CASE j # n + 1
        <5>1. j \in i..n /\ j \in DOMAIN out
          BY <1>2, <2>1, <2>3, <4>2
        <5> QED BY <1>2, <3>1, <3>2, <5>1 DEF OneText
      <4> QED BY <4>1, <4>2
    <3> QED BY <1>2, <2>1, <2>3, <3>2, <3>3
  <2> QED BY <1>2, <2>2, <2>3
<1>4. ASSUME NEW d \in Char PROVE Shows(new, d) <=> d \in Begun(tx) /\ d \notin pend \ {c}
  BY <1>1, <1>2 DEF Said
<1>5. ASSUME NEW p \in pend \ {c}, NEW i \in DOMAIN new, OneText(new[i], p)
      PROVE  new[i][3] < p[3] /\ \A j \in i..(n + 1) : new[j][1] \in {p[1], Nobody}
  <2>1. CASE i = n + 1
    <3>1. \A j \in i..(n + 1) : j = n + 1
      BY <1>2, <2>1
    <3>2. OneText(p, c)
      BY <1>2, <1>5, <2>1 DEF OneText
    <3> QED BY <1>2, <2>1, <3>1, <3>2
  <2>2. CASE i \in DOMAIN out
    <3>1. OneText(out[i], p) /\ p[1] = c[1]
      BY <1>2, <1>5, <2>2
    <3>2. out[i][3] < p[3] /\ \A j \in i..n : out[j][1] \in {p[1], Nobody}
      BY <2>2, <3>1 DEF Open, n
    <3>3. ASSUME NEW j \in i..(n + 1) PROVE j = n + 1 \/ (j \in i..n /\ j \in DOMAIN out)
      BY <1>2, <2>2
    <3> QED BY <1>2, <2>2, <3>1, <3>2, <3>3
  <2> QED BY <1>2, <2>1, <2>2
<1> QED BY <1>2, <1>3, <1>4, <1>5 DEF Said, Open, new

LEMMA SameCharacter ==
    ASSUME NEW c \in Char, NEW d \in Char, c[1] = d[1], c[2] = d[2], c[3] = d[3]
    PROVE  c = d
<1>1. c = <<c[1], c[2], c[3]>> /\ d = <<d[1], d[2], d[3]>>
  BY CharacterIs
<1> QED BY <1>1

Handled(tx) == <<Nobody, tx[Nobody] + 1, 1>>
ThisText(t, tx) == {TextOf(t, tx[t] + 1)[k] : k \in 1..TextLength}

LEMMA TextIs ==
    ASSUME NEW t \in Printer, NEW n \in Nat
    PROVE  /\ TextOf(t, n) \in Seq(Char) /\ Len(TextOf(t, n)) = TextLength /\ DOMAIN TextOf(t, n) = 1..TextLength
           /\ TextOf(t, n) # <<>> /\ TextLength \in Nat \ {0}
           /\ \A k \in 1..TextLength : TextOf(t, n)[k] = <<t, n, k>>
           /\ \A k \in 1..TextLength : TextOf(t, n)[k][1] = t /\ TextOf(t, n)[k][2] = n /\ TextOf(t, n)[k][3] = k
<1>1. TextLength \in Nat \ {0} /\ t \in Who
  BY ConsoleAssumption DEF Who
<1>2. \A k \in 1..TextLength : <<t, n, k>> \in Char
  BY <1>1, Characters
<1>3. TextOf(t, n) \in [1..TextLength -> Char]
  BY <1>2 DEF TextOf
<1>4. TextOf(t, n) \in Seq(Char) /\ Len(TextOf(t, n)) = TextLength
  BY <1>1, <1>3
<1> QED BY <1>1, <1>3, <1>4 DEF TextOf

\* The characters of the texts begun, when somebody begins the next one.
LEMMA BegunMore ==
    ASSUME NEW tx \in [Who -> Nat], NEW w \in Who, NEW c \in Char
    PROVE  c \in Begun([tx EXCEPT ![w] = @ + 1]) <=>
              c \in Begun(tx) \/ (c[1] = w /\ c[2] = tx[w] + 1 /\ c[3] \in 1..(IF w = Nobody THEN 1 ELSE TextLength))
<1>1. c[1] \in Who /\ c[2] \in Nat /\ tx[c[1]] \in Nat /\ tx[w] \in Nat
  BY CharacterIs
<1>2. [tx EXCEPT ![w] = @ + 1][c[1]] = IF c[1] = w THEN tx[w] + 1 ELSE tx[c[1]]
  BY <1>1
<1> QED BY <1>1, <1>2 DEF Begun

\* A handler prints a character of its own.
LEMMA HandlerPrints ==
    ASSUME NEW out, NEW pend, NEW tx \in [Who -> Nat], Said(out, pend, tx), Open(out, pend),
           \A p \in pend : p[1] \in Printer
    PROVE  /\ Said(Append(out, Handled(tx)), pend, [tx EXCEPT ![Nobody] = @ + 1])
           /\ Open(Append(out, Handled(tx)), pend)
<1> DEFINE c == Handled(tx)
           new == Append(out, c)
           n == Len(out)
<1>1. /\ c \in Char /\ out \in Seq(Char) /\ c[1] = Nobody /\ c[2] = tx[Nobody] + 1 /\ c[3] = 1
      /\ Nobody \in Who /\ Nobody \notin Printer
  <2>1. Nobody \in Who /\ tx[Nobody] + 1 \in Nat /\ Nobody \notin Printer
    BY ConsoleAssumption DEF Who
  <2> QED BY <2>1, Characters DEF Handled, Said
<1> HIDE DEF c
<1>2. /\ new \in Seq(Char) /\ Len(new) = n + 1 /\ n \in Nat
      /\ DOMAIN out = 1..n /\ DOMAIN new = 1..(n + 1)
      /\ \A i \in DOMAIN out : new[i] = out[i] /\ out[i] \in Char
      /\ new[n + 1] = c
      /\ \A d : Shows(new, d) <=> d = c \/ Shows(out, d)
  BY <1>1, ShowsAppended
<1> HIDE DEF new, n
<1>3. ASSUME NEW i \in DOMAIN out PROVE ~OneText(out[i], c)
  <2>1. out[i] \in Begun(tx)
    BY <1>2 DEF Said, Shows
  <2>2. tx[Nobody] \in Nat
    BY <1>1
  <2> QED BY <1>1, <2>1, <2>2 DEF Begun, OneText
<1>4. InOrder(new)
  <2> SUFFICES ASSUME NEW i \in DOMAIN new, NEW k \in DOMAIN new, i < k, OneText(new[i], new[k])
               PROVE  new[i][3] < new[k][3] /\ \A j \in i..k : new[j][1] \in {new[i][1], Nobody}
    BY DEF InOrder
  <2>1. i \in DOMAIN out /\ new[i] = out[i]
    BY <1>2
  <2>2. k \in DOMAIN out
    BY <1>2, <1>3, <2>1
  <2>3. out[i][3] < out[k][3] /\ \A j \in i..k : out[j][1] \in {out[i][1], Nobody}
    BY <1>2, <2>1, <2>2 DEF Said, InOrder
  <2>4. \A j \in i..k : j \in DOMAIN out
    BY <1>2, <2>1, <2>2
  <2> QED BY <1>2, <2>1, <2>2, <2>3, <2>4
<1>5. ASSUME NEW d \in Char PROVE Shows(new, d) <=> d \in Begun([tx EXCEPT ![Nobody] = @ + 1]) /\ d \notin pend
  <2>1. d \in Begun([tx EXCEPT ![Nobody] = @ + 1]) <=> d \in Begun(tx) \/ (d[1] = Nobody /\ d[2] = tx[Nobody] + 1 /\ d[3] \in 1..1)
    BY <1>1, BegunMore
  <2>2. d = c <=> (d[1] = Nobody /\ d[2] = tx[Nobody] + 1 /\ d[3] \in 1..1)
    <3>1. ASSUME d[1] = Nobody, d[2] = tx[Nobody] + 1, d[3] \in 1..1 PROVE d = c
      <4>1. d[1] = c[1] /\ d[2] = c[2] /\ d[3] = c[3]
        BY <1>1, <3>1
      <4> QED BY <1>1, <4>1, SameCharacter
    <3> QED BY <1>1, <3>1
  <2>3. c \notin pend
    BY <1>1
  <2> QED BY <1>2, <2>1, <2>2, <2>3 DEF Said
<1>6. ASSUME NEW p \in pend, NEW i \in DOMAIN new, OneText(new[i], p)
      PROVE  new[i][3] < p[3] /\ \A j \in i..(n + 1) : new[j][1] \in {p[1], Nobody}
  <2>1. i \in DOMAIN out
    <3>1. new[i] # c
      BY <1>1, <1>6 DEF OneText
    <3> QED BY <1>2, <3>1
  <2>2. out[i][3] < p[3] /\ \A j \in i..n : out[j][1] \in {p[1], Nobody}
    BY <1>2, <1>6, <2>1 DEF Open, n
  <2>3. ASSUME NEW j \in i..(n + 1) PROVE j = n + 1 \/ (j \in i..n /\ j \in DOMAIN out)
    BY <1>2, <2>1
  <2> QED BY <1>1, <1>2, <2>1, <2>2, <2>3
<1> QED BY <1>2, <1>4, <1>5, <1>6 DEF Said, Open, new, c

\* A text begins.
LEMMA TextBegins ==
    ASSUME NEW out, NEW pend, NEW tx \in [Who -> Nat], Said(out, pend, tx), Open(out, pend), NEW t \in Printer
    PROVE  /\ Said(out, pend \cup ThisText(t, tx), [tx EXCEPT ![t] = @ + 1])
           /\ Open(out, pend \cup ThisText(t, tx))
<1>1. t \in Who /\ t # Nobody /\ tx[t] \in Nat /\ tx[t] + 1 \in Nat /\ out \in Seq(Char)
  BY ConsoleAssumption DEF Who, Said
<1>2. ASSUME NEW d \in Char
      PROVE  d \in ThisText(t, tx) <=> d[1] = t /\ d[2] = tx[t] + 1 /\ d[3] \in 1..TextLength
  <2> DEFINE x == TextOf(t, tx[t] + 1)
  <2>1. /\ \A k \in 1..TextLength : x[k] \in Char /\ x[k][1] = t /\ x[k][2] = tx[t] + 1 /\ x[k][3] = k
    BY <1>1, TextIs, ElementOfSeq
  <2> HIDE DEF x
  <2>2. ASSUME d[1] = t, d[2] = tx[t] + 1, d[3] \in 1..TextLength PROVE d = x[d[3]]
    <3>1. x[d[3]] \in Char /\ x[d[3]][1] = d[1] /\ x[d[3]][2] = d[2] /\ x[d[3]][3] = d[3]
      BY <2>1, <2>2
    <3> QED BY <3>1, SameCharacter
  <2> QED BY <2>1, <2>2 DEF ThisText, x
<1>3. ASSUME NEW d \in Char, d \in Begun(tx) PROVE d \notin ThisText(t, tx)
  BY <1>1, <1>2, <1>3 DEF Begun
<1>4. ASSUME NEW d \in Char
      PROVE  Shows(out, d) <=> d \in Begun([tx EXCEPT ![t] = @ + 1]) /\ d \notin pend \cup ThisText(t, tx)
  <2>1. d \in Begun([tx EXCEPT ![t] = @ + 1]) <=> d \in Begun(tx) \/ d \in ThisText(t, tx)
    <3>1. d \in Begun([tx EXCEPT ![t] = @ + 1]) <=>
             d \in Begun(tx) \/ (d[1] = t /\ d[2] = tx[t] + 1 /\ d[3] \in 1..(IF t = Nobody THEN 1 ELSE TextLength))
      BY <1>1, BegunMore
    <3> QED BY <1>1, <1>2, <3>1
  <2> QED BY <1>3, <2>1 DEF Said
<1>5. ASSUME NEW c \in ThisText(t, tx), NEW i \in DOMAIN out PROVE ~OneText(out[i], c)
  <2>1. out[i] \in Char /\ out[i] \in Begun(tx)
    BY <1>1, LenProperties, ElementOfSeq DEF Said, Shows
  <2>2. c[1] = t /\ c[2] = tx[t] + 1
    BY <1>1, TextIs DEF ThisText
  <2> QED BY <1>1, <2>1, <2>2 DEF Begun, OneText
<1> QED BY <1>4, <1>5 DEF Said, Open

\* The message of a panic follows at once.
LEMMA MessagePrinted ==
    ASSUME NEW out, NEW pend, NEW tx \in [Who -> Nat], Said(out, pend, tx), pend \subseteq Begun(tx), NEW t \in Printer
    PROVE  Said(out \o TextOf(t, tx[t] + 1), pend, [tx EXCEPT ![t] = @ + 1])
<1> DEFINE m == TextOf(t, tx[t] + 1)
           new == out \o m
           n == Len(out)
<1>1. t \in Who /\ t # Nobody /\ tx[t] \in Nat /\ tx[t] + 1 \in Nat /\ out \in Seq(Char)
  BY ConsoleAssumption DEF Who, Said
<1>2. /\ m \in Seq(Char) /\ Len(m) = TextLength /\ DOMAIN m = 1..TextLength /\ TextLength \in Nat
      /\ \A k \in 1..TextLength : m[k] = <<t, tx[t] + 1, k>> /\ m[k][1] = t /\ m[k][2] = tx[t] + 1 /\ m[k][3] = k
  BY <1>1, TextIs
<1> HIDE DEF m
<1>3. /\ new \in Seq(Char) /\ n \in Nat /\ DOMAIN new = 1..(n + TextLength) /\ DOMAIN out = 1..n
      /\ \A i \in DOMAIN out : new[i] = out[i] /\ out[i] \in Char
      /\ \A k \in 1..TextLength : new[n + k] = m[k]
  <2>1. /\ new \in Seq(Char) /\ Len(new) = n + TextLength /\ n \in Nat
        /\ \A i \in 1..(n + TextLength) : new[i] = IF i <= n THEN out[i] ELSE m[i - n]
    BY <1>1, <1>2, ConcatProperties, LenProperties
  <2>2. DOMAIN new = 1..(n + TextLength) /\ DOMAIN out = 1..n /\ \A i \in 1..n : out[i] \in Char
    BY <1>1, <2>1, LenProperties, ElementOfSeq
  <2> HIDE DEF new, n
  <2>3. \A i \in 1..n : new[i] = out[i]
    BY <1>2, <2>1
  <2>4. ASSUME NEW k \in 1..TextLength PROVE new[n + k] = m[k]
    <3>1. n + k \in 1..(n + TextLength) /\ ~(n + k <= n) /\ n + k - n = k
      BY <1>2, <2>1
    <3> QED BY <2>1, <3>1
  <2> QED BY <2>1, <2>2, <2>3, <2>4
<1> HIDE DEF new, n
<1>4. ASSUME NEW i \in DOMAIN new, i \notin DOMAIN out
      PROVE  i - n \in 1..TextLength /\ new[i] = m[i - n] /\ new[i][1] = t /\ new[i][2] = tx[t] + 1 /\ new[i][3] = i - n
  <2>1. i - n \in 1..TextLength /\ n + (i - n) = i
    BY <1>2, <1>3, <1>4
  <2> QED BY <1>2, <1>3, <2>1
<1>5. ASSUME NEW i \in DOMAIN out PROVE ~(out[i][1] = t /\ out[i][2] = tx[t] + 1)
  <2>1. out[i] \in Begun(tx)
    BY <1>3 DEF Said, Shows
  <2> QED BY <1>1, <2>1 DEF Begun
<1>6. InOrder(new)
  <2> SUFFICES ASSUME NEW i \in DOMAIN new, NEW k \in DOMAIN new, i < k, OneText(new[i], new[k])
               PROVE  new[i][3] < new[k][3] /\ \A j \in i..k : new[j][1] \in {new[i][1], Nobody}
    BY DEF InOrder
  <2>1. CASE k \in DOMAIN out
    <3>1. i \in DOMAIN out /\ \A j \in i..k : j \in DOMAIN out
      BY <1>3, <2>1
    <3>2. OneText(out[i], out[k])
      BY <1>3, <2>1, <3>1
    <3>3. out[i][3] < out[k][3] /\ \A j \in i..k : out[j][1] \in {out[i][1], Nobody}
      BY <2>1, <3>1, <3>2 DEF Said, InOrder
    <3> QED BY <1>3, <2>1, <3>1, <3>3
  <2>2. CASE k \notin DOMAIN out
    <3>1. i \notin DOMAIN out
      BY <1>3, <1>4, <1>5, <2>2 DEF OneText
    <3>2. \A j \in i..k : j \in DOMAIN new /\ j \notin DOMAIN out
      BY <1>2, <1>3, <3>1
    <3>3. new[i][3] = i - n /\ new[k][3] = k - n /\ \A j \in i..k : new[j][1] = t
      BY <1>4, <2>2, <3>1, <3>2
    <3>4. i \in Int /\ k \in Int /\ n \in Int
      BY <1>3
    <3> QED BY <3>1, <1>4, <3>3, <3>4
  <2> QED BY <2>1, <2>2
<1>7. ASSUME NEW d \in Char PROVE Shows(new, d) <=> d \in Begun([tx EXCEPT ![t] = @ + 1]) /\ d \notin pend
  <2>1. d \in Begun([tx EXCEPT ![t] = @ + 1]) <=> d \in Begun(tx) \/ (d[1] = t /\ d[2] = tx[t] + 1 /\ d[3] \in 1..TextLength)
    <3>1. d \in Begun([tx EXCEPT ![t] = @ + 1]) <=>
             d \in Begun(tx) \/ (d[1] = t /\ d[2] = tx[t] + 1 /\ d[3] \in 1..(IF t = Nobody THEN 1 ELSE TextLength))
      BY <1>1, BegunMore
    <3> QED BY <1>1, <3>1
  <2>2. d[1] = t /\ d[2] = tx[t] + 1 => d \notin Begun(tx) /\ d \notin pend
    BY <1>1 DEF Begun
  <2>3. Shows(new, d) <=> Shows(out, d) \/ (d[1] = t /\ d[2] = tx[t] + 1 /\ d[3] \in 1..TextLength)
    <3>1. ASSUME Shows(new, d) PROVE Shows(out, d) \/ (d[1] = t /\ d[2] = tx[t] + 1 /\ d[3] \in 1..TextLength)
      BY <1>3, <1>4, <3>1 DEF Shows
    <3>2. ASSUME Shows(out, d) PROVE Shows(new, d)
      BY <1>2, <1>3, <3>2 DEF Shows
    <3>3. ASSUME d[1] = t, d[2] = tx[t] + 1, d[3] \in 1..TextLength PROVE Shows(new, d)
      <4>1. d = m[d[3]]
        <5>1. m[d[3]] \in Char /\ m[d[3]][1] = d[1] /\ m[d[3]][2] = d[2] /\ m[d[3]][3] = d[3]
          BY <1>2, <3>3, ElementOfSeq
        <5> QED BY <5>1, SameCharacter
      <4>2. n + d[3] \in DOMAIN new
        BY <1>2, <1>3, <3>3
      <4> QED BY <1>3, <3>3, <4>1, <4>2 DEF Shows
    <3> QED BY <3>1, <3>2, <3>3
  <2> QED BY <2>1, <2>2, <2>3 DEF Said
<1> QED BY <1>3, <1>6, <1>7 DEF Said, new, m

-----------------------------------------------------------------------------
(* The prints a thread is in.                                              *)

LEMMA FramesAre ==
    ASSUME NEW s \in Seq(Frame)
    PROVE  /\ Len(s) \in Nat /\ DOMAIN s = 1..Len(s)
           /\ \A j \in DOMAIN s : /\ s[j] \in Frame /\ s[j].text \in Seq(Char) /\ s[j].sent \in BOOLEAN
                                  /\ Len(s[j].text) \in Nat /\ DOMAIN s[j].text = 1..Len(s[j].text)
                                  /\ \A i \in DOMAIN s[j].text : s[j].text[i] \in Char
                                  /\ s[j].text # <<>> <=> Len(s[j].text) > 0
<1>1. Len(s) \in Nat /\ DOMAIN s = 1..Len(s) /\ \A j \in DOMAIN s : s[j] \in Frame
  BY LenProperties, ElementOfSeq
<1>2. ASSUME NEW j \in DOMAIN s PROVE s[j].text \in Seq(Char) /\ s[j].sent \in BOOLEAN
  BY <1>1 DEF Frame
<1>3. ASSUME NEW x \in Seq(Char)
      PROVE  /\ Len(x) \in Nat /\ DOMAIN x = 1..Len(x) /\ (\A i \in DOMAIN x : x[i] \in Char)
             /\ x # <<>> <=> Len(x) > 0
  BY LenProperties, ElementOfSeq, EmptySeq
<1> QED BY <1>1, <1>2, <1>3

\* What is still to come is of texts that were begun, by the thread itself.
LEMMA OwnTexts ==
    ASSUME NEW t \in Printer, NEW tx \in [Who -> Nat], NEW s \in Seq(Frame), FramesOK(t, s, tx[t])
    PROVE  /\ ToScreen(s) \subseteq Begun(tx) /\ ToPort(s) \subseteq ToScreen(s)
           /\ \A c \in ToScreen(s) : c[1] = t
<1>1. t # Nobody /\ t \in Who
  BY ConsoleAssumption DEF Who
<1>2. ASSUME NEW c \in ToScreen(s) PROVE c[1] = t /\ c \in Begun(tx)
  <2>1. PICK j, i : j \in DOMAIN s /\ i \in DOMAIN s[j].text /\ c = s[j].text[i]
    BY DEF ToScreen
  <2>2. c[1] = t /\ c[2] \in 1..tx[t] /\ c[3] \in 1..TextLength
    BY <2>1 DEF FramesOK
  <2>3. c \in Char
    BY DEF ToScreen
  <2> QED BY <1>1, <2>2, <2>3 DEF Begun
<1> QED BY <1>2 DEF ToScreen, ToPort

SentTop(s)  == [s EXCEPT ![Len(s)] = [s[Len(s)] EXCEPT !.sent = TRUE]]
ShownTop(s) == [s EXCEPT ![Len(s)] = [text |-> Tail(s[Len(s)].text), sent |-> FALSE]]

\* The innermost print has its next character sent to the port.
LEMMA TopToPort ==
    ASSUME NEW t \in Printer, NEW n, NEW s \in Seq(Frame), FramesOK(t, s, n), s # <<>>,
           NEW top, top = s[Len(s)], top.text # <<>>, ~top.sent,
           NEW s2, s2 = SentTop(s)
    PROVE  /\ s2 \in Seq(Frame) /\ s2 # <<>> /\ Len(s2) = Len(s) /\ FramesOK(t, s2, n) /\ ToScreen(s2) = ToScreen(s)
           /\ Head(top.text) \in ToPort(s) /\ ToPort(s2) = ToPort(s) \ {Head(top.text)}
           /\ \A p \in ToPort(s) : /\ p[1] = Head(top.text)[1]
                                   /\ OneText(p, Head(top.text)) /\ p # Head(top.text) => Head(top.text)[3] < p[3]
<1> DEFINE l == Len(s)
           c == Head(top.text)
<1>0. s2 = [s EXCEPT ![Len(s)] = [top EXCEPT !.sent = TRUE]]
  BY DEF SentTop
<1>1. /\ l \in Nat /\ DOMAIN s = 1..l /\ l \in DOMAIN s /\ l > 0
      /\ \A j \in DOMAIN s : /\ s[j] \in Frame /\ s[j].text \in Seq(Char) /\ s[j].sent \in BOOLEAN
                             /\ Len(s[j].text) \in Nat /\ DOMAIN s[j].text = 1..Len(s[j].text)
                             /\ \A i \in DOMAIN s[j].text : s[j].text[i] \in Char
                             /\ s[j].text # <<>> <=> Len(s[j].text) > 0
  BY FramesAre, EmptySeq
<1>2. /\ c = top.text[1] /\ 1 \in DOMAIN s[l].text
  BY <1>0, <1>1
<1>3. /\ s2 \in Seq(Frame) /\ Len(s2) = l /\ DOMAIN s2 = DOMAIN s
      /\ \A j \in DOMAIN s : s2[j].text = s[j].text /\ s2[j].sent = IF j = l THEN TRUE ELSE s[j].sent
  <2>1. [top EXCEPT !.sent = TRUE] \in Frame /\ [top EXCEPT !.sent = TRUE].text = top.text /\ [top EXCEPT !.sent = TRUE].sent = TRUE
    BY <1>0, <1>1 DEF Frame
  <2>2. /\ s2 \in Seq(Frame) /\ Len(s2) = l
        /\ \A j \in 1..l : s2[j] = IF j = l THEN [top EXCEPT !.sent = TRUE] ELSE s[j]
    BY <1>0, <1>1, <2>1, ExceptSeq
  <2>3. DOMAIN s2 = DOMAIN s
    BY <1>0, <1>1, <2>2, LenProperties
  <2> QED BY <1>0, <1>1, <2>1, <2>2, <2>3
<1> HIDE DEF l, c
<1>4. FramesOK(t, s2, n)
  BY <1>0, <1>1, <1>3 DEF FramesOK
<1>5. ToScreen(s2) = ToScreen(s)
  BY <1>0, <1>3 DEF ToScreen
<1>6. c \in Char /\ c = s[l].text[1] /\ ~s[l].sent
  BY <1>0, <1>1, <1>2 DEF l
<1>7. c \in ToPort(s)
  BY <1>0, <1>1, <1>2, <1>6 DEF ToPort
<1>8. ASSUME NEW j \in DOMAIN s, NEW i \in DOMAIN s[j].text, s[j].text[i] = c PROVE j = l /\ i = 1
  <2>1. j = l
    BY <1>0, <1>1, <1>2, <1>6, <1>8 DEF FramesOK
  <2>2. CASE i # 1
    <3>1. 1 < i
      BY <1>0, <1>1, <2>2
    <3>2. s[l].text[1][3] < s[l].text[i][3] /\ s[l].text[1][3] \in 1..TextLength
      BY <1>0, <1>1, <1>2, <2>1, <3>1 DEF FramesOK
    <3>3. TextLength \in Nat
      BY ConsoleAssumption
    <3> QED BY <1>0, <1>6, <1>8, <2>1, <3>2, <3>3
  <2> QED BY <2>1, <2>2
<1>9. ToPort(s2) = ToPort(s) \ {c}
  <2>1. ASSUME NEW p \in Char PROVE p \in ToPort(s2) <=> p \in ToPort(s) /\ p # c
    <3>1. ASSUME p \in ToPort(s2) PROVE p \in ToPort(s) /\ p # c
      <4>1. PICK j, i : j \in DOMAIN s2 /\ i \in DOMAIN s2[j].text /\ p = s2[j].text[i] /\ ~(i = 1 /\ s2[j].sent)
        BY <3>1 DEF ToPort
      <4>2. j \in DOMAIN s /\ i \in DOMAIN s[j].text /\ p = s[j].text[i] /\ ~(i = 1 /\ s[j].sent) /\ ~(i = 1 /\ j = l)
        BY <1>0, <1>3, <4>1
      <4> QED BY <1>0, <1>8, <4>2 DEF ToPort
    <3>2. ASSUME p \in ToPort(s), p # c PROVE p \in ToPort(s2)
      <4>1. PICK j, i : j \in DOMAIN s /\ i \in DOMAIN s[j].text /\ p = s[j].text[i] /\ ~(i = 1 /\ s[j].sent)
        BY <3>2 DEF ToPort
      <4>2. ~(j = l /\ i = 1)
        BY <1>0, <1>6, <3>2, <4>1
      <4>3. j \in DOMAIN s2 /\ i \in DOMAIN s2[j].text /\ p = s2[j].text[i] /\ ~(i = 1 /\ s2[j].sent)
        BY <1>0, <1>3, <4>1, <4>2
      <4> QED BY <4>3 DEF ToPort
    <3> QED BY <3>1, <3>2
  <2> QED BY <2>1 DEF ToPort
<1>10. ASSUME NEW p \in ToPort(s) PROVE p[1] = c[1] /\ (OneText(p, c) /\ p # c => c[3] < p[3])
  <2>1. PICK j, i : j \in DOMAIN s /\ i \in DOMAIN s[j].text /\ p = s[j].text[i]
    BY DEF ToPort
  <2>2. p[1] = t /\ c[1] = t
    BY <1>0, <1>1, <1>2, <1>6, <2>1 DEF FramesOK
  <2>3. ASSUME OneText(p, c), p # c PROVE c[3] < p[3]
    <3>1. j = l
      BY <1>0, <1>1, <1>2, <1>6, <2>1, <2>3 DEF FramesOK, OneText
    <3>2. 1 < i
      BY <1>0, <1>1, <1>6, <2>1, <2>3, <3>1
    <3> QED BY <1>0, <1>1, <1>2, <1>6, <2>1, <3>1, <3>2 DEF FramesOK
  <2> QED BY <2>2, <2>3
<1> QED BY <1>0, <1>1, <1>3, <1>4, <1>5, <1>7, <1>9, <1>10, EmptySeq DEF c, l

\* And then to the screen.
LEMMA TopToScreen ==
    ASSUME NEW t \in Printer, NEW n, NEW s \in Seq(Frame), FramesOK(t, s, n), s # <<>>,
           NEW top, top = s[Len(s)], top.sent,
           NEW s2, s2 = ShownTop(s)
    PROVE  /\ s2 \in Seq(Frame) /\ s2 # <<>> /\ Len(s2) = Len(s) /\ FramesOK(t, s2, n) /\ ToPort(s2) = ToPort(s)
           /\ Head(top.text) \in ToScreen(s) /\ ToScreen(s2) = ToScreen(s) \ {Head(top.text)}
           /\ \A p \in ToScreen(s) : /\ p[1] = Head(top.text)[1]
                                     /\ OneText(p, Head(top.text)) /\ p # Head(top.text) => Head(top.text)[3] < p[3]
<1> DEFINE l == Len(s)
           c == Head(top.text)
<1>0. s2 = [s EXCEPT ![Len(s)] = [text |-> Tail(top.text), sent |-> FALSE]]
  BY DEF ShownTop
<1>1. /\ l \in Nat /\ DOMAIN s = 1..l /\ l \in DOMAIN s /\ l > 0
      /\ \A j \in DOMAIN s : /\ s[j] \in Frame /\ s[j].text \in Seq(Char) /\ s[j].sent \in BOOLEAN
                             /\ Len(s[j].text) \in Nat /\ DOMAIN s[j].text = 1..Len(s[j].text)
                             /\ \A i \in DOMAIN s[j].text : s[j].text[i] \in Char
                             /\ s[j].text # <<>> <=> Len(s[j].text) > 0
  BY FramesAre, EmptySeq
<1>2. top.text # <<>> /\ Len(top.text) > 0
  BY <1>0, <1>1 DEF FramesOK
<1>3. /\ c = top.text[1] /\ 1 \in DOMAIN s[l].text
  BY <1>0, <1>1, <1>2
<1>4. /\ s2 \in Seq(Frame) /\ Len(s2) = l /\ DOMAIN s2 = DOMAIN s
      /\ \A j \in DOMAIN s : j # l => s2[j] = s[j]
      /\ s2[l].text = Tail(top.text) /\ s2[l].sent = FALSE
      /\ DOMAIN s2[l].text = 1..(Len(top.text) - 1) /\ \A i \in DOMAIN s2[l].text : s2[l].text[i] = s[l].text[i + 1]
  <2> DEFINE fr == [text |-> Tail(top.text), sent |-> FALSE]
  <2>1. /\ Tail(top.text) \in Seq(Char) /\ Len(Tail(top.text)) = Len(top.text) - 1
        /\ \A i \in 1..Len(Tail(top.text)) : Tail(top.text)[i] = top.text[i + 1]
        /\ DOMAIN Tail(top.text) = 1..(Len(top.text) - 1)
    BY <1>0, <1>1, <1>2, HeadTailProperties, LenProperties
  <2>2. fr \in Frame /\ fr.text = Tail(top.text) /\ fr.sent = FALSE
    BY <2>1 DEF Frame
  <2> HIDE DEF fr
  <2>3. /\ s2 \in Seq(Frame) /\ Len(s2) = l /\ \A j \in 1..l : s2[j] = IF j = l THEN fr ELSE s[j]
    BY <1>0, <1>1, <2>2, ExceptSeq DEF fr
  <2>4. DOMAIN s2 = DOMAIN s
    BY <1>0, <1>1, <2>3, LenProperties
  <2>5. l \in 1..l /\ s2[l] = fr
    <3> HIDE DEF l
    <3> QED BY <1>1, <2>3
  <2>6. s2[l].text = Tail(top.text) /\ s2[l].sent = FALSE
    BY <2>2, <2>5
  <2>7. \A j \in DOMAIN s : j # l => s2[j] = s[j]
    <3> HIDE DEF l
    <3> QED BY <1>1, <2>3
  <2>8. DOMAIN s2[l].text = 1..(Len(top.text) - 1) /\ \A i \in DOMAIN s2[l].text : s2[l].text[i] = s[l].text[i + 1]
    <3>1. Len(Tail(top.text)) = Len(top.text) - 1 /\ top = s[l]
      BY <2>1
    <3> HIDE DEF l
    <3> QED BY <2>1, <2>6, <3>1
  <2> QED BY ONLY <2>3, <2>4, <2>6, <2>7, <2>8
<1> HIDE DEF l, c
<1>5. c \in Char /\ c = s[l].text[1] /\ s[l].sent /\ Len(top.text) = Len(s[l].text) /\ Len(s[l].text) \in Nat
  BY <1>0, <1>1, <1>3 DEF l
\* Where a character of s2 was in s.
<1> DEFINE at(j, i) == IF j = l THEN i + 1 ELSE i
<1>6. ASSUME NEW j \in DOMAIN s2, NEW i \in DOMAIN s2[j].text
      PROVE  j \in DOMAIN s /\ at(j, i) \in DOMAIN s[j].text /\ s2[j].text[i] = s[j].text[at(j, i)] /\ i \in Nat
  BY <1>0, <1>1, <1>4, <1>5
<1>6a. ASSUME NEW j \in DOMAIN s2, NEW i \in DOMAIN s2[j].text PROVE i >= 1
  BY <1>0, <1>4, FramesAre
<1>7. ASSUME NEW j \in DOMAIN s, NEW i \in DOMAIN s[j].text, ~(j = l /\ i = 1)
      PROVE  \E k \in DOMAIN s2[j].text : at(j, k) = i
  <2>1. CASE j # l
    BY <1>0, <1>4, <2>1
  <2>2. CASE j = l
    <3>1. i - 1 \in DOMAIN s2[j].text /\ i - 1 + 1 = i
      BY <1>0, <1>1, <1>4, <1>5, <1>7, <2>2
    <3> QED BY <2>2, <3>1
  <2> QED BY <2>1, <2>2
<1>8. FramesOK(t, s2, n)
  <2>1. ASSUME NEW j \in DOMAIN s2, s2[j].sent PROVE s2[j].text # <<>>
    BY <1>0, <1>4, <2>1 DEF FramesOK
  <2>2. ASSUME NEW j \in DOMAIN s2, NEW i \in DOMAIN s2[j].text
        PROVE  s2[j].text[i][1] = t /\ s2[j].text[i][2] \in 1..n /\ s2[j].text[i][3] \in 1..TextLength
    BY <1>0, <1>6 DEF FramesOK
  <2>3. ASSUME NEW j \in DOMAIN s2, NEW i \in DOMAIN s2[j].text, NEW k \in DOMAIN s2[j].text
        PROVE  s2[j].text[i][2] = s2[j].text[k][2] /\ (i < k => s2[j].text[i][3] < s2[j].text[k][3])
    <3>1. i < k => at(j, i) < at(j, k)
      BY <1>0, <1>6
    <3> HIDE DEF at
    <3> QED BY <1>0, <1>6, <3>1 DEF FramesOK
  <2>4. ASSUME NEW j \in DOMAIN s2, NEW m \in DOMAIN s2, NEW i \in DOMAIN s2[j].text, NEW k \in DOMAIN s2[m].text,
               s2[j].text[i][2] = s2[m].text[k][2]
        PROVE  j = m
    <3> HIDE DEF at
    <3> QED BY <1>0, <1>6, <2>4 DEF FramesOK
  <2> QED BY <2>1, <2>2, <2>3, <2>4 DEF FramesOK
<1>9. c \in ToScreen(s)
  BY <1>0, <1>1, <1>3, <1>5 DEF ToScreen
<1>10. ASSUME NEW j \in DOMAIN s, NEW i \in DOMAIN s[j].text, s[j].text[i] = c PROVE j = l /\ i = 1
  <2>1. s[j].text[i][2] = s[l].text[1][2] /\ l \in DOMAIN s /\ 1 \in DOMAIN s[l].text
    BY <1>0, <1>1, <1>3, <1>5, <1>10
  <2>2. j = l
    BY <2>1 DEF FramesOK
  <2>3. CASE i # 1
    <3>1. 1 < i
      BY <1>0, <1>1, <2>3
    <3>2. s[l].text[1][3] < s[l].text[i][3] /\ s[l].text[1][3] \in 1..TextLength
      BY <1>0, <1>1, <1>3, <2>2, <3>1 DEF FramesOK
    <3>3. TextLength \in Nat
      BY ConsoleAssumption
    <3> QED BY <1>0, <1>5, <1>10, <2>2, <3>2, <3>3
  <2> QED BY <2>2, <2>3
<1>11. ToScreen(s2) = ToScreen(s) \ {c}
  <2>1. ASSUME NEW p \in Char PROVE p \in ToScreen(s2) <=> p \in ToScreen(s) /\ p # c
    <3>1. ASSUME p \in ToScreen(s2) PROVE p \in ToScreen(s) /\ p # c
      <4>1. PICK j, i : j \in DOMAIN s2 /\ i \in DOMAIN s2[j].text /\ p = s2[j].text[i]
        BY <3>1 DEF ToScreen
      <4>2. j \in DOMAIN s /\ at(j, i) \in DOMAIN s[j].text /\ p = s[j].text[at(j, i)] /\ ~(j = l /\ at(j, i) = 1)
        <5>1. i >= 1
          BY <1>0, <1>6a, <4>1
        <5> QED BY <1>0, <1>6, <4>1, <5>1
      <4> HIDE DEF at
      <4> QED BY <1>0, <1>10, <4>2 DEF ToScreen
    <3>2. ASSUME p \in ToScreen(s), p # c PROVE p \in ToScreen(s2)
      <4>1. PICK j, i : j \in DOMAIN s /\ i \in DOMAIN s[j].text /\ p = s[j].text[i]
        BY <3>2 DEF ToScreen
      <4>2. ~(j = l /\ i = 1)
        BY <1>0, <1>5, <3>2, <4>1
      <4>3. PICK k \in DOMAIN s2[j].text : at(j, k) = i
        BY <1>0, <1>7, <4>1, <4>2
      <4> HIDE DEF at
      <4>4. j \in DOMAIN s2 /\ p = s2[j].text[k]
        BY <1>0, <1>4, <1>6, <4>1, <4>3
      <4> QED BY <4>4 DEF ToScreen
    <3> QED BY <3>1, <3>2
  <2> QED BY <2>1 DEF ToScreen
<1>12. ToPort(s2) = ToPort(s)
  <2>1. ASSUME NEW p \in ToPort(s2) PROVE p \in ToPort(s)
    <3>1. PICK j, i : j \in DOMAIN s2 /\ i \in DOMAIN s2[j].text /\ p = s2[j].text[i] /\ ~(i = 1 /\ s2[j].sent)
      BY DEF ToPort
    <3>2. j \in DOMAIN s /\ at(j, i) \in DOMAIN s[j].text /\ p = s[j].text[at(j, i)] /\ ~(at(j, i) = 1 /\ s[j].sent)
      <4>1. i >= 1
        BY <1>0, <1>6a, <3>1
      <4> QED BY <1>0, <1>4, <1>6, <3>1, <4>1
    <3> HIDE DEF at
    <3>3. p \in Char
      BY DEF ToPort
    <3> QED BY <3>2, <3>3 DEF ToPort
  <2>2. ASSUME NEW p \in ToPort(s) PROVE p \in ToPort(s2)
    <3>1. PICK j, i : j \in DOMAIN s /\ i \in DOMAIN s[j].text /\ p = s[j].text[i] /\ ~(i = 1 /\ s[j].sent)
      BY DEF ToPort
    <3>2. ~(j = l /\ i = 1)
      BY <1>0, <1>5, <3>1
    <3>3. PICK k \in DOMAIN s2[j].text : at(j, k) = i
      BY <1>0, <1>7, <3>1, <3>2
    <3>4. j \in DOMAIN s2 /\ p = s2[j].text[k]
      BY <1>0, <1>4, <1>6, <3>1, <3>3
    <3>5. ~(k = 1 /\ s2[j].sent)
      BY <1>0, <1>4, <3>1, <3>3
    <3>6. p \in Char
      BY DEF ToPort
    <3> QED BY <3>4, <3>5, <3>6 DEF ToPort
  <2> QED BY <2>1, <2>2
<1>13. ASSUME NEW p \in ToScreen(s) PROVE p[1] = c[1] /\ (OneText(p, c) /\ p # c => c[3] < p[3])
  <2>1. PICK j, i : j \in DOMAIN s /\ i \in DOMAIN s[j].text /\ p = s[j].text[i]
    BY DEF ToScreen
  <2>2. p[1] = t /\ c[1] = t
    BY <1>0, <1>1, <1>3, <1>5, <2>1 DEF FramesOK
  <2>3. ASSUME OneText(p, c), p # c PROVE c[3] < p[3]
    <3>1. j = l
      BY <1>0, <1>1, <1>3, <1>5, <2>1, <2>3 DEF FramesOK, OneText
    <3>2. 1 < i
      BY <1>0, <1>1, <1>5, <2>1, <2>3, <3>1
    <3> QED BY <1>0, <1>1, <1>3, <1>5, <2>1, <3>1, <3>2 DEF FramesOK
  <2> QED BY <2>2, <2>3
<1> QED BY <1>0, <1>1, <1>4, <1>8, <1>9, <1>11, <1>12, <1>13, EmptySeq DEF c, l

LEMMA JoinAssociative ==
    ASSUME NEW a \in Seq(Char), NEW b \in Seq(Char), NEW c \in Seq(Char)
    PROVE  (a \o b) \o c = a \o (b \o c)
<1>1. (a \o b) \in Seq(Char) /\ (b \o c) \in Seq(Char) /\ Len(a \o b) = Len(a) + Len(b) /\ Len(b \o c) = Len(b) + Len(c)
  BY ConcatProperties
<1> QED BY <1>1

\* A print begins within those a thread is in.
LEMMA TopBegins ==
    ASSUME NEW t \in Printer, NEW tx \in [Who -> Nat], NEW s \in Seq(Frame), FramesOK(t, s, tx[t]),
           NEW s2, s2 = Append(s, [text |-> TextOf(t, tx[t] + 1), sent |-> FALSE])
    PROVE  /\ s2 \in Seq(Frame) /\ s2 # <<>> /\ Len(s2) = Len(s) + 1 /\ FramesOK(t, s2, tx[t] + 1)
           /\ ToScreen(s2) = ToScreen(s) \cup ThisText(t, tx) /\ ToPort(s2) = ToPort(s) \cup ThisText(t, tx)
<1> DEFINE l == Len(s)
           n == tx[t] + 1
           x == TextOf(t, n)
           fr == [text |-> x, sent |-> FALSE]
<1>1. n \in Nat /\ tx[t] \in Nat /\ t \in Who /\ n > tx[t]
  BY DEF Who
<1>2. /\ x \in Seq(Char) /\ DOMAIN x = 1..TextLength /\ x # <<>> /\ TextLength \in Nat
      /\ \A k \in 1..TextLength : x[k][1] = t /\ x[k][2] = n /\ x[k][3] = k
      /\ \A k \in DOMAIN x : x[k] \in Char
      /\ ThisText(t, tx) = {x[k] : k \in DOMAIN x}
  BY <1>1, TextIs, ElementOfSeq DEF ThisText
<1>3. /\ l \in Nat /\ DOMAIN s = 1..l
      /\ \A j \in DOMAIN s : s[j] \in Frame
  BY FramesAre
<1> HIDE DEF x
<1>4. fr \in Frame /\ fr.text = x /\ fr.sent = FALSE
  BY <1>2 DEF Frame
<1> HIDE DEF fr
<1>5. /\ s2 \in Seq(Frame) /\ s2 # <<>> /\ Len(s2) = l + 1 /\ DOMAIN s2 = 1..(l + 1)
      /\ \A j \in DOMAIN s : s2[j] = s[j]
      /\ s2[l + 1] = fr
  <2>1. s2 = Append(s, fr)
    BY DEF fr, x
  <2> QED BY <1>3, <1>4, <2>1, AppendProperties, LenProperties
<1> HIDE DEF l, n
<1>6. \A j \in DOMAIN s2 : j \in DOMAIN s \/ j = l + 1
  BY <1>3, <1>5
<1>6a. l + 1 \in DOMAIN s2 /\ DOMAIN s \subseteq DOMAIN s2 /\ l + 1 \notin DOMAIN s
  BY <1>3, <1>5
<1>7. FramesOK(t, s2, n)
  <2>1. ASSUME NEW j \in DOMAIN s2, s2[j].sent PROVE s2[j].text # <<>>
    BY <1>2, <1>4, <1>5, <1>6, <2>1 DEF FramesOK
  <2>2. ASSUME NEW j \in DOMAIN s2, NEW i \in DOMAIN s2[j].text
        PROVE  s2[j].text[i][1] = t /\ s2[j].text[i][2] \in 1..n /\ s2[j].text[i][3] \in 1..TextLength
    <3>1. CASE j \in DOMAIN s
      <4>1. s[j].text[i][1] = t /\ s[j].text[i][2] \in 1..tx[t] /\ s[j].text[i][3] \in 1..TextLength
        BY <1>5, <2>2, <3>1 DEF FramesOK
      <4> QED BY <1>1, <1>5, <3>1, <4>1
    <3>2. CASE j = l + 1
      <4>1. i \in 1..TextLength /\ s2[j].text[i] = x[i]
        BY <1>2, <1>4, <1>5, <2>2, <3>2
      <4>2. n \in 1..n
        BY <1>1
      <4> QED BY <1>2, <4>1, <4>2
    <3> QED BY <1>6, <3>1, <3>2
  <2>3. ASSUME NEW j \in DOMAIN s2, NEW i \in DOMAIN s2[j].text, NEW k \in DOMAIN s2[j].text
        PROVE  s2[j].text[i][2] = s2[j].text[k][2] /\ (i < k => s2[j].text[i][3] < s2[j].text[k][3])
    <3>1. CASE j \in DOMAIN s
      BY <1>5, <2>3, <3>1 DEF FramesOK
    <3>2. CASE j = l + 1
      <4>1. s2[j].text = x
        BY <1>4, <1>5, <3>2
      <4>2. i \in 1..TextLength /\ k \in 1..TextLength
        BY <1>2, <2>3, <4>1
      <4> QED BY <1>2, <4>1, <4>2
    <3> QED BY <1>6, <3>1, <3>2
  <2>4. ASSUME NEW j \in DOMAIN s, NEW i \in DOMAIN s2[j].text, NEW k \in DOMAIN s2[l + 1].text
        PROVE  s2[j].text[i][2] # s2[l + 1].text[k][2]
    <3>1. s2[j].text[i][2] \in 1..tx[t]
      BY <1>5, <2>4 DEF FramesOK
    <3>2. s2[l + 1].text[k][2] = n
      BY <1>2, <1>4, <1>5, <2>4
    <3>3. ~(n \in 1..tx[t])
      BY <1>1
    <3> QED BY <3>1, <3>2, <3>3
  <2>5. ASSUME NEW j \in DOMAIN s2, NEW m \in DOMAIN s2, NEW i \in DOMAIN s2[j].text, NEW k \in DOMAIN s2[m].text,
               s2[j].text[i][2] = s2[m].text[k][2]
        PROVE  j = m
    <3>1. CASE j \in DOMAIN s /\ m \in DOMAIN s
      BY <1>5, <2>5, <3>1 DEF FramesOK
    <3> QED BY <1>6, <2>4, <2>5, <3>1
  <2> QED BY <2>1, <2>2, <2>3, <2>5 DEF FramesOK
<1>8. ASSUME NEW p \in Char PROVE p \in ToScreen(s2) <=> p \in ToScreen(s) \/ p \in ThisText(t, tx)
  <2>1. ASSUME p \in ToScreen(s2) PROVE p \in ToScreen(s) \/ p \in ThisText(t, tx)
    <3>1. PICK j, i : j \in DOMAIN s2 /\ i \in DOMAIN s2[j].text /\ p = s2[j].text[i]
      BY <2>1 DEF ToScreen
    <3>2. CASE j \in DOMAIN s
      BY <1>5, <3>1, <3>2 DEF ToScreen
    <3>3. CASE j = l + 1
      BY <1>2, <1>4, <1>5, <3>1, <3>3
    <3> QED BY <1>6, <3>1, <3>2, <3>3
  <2>2. ASSUME p \in ToScreen(s) PROVE p \in ToScreen(s2)
    BY <1>5, <1>6a, <2>2 DEF ToScreen
  <2>3. ASSUME p \in ThisText(t, tx) PROVE p \in ToScreen(s2)
    <3>1. PICK i \in DOMAIN x : p = x[i]
      BY <1>2, <2>3
    <3>2. l + 1 \in DOMAIN s2 /\ i \in DOMAIN s2[l + 1].text /\ p = s2[l + 1].text[i] /\ ~s2[l + 1].sent
      BY <1>4, <1>5, <1>6a, <3>1
    <3> QED BY <3>2 DEF ToScreen
  <2> QED BY <2>1, <2>2, <2>3
<1>9. ASSUME NEW p \in Char PROVE p \in ToPort(s2) <=> p \in ToPort(s) \/ p \in ThisText(t, tx)
  <2>1. ASSUME p \in ToPort(s2) PROVE p \in ToPort(s) \/ p \in ThisText(t, tx)
    <3>1. PICK j, i : j \in DOMAIN s2 /\ i \in DOMAIN s2[j].text /\ p = s2[j].text[i] /\ ~(i = 1 /\ s2[j].sent)
      BY <2>1 DEF ToPort
    <3>2. CASE j \in DOMAIN s
      BY <1>5, <3>1, <3>2 DEF ToPort
    <3>3. CASE j = l + 1
      BY <1>2, <1>4, <1>5, <3>1, <3>3
    <3> QED BY <1>6, <3>1, <3>2, <3>3
  <2>2. ASSUME p \in ToPort(s) PROVE p \in ToPort(s2)
    BY <1>5, <1>6a, <2>2 DEF ToPort
  <2>3. ASSUME p \in ThisText(t, tx) PROVE p \in ToPort(s2)
    <3>1. PICK i \in DOMAIN x : p = x[i]
      BY <1>2, <2>3
    <3>2. l + 1 \in DOMAIN s2 /\ i \in DOMAIN s2[l + 1].text /\ p = s2[l + 1].text[i] /\ ~s2[l + 1].sent
      BY <1>4, <1>5, <1>6a, <3>1
    <3> QED BY <3>2 DEF ToPort
  <2> QED BY <2>1, <2>2, <2>3
<1>10. /\ ToScreen(s2) \subseteq Char /\ ToScreen(s) \subseteq Char /\ ToPort(s2) \subseteq Char /\ ToPort(s) \subseteq Char
       /\ ThisText(t, tx) \subseteq Char
  BY <1>2 DEF ToScreen, ToPort
<1> QED BY <1>5, <1>7, <1>8, <1>9, <1>10 DEF l, n

WithoutTop(s) == SubSeq(s, 1, Len(s) - 1)

\* The innermost print ends.
LEMMA TopEnds ==
    ASSUME NEW t \in Printer, NEW n, NEW s \in Seq(Frame), FramesOK(t, s, n), s # <<>>, s[Len(s)].text = <<>>,
           NEW s2, s2 = WithoutTop(s)
    PROVE  /\ s2 \in Seq(Frame) /\ Len(s2) = Len(s) - 1 /\ FramesOK(t, s2, n)
           /\ ToScreen(s2) = ToScreen(s) /\ ToPort(s2) = ToPort(s)
           /\ s2 = <<>> <=> Len(s) = 1
<1> DEFINE l == Len(s)
<1>1. l \in Nat /\ DOMAIN s = 1..l /\ l > 0 /\ \A j \in DOMAIN s : s[j] \in Frame
  BY FramesAre, EmptySeq
<1>2. s2 \in Seq(Frame) /\ Len(s2) = l - 1 /\ DOMAIN s2 = 1..(l - 1) /\ \A j \in DOMAIN s2 : s2[j] = s[j]
  <2>1. \A i \in 1..(l - 1) : s[i] \in Frame
    BY <1>1
  <2>2. /\ s2 \in Seq(Frame) /\ Len(s2) = IF 1 <= l - 1 THEN l - 1 - 1 + 1 ELSE 0
        /\ \A i \in 1..(l - 1 - 1 + 1) : s2[i] = s[1 + i - 1]
    BY <1>1, <2>1, SubSeqProperties DEF WithoutTop
  <2>3. Len(s2) = l - 1 /\ \A i \in 1..(l - 1) : s2[i] = s[i]
    <3> HIDE DEF l
    <3>1. Len(s2) = l - 1
      BY <1>1, <2>2
    <3>2. ASSUME NEW i \in 1..(l - 1) PROVE s2[i] = s[i]
      <4>1. i \in 1..(l - 1 - 1 + 1) /\ 1 + i - 1 = i
        BY <1>1
      <4>2. s2[i] = s[1 + i - 1]
        BY <2>2, <4>1
      <4> QED BY <4>1, <4>2
    <3> QED BY <3>1, <3>2
  <2>4. DOMAIN s2 = 1..(l - 1)
    BY <2>2, <2>3, LenProperties
  <2> QED BY <2>2, <2>3, <2>4
<1> HIDE DEF l
<1>3. /\ DOMAIN s2 \subseteq DOMAIN s
      /\ \A j \in DOMAIN s : \A i \in DOMAIN s[j].text : j \in DOMAIN s2
  <2>1. ASSUME NEW j \in DOMAIN s, NEW i \in DOMAIN s[j].text PROVE j # l
    <3>1. DOMAIN <<>> = {}
      OBVIOUS
    <3> QED BY <3>1, <2>1 DEF l
  <2> QED BY <1>1, <1>2, <2>1
<1>4. FramesOK(t, s2, n)
  BY <1>2, <1>3 DEF FramesOK
<1>5. ToScreen(s2) = ToScreen(s)
  BY <1>2, <1>3 DEF ToScreen
<1>6. ToPort(s2) = ToPort(s)
  BY <1>2, <1>3 DEF ToPort
<1>7. s2 = <<>> <=> l = 1
  <2>1. s2 = <<>> <=> Len(s2) = 0
    BY <1>2, EmptySeq
  <2> QED BY <1>1, <1>2, <2>1
<1> QED BY <1>2, <1>4, <1>5, <1>6, <1>7 DEF l

-----------------------------------------------------------------------------
(* The port.                                                               *)

Ports == [mode : {"UNINIT", "POLL", "QUEUE"}, txq : Seq(Char), sent : Seq(Char), xmit : BOOLEAN]

\* What was given to the port, sent or not.
Taken(s) == s.sent \o s.txq

\* The port interrupts while there is something to send, and has no queue before it is told to.
PortReady(s) == (s.mode # "QUEUE" => s.txq = <<>>) /\ (s.txq # <<>> => s.xmit)

LEMMA PutKeeps ==
    ASSUME NEW s \in Ports, PortReady(s), NEW c \in Char
    PROVE  /\ serial_putc(s, c) \in Ports /\ PortReady(serial_putc(s, c))
           /\ Taken(serial_putc(s, c)) = Append(Taken(s), c)
           /\ serial_putc(s, c).mode = "QUEUE" <=> s.mode = "QUEUE"
           /\ \A d : Shows(serial_putc(s, c).txq, d) => d = c \/ Shows(s.txq, d)
<1> DEFINE s2 == serial_putc(s, c)
<1>1. s.txq \in Seq(Char) /\ s.sent \in Seq(Char) /\ <<>> \in Seq(Char) /\ <<c>> \in Seq(Char)
  BY DEF Ports
<1>2. CASE s.mode # "QUEUE"
  <2>1. s2 = [s EXCEPT !.mode = "POLL", !.sent = Append(@, c)]
    BY <1>2 DEF serial_putc
  <2>2. s2 \in Ports /\ s2.mode = "POLL" /\ s2.sent = Append(s.sent, c) /\ s2.txq = s.txq /\ s2.xmit = s.xmit
    <3>1. Append(s.sent, c) \in Seq(Char)
      BY <1>1, AppendProperties
    <3> QED BY <2>1, <3>1 DEF Ports
  <2>3. s.txq = <<>>
    BY <1>2 DEF PortReady
  <2>4. Taken(s2) = Append(s.sent, c) /\ Taken(s) = s.sent
    BY <1>1, <2>2, <2>3, ConcatEmptySeq, AppendProperties DEF Taken
  <2> HIDE DEF s2
  <2>5. PortReady(s2)
    BY <2>2, <2>3 DEF PortReady
  <2> QED BY <1>2, <2>2, <2>4, <2>5 DEF s2
<1>3. CASE s.mode = "QUEUE" /\ Len(s.txq) < TxqSize
  <2>1. s2 = write_ier([s EXCEPT !.txq = Append(@, c)])
    BY <1>3 DEF serial_putc
  <2>2. Append(s.txq, c) \in Seq(Char) /\ Append(s.txq, c) # <<>>
    BY <1>1, AppendProperties
  <2>3. s2 \in Ports /\ s2.mode = "QUEUE" /\ s2.sent = s.sent /\ s2.txq = Append(s.txq, c) /\ s2.xmit = TRUE
    BY <1>3, <2>1, <2>2 DEF Ports, write_ier
  <2> HIDE DEF s2
  <2>4. Taken(s2) = Append(Taken(s), c)
    <3>1. Append(s.txq, c) = s.txq \o <<c>>
      BY <1>1, AppendIsConcat
    <3>2. s.sent \o s.txq \in Seq(Char)
      BY <1>1, ConcatProperties
    <3>3. (s.sent \o s.txq) \o <<c>> = s.sent \o (s.txq \o <<c>>)
      BY <1>1, JoinAssociative
    <3>4. Append(s.sent \o s.txq, c) = (s.sent \o s.txq) \o <<c>>
      BY <3>2, AppendIsConcat
    <3> QED BY <2>3, <3>1, <3>3, <3>4 DEF Taken
  <2>5. \A d : Shows(s2.txq, d) => d = c \/ Shows(s.txq, d)
    BY <1>1, <2>3, ShowsAppended
  <2> QED BY <1>3, <2>3, <2>4, <2>5 DEF PortReady, s2
<1>4. CASE s.mode = "QUEUE" /\ ~(Len(s.txq) < TxqSize)
  <2> DEFINE h == Head(s.txq)
             r == Tail(s.txq)
  <2>1. s2 = write_ier([s EXCEPT !.sent = Append(@, h), !.txq = Append(r, c)])
    BY <1>4 DEF serial_putc
  <2>2. s.txq # <<>>
    <3>1. Len(s.txq) # 0
      BY <1>1, <1>4, ConsoleAssumption, LenProperties
    <3> QED BY <3>1, EmptySeq
  <2>3. h \in Char /\ r \in Seq(Char) /\ s.txq = <<h>> \o r /\ Append(s.sent, h) \in Seq(Char)
    BY <1>1, <2>2, HeadTailProperties, AppendProperties
  <2>4. Append(r, c) \in Seq(Char) /\ Append(r, c) # <<>>
    BY <2>3, AppendProperties
  <2> HIDE DEF h, r
  <2>5. s2 \in Ports /\ s2.mode = "QUEUE" /\ s2.sent = Append(s.sent, h) /\ s2.txq = Append(r, c) /\ s2.xmit = TRUE
    BY <1>4, <2>1, <2>3, <2>4 DEF Ports, write_ier
  <2> HIDE DEF s2
  <2>6. Taken(s2) = Append(Taken(s), c)
    <3>1. <<h>> \in Seq(Char)
      BY <2>3
    <3>2. Append(s.sent, h) \o r = s.sent \o s.txq
      <4>1. Append(s.sent, h) = s.sent \o <<h>>
        BY <1>1, <2>3, AppendIsConcat
      <4>2. (s.sent \o <<h>>) \o r = s.sent \o (<<h>> \o r)
        BY <1>1, <2>3, <3>1, JoinAssociative
      <4> QED BY <2>3, <4>1, <4>2
    <3>3. Append(s.sent, h) \o Append(r, c) = (Append(s.sent, h) \o r) \o <<c>>
      <4>1. Append(r, c) = r \o <<c>>
        BY <2>3, AppendIsConcat
      <4>2. (Append(s.sent, h) \o r) \o <<c>> = Append(s.sent, h) \o (r \o <<c>>)
        BY <1>1, <2>3, JoinAssociative
      <4> QED BY <4>1, <4>2
    <3>4. s.sent \o s.txq \in Seq(Char)
      BY <1>1, ConcatProperties
    <3> QED BY <2>5, <3>2, <3>3, <3>4, AppendIsConcat DEF Taken
  <2>7. \A d : Shows(s2.txq, d) => d = c \/ Shows(s.txq, d)
    <3>1. \A d : Shows(s2.txq, d) => d = c \/ Shows(r, d)
      BY <2>3, <2>5, ShowsAppended
    <3>2. ASSUME NEW d, Shows(r, d) PROVE Shows(s.txq, d)
      <4>1. PICK i \in DOMAIN r : r[i] = d
        BY <3>2 DEF Shows
      <4>2. i + 1 \in DOMAIN s.txq /\ s.txq[i + 1] = r[i]
        BY <1>1, <2>2, HeadTailProperties, LenProperties DEF r
      <4> QED BY <4>1, <4>2 DEF Shows
    <3> QED BY <3>1, <3>2
  <2> QED BY <1>4, <2>5, <2>6, <2>7 DEF PortReady, s2
<1> QED BY <1>2, <1>3, <1>4

Below == {p \in Nat \X Nat : p[1] < p[2]}

LEMMA LeastIn ==
    ASSUME NEW S \in SUBSET Nat, S # {}
    PROVE  \E n \in S : \A m \in S : n <= m
<1>1. IsWellFoundedOn(Below, Nat)
  BY NatLessThanWellFounded DEF OpToRel, Below
<1>2. PICK x \in S : \A y \in S : ~(<<y, x>> \in Below)
  BY <1>1, WFMin
<1>3. ASSUME NEW y \in S PROVE x <= y
  <2>1. x \in Nat /\ y \in Nat
    OBVIOUS
  <2>2. ~(y < x)
    BY <1>2, <2>1 DEF Below
  <2> QED BY <2>1, <2>2
<1> QED BY <1>3

LEMMA FlushKeeps ==
    ASSUME NEW s \in Ports
    PROVE  /\ serial_flush(s) \in Ports /\ PortReady(serial_flush(s)) /\ serial_flush(s).txq = <<>>
           /\ Taken(serial_flush(s)) = Taken(s)
           /\ serial_flush(s).mode = s.mode
<1>1. s.txq \in Seq(Char) /\ s.sent \in Seq(Char) /\ <<>> \in Seq(Char)
  BY DEF Ports
<1>2. s.sent \o s.txq \in Seq(Char)
  BY <1>1, ConcatProperties
<1>3. /\ serial_flush(s) \in Ports /\ serial_flush(s).txq = <<>> /\ serial_flush(s).sent = s.sent \o s.txq
      /\ serial_flush(s).mode = s.mode
  BY <1>1, <1>2 DEF serial_flush, Ports
<1>4. Taken(serial_flush(s)) = Taken(s)
  BY <1>2, <1>3, ConcatEmptySeq DEF Taken
<1> QED BY <1>3, <1>4 DEF PortReady

\* Some characters go out, from the front of the queue.
PortTook(s, n) == write_ier([s EXCEPT !.sent = @ \o SubSeq(s.txq, 1, n), !.txq = SubSeq(@, n + 1, Len(@))])

LEMMA PortTakes ==
    ASSUME NEW s \in Ports, PortReady(s), NEW n \in 0..Len(s.txq),
           NEW s2, s2 = PortTook(s, n)
    PROVE  /\ s2 \in Ports /\ PortReady(s2) /\ Taken(s2) = Taken(s) /\ s2.mode = s.mode
           /\ \A d : Shows(s2.txq, d) => Shows(s.txq, d)
<1> DEFINE q == s.txq
           a == SubSeq(q, 1, n)
           b == SubSeq(q, n + 1, Len(q))
<1>1. q \in Seq(Char) /\ s.sent \in Seq(Char) /\ Len(q) \in Nat /\ DOMAIN q = 1..Len(q) /\ \A i \in DOMAIN q : q[i] \in Char
  BY LenProperties, ElementOfSeq DEF Ports
<1>2. /\ a \in Seq(Char) /\ b \in Seq(Char) /\ Len(a) = n /\ Len(b) = Len(q) - n
      /\ \A i \in 1..n : a[i] = q[i]
      /\ \A i \in 1..(Len(q) - n) : b[i] = q[n + i]
  BY <1>1
<1>3. a \o b = q
  <2>1. a \o b \in Seq(Char) /\ Len(a \o b) = Len(q)
    <3> HIDE DEF a, b, q
    <3>1. a \o b \in Seq(Char) /\ Len(a \o b) = Len(a) + Len(b)
      BY <1>2, ConcatProperties
    <3> QED BY <1>1, <1>2, <3>1
  <2>2. ASSUME NEW i \in 1..Len(q) PROVE (a \o b)[i] = q[i]
    <3> HIDE DEF a, b, q
    <3>1. i \in 1..Len(a) + Len(b)
      BY <1>1, <1>2
    <3>2. (a \o b)[i] = IF i <= Len(a) THEN a[i] ELSE b[i - Len(a)]
      BY <1>2, <3>1, ConcatProperties
    <3>3. CASE i <= n
      BY <1>1, <1>2, <3>2, <3>3
    <3>4. CASE ~(i <= n)
      <4>1. i - n \in 1..(Len(q) - n) /\ n + (i - n) = i
        BY <1>1, <3>4
      <4> QED BY <1>2, <3>2, <3>4, <4>1
    <3> QED BY <3>3, <3>4
  <2> HIDE DEF a, b, q
  <2> QED BY <1>1, <2>1, <2>2, SeqEqual
<1> HIDE DEF a, b
<1>4. s.sent \o a \in Seq(Char)
  BY <1>1, <1>2, ConcatProperties
<1>5. /\ s2 \in Ports /\ s2.sent = s.sent \o a /\ s2.txq = b /\ s2.mode = s.mode /\ s2.xmit = (b # <<>>)
  <2>1. s2 = write_ier([s EXCEPT !.sent = @ \o a, !.txq = b])
    BY DEF a, b, PortTook
  <2> QED BY <1>2, <1>4, <2>1 DEF Ports, write_ier
<1>6. Taken(s2) = Taken(s)
  <2>1. (s.sent \o a) \o b = s.sent \o (a \o b)
    BY <1>1, <1>2, JoinAssociative
  <2> QED BY <1>3, <1>5, <2>1 DEF Taken
<1>7. ASSUME NEW d, Shows(b, d) PROVE Shows(q, d)
  <2>1. PICK i \in DOMAIN b : b[i] = d
    BY <1>7 DEF Shows
  <2>2. i \in 1..(Len(q) - n)
    BY <1>2, LenProperties
  <2>3. n + i \in DOMAIN q /\ q[n + i] = d
    BY <1>1, <1>2, <2>1, <2>2
  <2> QED BY <2>3 DEF Shows
<1>8. s.mode # "QUEUE" => b = <<>>
  <2>1. ASSUME q = <<>> PROVE b = <<>>
    <3>1. Len(q) = 0 /\ n = 0
      BY <2>1
    <3> QED BY <1>2, <3>1, EmptySeq
  <2> QED BY <2>1 DEF PortReady
<1> QED BY <1>5, <1>6, <1>7, <1>8 DEF PortReady

\* The port gets its queue, and interrupts.
LEMMA QueueStarts ==
    ASSUME NEW s \in Ports, NEW s2, s2 = write_ier([s EXCEPT !.mode = "QUEUE"])
    PROVE  /\ s2 \in Ports /\ PortReady(s2) /\ Taken(s2) = Taken(s) /\ s2.mode = "QUEUE" /\ s2.txq = s.txq
BY DEF Ports, write_ier, PortReady, Taken

-----------------------------------------------------------------------------
(* The message of a panic goes to the port character by character.         *)

PutFrom(g, s, m, n) == g = [k \in 0..n |-> IF k = 0 THEN s ELSE serial_putc(g[k - 1], m[k])]

LEMMA PutExists ==
    ASSUME NEW s, NEW m, NEW n \in Nat
    PROVE  \E g : PutFrom(g, s, m, n)
<1> DEFINE B == {k \in Nat : ~\E g : PutFrom(g, s, m, k)}
<1>1. SUFFICES ASSUME B # {} PROVE FALSE
  OBVIOUS
<1>2. PICK k \in B : \A j \in B : k <= j
  BY <1>1, LeastIn
<1>3. CASE k = 0
  <2> DEFINE g == [j \in 0..0 |-> s]
  <2>1. PutFrom(g, s, m, 0)
    BY DEF PutFrom
  <2> QED BY <1>2, <1>3, <2>1
<1>4. CASE k # 0
  <2>1. k - 1 \in Nat /\ k - 1 \notin B
    BY <1>2, <1>4
  <2>2. PICK h : PutFrom(h, s, m, k - 1)
    BY <2>1
  <2> DEFINE g == [j \in 0..k |-> IF j = k THEN serial_putc(h[k - 1], m[k]) ELSE h[j]]
  <2>3. ASSUME NEW j \in 0..k PROVE g[j] = IF j = 0 THEN s ELSE serial_putc(g[j - 1], m[j])
    <3>1. CASE j = k
      <4>1. g[j - 1] = h[k - 1]
        BY <2>1, <3>1
      <4> QED BY <1>4, <3>1, <4>1
    <3>2. CASE j # k
      <4>1. j \in 0..(k - 1) /\ g[j] = h[j] /\ (j # 0 => g[j - 1] = h[j - 1])
        BY <2>1, <3>2
      <4>2. h[j] = IF j = 0 THEN s ELSE serial_putc(h[j - 1], m[j])
        BY <2>2, <4>1 DEF PutFrom
      <4> QED BY <4>1, <4>2
    <3> QED BY <3>1, <3>2
  <2>4. g = [j \in 0..k |-> g[j]]
    OBVIOUS
  <2> HIDE DEF g
  <2>5. PutFrom(g, s, m, k)
    BY <2>3, <2>4 DEF PutFrom
  <2> QED BY <1>2, <2>5
<1> QED BY <1>3, <1>4

LEMMA PutAll ==
    ASSUME NEW s \in Ports, PortReady(s), NEW m \in Seq(Char), NEW n \in Nat, Len(m) = n, NEW g, PutFrom(g, s, m, n)
    PROVE  g[n] \in Ports /\ PortReady(g[n]) /\ Taken(g[n]) = Taken(s) \o m /\ (g[n].mode = "QUEUE" <=> s.mode = "QUEUE")
<1> DEFINE Good(k) == /\ g[k] \in Ports /\ PortReady(g[k]) /\ Taken(g[k]) = Taken(s) \o SubSeq(m, 1, k)
                      /\ g[k].mode = "QUEUE" <=> s.mode = "QUEUE"
           B == {k \in 0..n : ~Good(k)}
<1>0. /\ \A k \in 0..n : g[k] = IF k = 0 THEN s ELSE serial_putc(g[k - 1], m[k])
      /\ \A k \in 1..n : m[k] \in Char
      /\ Taken(s) \in Seq(Char)
  BY ElementOfSeq, ConcatProperties DEF PutFrom, Taken, Ports
<1>1. B = {}
  <2> SUFFICES ASSUME B # {} PROVE FALSE
    OBVIOUS
  <2>1. B \in SUBSET Nat
    OBVIOUS
  <2>2. PICK k \in B : \A j \in B : k <= j
    BY <2>1, LeastIn
  <2>3. k \in 0..n /\ ~Good(k)
    BY <2>2
  <2>4. CASE k = 0
    <3>1. SubSeq(m, 1, 0) = <<>> /\ g[0] = s
      BY <1>0
    <3>2. Taken(s) \o <<>> = Taken(s)
      BY <1>0, ConcatEmptySeq
    <3> QED BY <2>3, <2>4, <3>1, <3>2
  <2>5. CASE k # 0
    <3>1. k \in 1..n /\ k - 1 \in 0..n /\ k - 1 \notin B
      <4>1. k \in 1..n /\ k - 1 \in 0..n /\ ~(k <= k - 1)
        BY <2>3, <2>5
      <4> HIDE DEF B
      <4> QED BY <2>2, <4>1
    <3>2. Good(k - 1)
      BY <3>1
    <3>3. g[k] = serial_putc(g[k - 1], m[k]) /\ m[k] \in Char
      BY <1>0, <3>1, <2>5
    <3>4. /\ g[k] \in Ports /\ PortReady(g[k]) /\ Taken(g[k]) = Append(Taken(g[k - 1]), m[k])
          /\ g[k].mode = "QUEUE" <=> g[k - 1].mode = "QUEUE"
      BY <3>2, <3>3, PutKeeps
    <3>5. Append(Taken(s) \o SubSeq(m, 1, k - 1), m[k]) = Taken(s) \o SubSeq(m, 1, k)
      <4>1. SubSeq(m, 1, k) = Append(SubSeq(m, 1, k - 1), m[k]) /\ SubSeq(m, 1, k - 1) \in Seq(Char)
        BY <3>1, <3>3
      <4>2. SubSeq(m, 1, k) = SubSeq(m, 1, k - 1) \o <<m[k]>>
        BY <3>3, <4>1, AppendIsConcat
      <4>3. Taken(s) \o SubSeq(m, 1, k - 1) \in Seq(Char)
        BY <1>0, <4>1, ConcatProperties
      <4>4. <<m[k]>> \in Seq(Char)
        BY <3>3
      <4>5. (Taken(s) \o SubSeq(m, 1, k - 1)) \o <<m[k]>> = Taken(s) \o (SubSeq(m, 1, k - 1) \o <<m[k]>>)
        BY <1>0, <4>1, <4>4, JoinAssociative
      <4>6. Append(Taken(s) \o SubSeq(m, 1, k - 1), m[k]) = (Taken(s) \o SubSeq(m, 1, k - 1)) \o <<m[k]>>
        BY <3>3, <4>3, AppendIsConcat
      <4> QED BY <4>2, <4>5, <4>6
    <3> QED BY <2>3, <3>2, <3>4, <3>5
  <2> QED BY <2>4, <2>5
<1>2. Good(n)
  <2>1. n \in 0..n
    OBVIOUS
  <2> HIDE DEF Good
  <2> QED BY <1>1, <2>1
<1>3. SubSeq(m, 1, n) = m
  BY SubSeqFull
<1> QED BY <1>2, <1>3

\* What the port has taken when the kernel stopped.
LEMMA PanicSends ==
    ASSUME NEW t \in Printer, texts \in [Who -> Nat], serial \in Ports, PortReady(serial), debug_panic(t)
    PROVE  /\ serial' \in Ports /\ PortReady(serial') /\ serial'.txq = <<>>
           /\ Taken(serial') = Taken(serial) \o TextOf(t, texts[t] + 1)
           /\ serial'.mode = "QUEUE" <=> serial.mode = "QUEUE"
<1> DEFINE m == TextOf(t, texts[t] + 1)
<1>1. m \in Seq(Char) /\ Len(m) = TextLength /\ TextLength \in Nat
  BY TextIs DEF Who
<1> HIDE DEF m
<1> DEFINE put == CHOOSE g : PutFrom(g, serial, m, TextLength)
<1>2. PutFrom(put, serial, m, TextLength)
  BY <1>1, PutExists
<1>3. serial' = serial_flush(put[TextLength])
  BY DEF debug_panic, PutFrom, m
<1> HIDE DEF put
<1>4. /\ put[TextLength] \in Ports /\ Taken(put[TextLength]) = Taken(serial) \o m
      /\ put[TextLength].mode = "QUEUE" <=> serial.mode = "QUEUE"
  BY <1>1, <1>2, PutAll
<1> QED BY <1>3, <1>4, FlushKeeps DEF m

-----------------------------------------------------------------------------
(* What is still to come, of all threads.                                  *)

With(a, b, X) == a = b \cup X

LEMMA StillToCome ==
    ASSUME NEW st, NEW st2, NEW t \in Printer, NEW X, \A u \in Printer \ {t} : st2[u] = st[u],
           With(ToScreen(st2[t]), ToScreen(st[t]), X), With(ToPort(st2[t]), ToPort(st[t]), X)
    PROVE  With(ForScreen(st2), ForScreen(st), X) /\ With(ForPort(st2), ForPort(st), X)
<1>0. ToScreen(st2[t]) = ToScreen(st[t]) \cup X /\ ToPort(st2[t]) = ToPort(st[t]) \cup X
  BY DEF With
<1>1. \A u \in Printer : u = t \/ st2[u] = st[u]
  OBVIOUS
<1>2. ForScreen(st2) = ForScreen(st) \cup X
  <2>1. ASSUME NEW c \in ForScreen(st2) PROVE c \in ForScreen(st) \cup X
    BY <1>0, <1>1 DEF ForScreen
  <2>2. ASSUME NEW c \in ForScreen(st) PROVE c \in ForScreen(st2)
    BY <1>0, <1>1 DEF ForScreen
  <2>3. ASSUME NEW c \in X PROVE c \in ForScreen(st2)
    BY <1>0, <1>1 DEF ForScreen
  <2> QED BY <2>1, <2>2, <2>3
<1>3. ForPort(st2) = ForPort(st) \cup X
  <2>1. ASSUME NEW c \in ForPort(st2) PROVE c \in ForPort(st) \cup X
    BY <1>0, <1>1 DEF ForPort
  <2>2. ASSUME NEW c \in ForPort(st) PROVE c \in ForPort(st2)
    BY <1>0, <1>1 DEF ForPort
  <2>3. ASSUME NEW c \in X PROVE c \in ForPort(st2)
    BY <1>0, <1>1 DEF ForPort
  <2> QED BY <2>1, <2>2, <2>3
<1> QED BY <1>2, <1>3 DEF With

LEMMA NothingToCome == ToScreen(<<>>) = {} /\ ToPort(<<>>) = {} /\ \A t, n : FramesOK(t, <<>>, n)
<1>1. DOMAIN <<>> = {}
  OBVIOUS
<1> QED BY <1>1 DEF ToScreen, ToPort, FramesOK

\* What is still to come when one thread prints.
LEMMA Alone ==
    ASSUME NEW st, NEW t \in Printer, \A u \in Printer \ {t} : st[u] = <<>>
    PROVE  ForScreen(st) = ToScreen(st[t]) /\ ForPort(st) = ToPort(st[t])
<1>1. ASSUME NEW c \in ForScreen(st) PROVE c \in ToScreen(st[t])
  BY NothingToCome DEF ForScreen
<1>2. ASSUME NEW c \in ForPort(st) PROVE c \in ToPort(st[t])
  BY NothingToCome DEF ForPort
<1>3. ToScreen(st[t]) \subseteq ForScreen(st) /\ ToPort(st[t]) \subseteq ForPort(st)
  BY DEF ForScreen, ForPort
<1> QED BY <1>1, <1>2, <1>3

LEMMA PendingIs ==
    ASSUME stack \in [Printer -> Seq(Frame)], texts \in [Who -> Nat], \A t \in Printer : FramesOK(t, stack[t], texts[t])
    PROVE  /\ ForScreen(stack) \subseteq Begun(texts) /\ ForPort(stack) \subseteq Begun(texts)
           /\ \A c \in ForScreen(stack) : c[1] \in Printer
           /\ \A c \in ForPort(stack) : c[1] \in Printer
<1>1. \A t \in Printer : /\ ToScreen(stack[t]) \subseteq Begun(texts) /\ ToPort(stack[t]) \subseteq ToScreen(stack[t])
                         /\ \A c \in ToScreen(stack[t]) : c[1] = t
  BY OwnTexts
<1> QED BY <1>1 DEF ForScreen, ForPort

LEMMA FramesGrow ==
    ASSUME NEW t, NEW s, NEW n \in Nat, FramesOK(t, s, n), NEW m \in Nat, n <= m
    PROVE  FramesOK(t, s, m)
<1>1. \A k \in 1..n : k \in 1..m
  OBVIOUS
<1> QED BY <1>1 DEF FramesOK

\* Only one thread prints at a time.
LEMMA OnePrinter ==
    ASSUME ConsoleLockInv, NEW t \in Printer, stack[t] # <<>>
    PROVE  \A u \in Printer \ {t} : stack[u] = <<>>
BY DEF ConsoleLockInv

\* The port while the kernel runs.
LEMMA PortIs ==
    ASSUME ConsoleInv
    PROVE  /\ serial \in Ports /\ Taken(serial) = given /\ (On => PortReady(serial))
           /\ given \in Seq(Char) /\ shown \in Seq(Char)
           /\ Nobody \notin Printer /\ Nobody \in Who /\ Printer \subseteq Who /\ Main \in Printer
           /\ (On => ~panicking)
BY ConsoleAssumption DEF ConsoleInv, ConsoleTypeOK, PrintsInv, PortInv, Ports, Taken, PortReady, Said, Who, On

LEMMA PortSays ==
    ASSUME serial' \in Ports, Taken(serial') = given', On' => PortReady(serial'), serial'.mode # "QUEUE" => serial'.txq = <<>>,
           serial'.mode = "QUEUE" => boot' = "running", panicking' => halted' # Nobody,
           \A t \in leaving' : stack'[t] = <<>> /\ ~\E c : c[1] = t /\ Shows(serial'.txq, c),
           halted' # Nobody => ~\E c : c[1] = halted' /\ Shows(serial'.txq, c)
    PROVE  PortInv'
BY DEF PortInv, Taken, PortReady, Shows, On

LEMMA PrintsStay ==
    ASSUME PrintsInv, UNCHANGED <<stack, texts, given, shown>>, On' => On
    PROVE  PrintsInv'
BY DEF PrintsInv, On

LEMMA LocksStay ==
    ASSUME ConsoleLockInv, UNCHANGED <<boot, console_lock, console_lock_depth, stack>> PROVE ConsoleLockInv'
BY DEF ConsoleLockInv

-----------------------------------------------------------------------------
(* The steps keep the invariant.                                           *)

LEMMA ConsoleStuttersKeeps == ASSUME ConsoleInv, UNCHANGED consoleVars PROVE ConsoleInv'
<1>1. ConsoleTypeOK'
  BY DEF consoleVars, ConsoleInv, ConsoleTypeOK
<1>2. PortInv'
  BY DEF consoleVars, ConsoleInv, PortInv, On
<1> QED BY <1>1, <1>2, PrintsStay, LocksStay DEF consoleVars, ConsoleInv, On

LEMMA StartKeeps == ASSUME ConsoleInv, console_init \/ thread_start PROVE ConsoleInv'
<1>1. ConsoleTypeOK'
  BY DEF console_init, thread_start, ConsoleInv, ConsoleTypeOK
<1>2. PortInv'
  <2>1. PortInv /\ UNCHANGED <<panicking, leaving, halted, serial, stack, given>> /\ boot # "running"
    BY DEF console_init, thread_start, ConsoleInv
  <2>2. serial.mode # "QUEUE"
    BY <2>1 DEF PortInv
  <2> QED BY <2>1, <2>2 DEF PortInv, On
<1>3. PrintsInv' /\ (On' <=> On)
  BY PrintsStay DEF console_init, thread_start, ConsoleInv, On
<1>4. ASSUME On PROVE ConsoleLockInv'
  <2>1. ConsoleLockInv /\ Nobody \notin Printer
    BY <1>4, PortIs DEF ConsoleInv
  <2>2. CASE console_init
    <3>1. \A t \in Printer : stack[t] = <<>>
      BY <2>1, <2>2 DEF console_init, ConsoleLockInv
    <3> QED BY <2>1, <2>2, <3>1 DEF console_init, ConsoleLockInv
  <2>3. CASE thread_start
    BY <2>1, <2>3 DEF thread_start, ConsoleLockInv
  <2> QED BY <2>2, <2>3
<1> QED BY <1>1, <1>2, <1>3, <1>4 DEF ConsoleInv

LEMMA InitQueueKeeps == ASSUME ConsoleInv, serial_init_queue PROVE ConsoleInv'
<1>1. serial \in Ports /\ Taken(serial) = given /\ serial.txq = <<>>
  BY PortIs DEF serial_init_queue, ConsoleInv, PortInv
<1>2. serial' \in Ports /\ PortReady(serial') /\ Taken(serial') = Taken(serial) /\ serial'.mode = "QUEUE" /\ serial'.txq = <<>>
  BY <1>1, QueueStarts DEF serial_init_queue
<1>3. ConsoleTypeOK'
  BY <1>2 DEF serial_init_queue, ConsoleInv, ConsoleTypeOK, Ports
<1>4. PortInv'
  <2>1. ~\E c : Shows(<<>>, c)
    BY DEF Shows
  <2> QED BY <1>1, <1>2, <2>1, PortSays DEF serial_init_queue, ConsoleInv, PortInv
<1> QED BY <1>3, <1>4, PrintsStay, LocksStay DEF serial_init_queue, ConsoleInv, On

LEMMA InterruptKeeps == ASSUME ConsoleInv, serial_interrupt PROVE ConsoleInv'
<1>1. serial \in Ports /\ Taken(serial) = given /\ PortReady(serial)
  BY PortIs DEF serial_interrupt
<1>2. PICK n \in 0..Len(serial.txq) : serial' = PortTook(serial, n)
  BY DEF serial_interrupt, PortTook
<1>3. /\ serial' \in Ports /\ PortReady(serial') /\ Taken(serial') = Taken(serial) /\ serial'.mode = serial.mode
      /\ \A d : Shows(serial'.txq, d) => Shows(serial.txq, d)
  BY <1>1, <1>2, PortTakes
<1>4. ConsoleTypeOK'
  BY <1>3 DEF serial_interrupt, ConsoleInv, ConsoleTypeOK, Ports
<1>5. PortInv'
  <2>1. UNCHANGED <<boot, panicking, leaving, halted, stack, given>> /\ PortInv
    BY DEF serial_interrupt, ConsoleInv
  <2>2. /\ \A t \in leaving : stack[t] = <<>> /\ ~\E c : c[1] = t /\ Shows(serial.txq, c)
        /\ halted # Nobody => ~\E c : c[1] = halted /\ Shows(serial.txq, c)
    BY <2>1 DEF PortInv, Shows
  <2>3. serial'.mode # "QUEUE" => serial'.txq = <<>>
    BY <1>3 DEF PortReady
  <2>4. (serial'.mode = "QUEUE" => boot' = "running") /\ (panicking' => halted' # Nobody)
    BY <1>3, <2>1 DEF PortInv
  <2> QED BY <1>1, <1>3, <2>1, <2>2, <2>3, <2>4, PortSays
<1> QED BY <1>4, <1>5, PrintsStay, LocksStay DEF serial_interrupt, ConsoleInv, On

LEMMA HandlerKeeps == ASSUME ConsoleInv, PrintInHandler PROVE ConsoleInv'
<1> DEFINE ch == Handled(texts)
<1>1. /\ serial \in Ports /\ Taken(serial) = given /\ PortReady(serial) /\ given \in Seq(Char) /\ shown \in Seq(Char)
      /\ Nobody \notin Printer /\ Nobody \in Who
  BY PortIs DEF PrintInHandler
<1>2. /\ On /\ serial' = serial_putc(serial, ch) /\ given' = Append(given, ch) /\ shown' = Append(shown, ch)
      /\ texts' = [texts EXCEPT ![Nobody] = @ + 1]
      /\ UNCHANGED <<boot, panicking, leaving, halted, console_lock, console_lock_depth, stack>>
  BY DEF PrintInHandler, Handled
<1>3. ch \in Char /\ ch[1] = Nobody /\ texts \in [Who -> Nat]
  <2>1. texts \in [Who -> Nat]
    BY DEF ConsoleInv, ConsoleTypeOK
  <2>2. texts[Nobody] + 1 \in Nat
    BY <1>1, <2>1
  <2> QED BY <1>1, <2>1, <2>2, Characters DEF Handled
<1> HIDE DEF ch
<1>4. /\ serial' \in Ports /\ PortReady(serial') /\ Taken(serial') = Append(given, ch)
      /\ serial'.mode = "QUEUE" <=> serial.mode = "QUEUE"
      /\ \A d : Shows(serial'.txq, d) => d = ch \/ Shows(serial.txq, d)
  BY <1>1, <1>2, <1>3, PutKeeps
<1>5. ConsoleTypeOK'
  BY <1>1, <1>2, <1>3, <1>4 DEF ConsoleInv, ConsoleTypeOK, Ports
<1>6. PrintsInv'
  <2>1. PrintsInv /\ stack \in [Printer -> Seq(Frame)]
    BY DEF ConsoleInv, ConsoleTypeOK
  <2>2. (\A c \in ForScreen(stack) : c[1] \in Printer) /\ (\A c \in ForPort(stack) : c[1] \in Printer)
    BY <1>3, <2>1, PendingIs DEF PrintsInv
  <2>3. Said(given', ForPort(stack), texts') /\ Open(given', ForPort(stack))
    BY <1>2, <1>3, <2>1, <2>2, HandlerPrints DEF PrintsInv, ch
  <2>4. Said(shown', ForScreen(stack), texts') /\ Open(shown', ForScreen(stack))
    BY <1>2, <1>3, <2>1, <2>2, HandlerPrints DEF PrintsInv, ch
  <2>5. \A t \in Printer : texts'[t] = texts[t]
    BY <1>1, <1>2, <1>3 DEF Who
  <2> QED BY <1>2, <2>1, <2>3, <2>4, <2>5 DEF PrintsInv
<1>7. PortInv'
  <2>1. PortInv
    BY DEF ConsoleInv
  <2>2. /\ \A t \in leaving : stack[t] = <<>> /\ ~\E c : c[1] = t /\ Shows(serial.txq, c)
        /\ leaving \subseteq Printer
    BY <2>1 DEF PortInv, Shows, ConsoleInv, ConsoleTypeOK
  <2>3. \A t \in leaving : ~\E c : c[1] = t /\ Shows(serial'.txq, c)
    BY <1>1, <1>3, <1>4, <2>2
  <2>4. (serial'.mode = "QUEUE" => boot' = "running") /\ (panicking' => halted' # Nobody) /\ halted' = Nobody
    BY <1>2, <1>4, <2>1 DEF PortInv, On
  <2>5. serial'.mode # "QUEUE" => serial'.txq = <<>>
    BY <1>4 DEF PortReady
  <2> QED BY <1>2, <1>4, <2>2, <2>3, <2>4, <2>5, PortSays
<1> QED BY <1>2, <1>5, <1>6, <1>7, LocksStay DEF ConsoleInv, On

LEMMA BeginPrintKeeps == ASSUME ConsoleInv, NEW t \in Printer, BeginPrint(t) PROVE ConsoleInv'
<1> DEFINE s == stack[t]
           s2 == Append(s, [text |-> TextOf(t, texts[t] + 1), sent |-> FALSE])
<1>1. /\ serial \in Ports /\ Taken(serial) = given /\ PortReady(serial) /\ Nobody \notin Printer /\ Printer \subseteq Who
      /\ ~panicking
  BY PortIs DEF BeginPrint, MayPrint
<1>2. /\ On /\ t \notin leaving /\ (t = Main \/ serial.mode = "QUEUE") /\ acquire_console(t)
      /\ texts' = [texts EXCEPT ![t] = @ + 1] /\ stack' = [stack EXCEPT ![t] = s2]
      /\ UNCHANGED <<boot, panicking, leaving, halted, serial, given, shown>>
  BY DEF BeginPrint, MayPrint
<1>3. stack \in [Printer -> Seq(Frame)] /\ texts \in [Who -> Nat] /\ PrintsInv /\ PortInv /\ ConsoleLockInv
  BY <1>2 DEF ConsoleInv, ConsoleTypeOK
<1>4. /\ s2 \in Seq(Frame) /\ s2 # <<>> /\ Len(s2) = Len(s) + 1 /\ FramesOK(t, s2, texts[t] + 1)
      /\ ToScreen(s2) = ToScreen(s) \cup ThisText(t, texts) /\ ToPort(s2) = ToPort(s) \cup ThisText(t, texts)
  BY <1>3, TopBegins DEF PrintsInv
<1> HIDE DEF s2
<1>5. /\ \A u \in Printer : stack'[u] = IF u = t THEN s2 ELSE stack[u]
      /\ \A u \in Printer : texts'[u] = IF u = t THEN texts[t] + 1 ELSE texts[u]
      /\ stack' \in [Printer -> Seq(Frame)] /\ texts' \in [Who -> Nat]
  BY <1>1, <1>2, <1>3, <1>4
<1>6. ConsoleTypeOK'
  BY <1>1, <1>2, <1>5 DEF ConsoleInv, ConsoleTypeOK, acquire_console
<1>7. PrintsInv'
  <2>1. /\ ForScreen(stack') = ForScreen(stack) \cup ThisText(t, texts)
        /\ ForPort(stack') = ForPort(stack) \cup ThisText(t, texts)
    <3>1. /\ \A u \in Printer \ {t} : stack'[u] = stack[u]
          /\ With(ToScreen(stack'[t]), ToScreen(stack[t]), ThisText(t, texts))
          /\ With(ToPort(stack'[t]), ToPort(stack[t]), ThisText(t, texts))
      BY <1>4, <1>5 DEF With
    <3>2. /\ With(ForScreen(stack'), ForScreen(stack), ThisText(t, texts))
          /\ With(ForPort(stack'), ForPort(stack), ThisText(t, texts))
      BY ONLY <3>1, t \in Printer, StillToCome
    <3> QED BY ONLY <3>2 DEF With
  <2> DEFINE a == ForPort(stack)
             b == ForScreen(stack)
  <2>2. Said(given, a, texts) /\ Open(given, a) /\ Said(shown, b, texts) /\ Open(shown, b)
    BY <1>2, <1>3 DEF PrintsInv
  <2> HIDE DEF a, b
  <2>3. /\ Said(given, a \cup ThisText(t, texts), [texts EXCEPT ![t] = @ + 1]) /\ Open(given, a \cup ThisText(t, texts))
        /\ Said(shown, b \cup ThisText(t, texts), [texts EXCEPT ![t] = @ + 1]) /\ Open(shown, b \cup ThisText(t, texts))
    BY <1>3, <2>2, TextBegins
  <2>4. \A u \in Printer : FramesOK(u, stack'[u], texts'[u])
    BY <1>3, <1>4, <1>5 DEF PrintsInv
  <2>5. /\ Said(given', ForPort(stack'), texts') /\ Open(given', ForPort(stack'))
        /\ Said(shown', ForScreen(stack'), texts') /\ Open(shown', ForScreen(stack'))
    BY <1>2, <2>1, <2>3 DEF a, b
  <2> QED BY <2>4, <2>5 DEF PrintsInv
<1>8. PortInv'
  BY <1>2, <1>3, <1>5 DEF PortInv, On, ConsoleInv, ConsoleTypeOK
<1>9. ConsoleLockInv'
  <2>1. CASE boot = "early"
    <3>1. t = Main
      BY <1>2, <1>3, <2>1 DEF PortInv
    <3> QED BY <1>2, <1>3, <1>5, <2>1, <3>1 DEF ConsoleLockInv, acquire_console, use_console_lock
  <2>2. CASE boot # "early" /\ console_lock = t
    <3>1. console_lock' = t /\ console_lock_depth' = console_lock_depth + 1 /\ Len(s) \in Nat
      BY <1>1, <1>2, <1>3, <2>2, FramesAre DEF acquire_console, use_console_lock
    <3>2. console_lock_depth = Len(s) - 1 /\ t # Nobody
      BY <1>1, <1>3, <2>2 DEF ConsoleLockInv
    <3>3. console_lock_depth' = Len(stack'[t]) - 1
      BY <1>4, <1>5, <3>1, <3>2
    <3>4. \A u \in Printer : stack'[u] # <<>> <=> u = t
      BY <1>3, <1>4, <1>5, <2>2 DEF ConsoleLockInv
    <3> QED BY <1>2, <2>2, <3>1, <3>2, <3>3, <3>4 DEF ConsoleLockInv
  <2>3. CASE boot # "early" /\ console_lock # t
    <3>1. console_lock = Nobody /\ console_lock' = t /\ console_lock_depth' = console_lock_depth
      BY <1>1, <1>2, <2>3 DEF acquire_console, use_console_lock
    <3>2. console_lock_depth = 0 /\ t # Nobody /\ \A u \in Printer : stack[u] = <<>>
      BY <1>1, <1>3, <2>3, <3>1 DEF ConsoleLockInv
    <3>3. Len(s) = 0
      BY <3>2
    <3>4. console_lock_depth' = Len(stack'[t]) - 1
      BY <1>4, <1>5, <3>1, <3>2, <3>3
    <3>5. \A u \in Printer : stack'[u] # <<>> <=> u = t
      BY <1>4, <1>5, <3>2
    <3> QED BY <1>2, <2>3, <3>1, <3>2, <3>4, <3>5 DEF ConsoleLockInv
  <2> QED BY <2>1, <2>2, <2>3
<1> QED BY <1>6, <1>7, <1>8, <1>9 DEF ConsoleInv

LEMMA EndPrintKeeps == ASSUME ConsoleInv, NEW t \in Printer, EndPrint(t) PROVE ConsoleInv'
<1> DEFINE s == stack[t]
           s2 == WithoutTop(s)
<1>1. Nobody \notin Printer /\ Printer \subseteq Who /\ ~panicking
  BY PortIs DEF EndPrint
<1>2. /\ On /\ s # <<>> /\ s[Len(s)].text = <<>> /\ release_console /\ stack' = [stack EXCEPT ![t] = s2]
      /\ UNCHANGED <<boot, panicking, leaving, halted, serial, texts, given, shown>>
  BY DEF EndPrint, Top, WithoutTop
<1>3. stack \in [Printer -> Seq(Frame)] /\ texts \in [Who -> Nat] /\ PrintsInv /\ PortInv /\ ConsoleLockInv
  BY <1>2 DEF ConsoleInv, ConsoleTypeOK
<1>4. /\ s2 \in Seq(Frame) /\ Len(s2) = Len(s) - 1 /\ FramesOK(t, s2, texts[t])
      /\ ToScreen(s2) = ToScreen(s) /\ ToPort(s2) = ToPort(s)
      /\ s2 = <<>> <=> Len(s) = 1
  <2>1. s \in Seq(Frame) /\ FramesOK(t, s, texts[t]) /\ s # <<>> /\ s[Len(s)].text = <<>>
    BY <1>2, <1>3 DEF PrintsInv
  <2> HIDE DEF s
  <2> QED BY <2>1, TopEnds DEF s2
<1> HIDE DEF s2
<1>5. /\ \A u \in Printer : stack'[u] = IF u = t THEN s2 ELSE stack[u]
      /\ stack' \in [Printer -> Seq(Frame)]
  BY <1>2, <1>3, <1>4
<1>6. ConsoleTypeOK'
  BY <1>1, <1>2, <1>5 DEF ConsoleInv, ConsoleTypeOK, release_console, Who
<1>7. PrintsInv'
  <2>1. ForScreen(stack') = ForScreen(stack) \cup {} /\ ForPort(stack') = ForPort(stack) \cup {}
    <3>1. /\ \A u \in Printer \ {t} : stack'[u] = stack[u]
          /\ With(ToScreen(stack'[t]), ToScreen(stack[t]), {}) /\ With(ToPort(stack'[t]), ToPort(stack[t]), {})
      BY <1>4, <1>5 DEF With
    <3>2. With(ForScreen(stack'), ForScreen(stack), {}) /\ With(ForPort(stack'), ForPort(stack), {})
      BY ONLY <3>1, t \in Printer, StillToCome
    <3> QED BY ONLY <3>2 DEF With
  <2>2. ForScreen(stack') = ForScreen(stack) /\ ForPort(stack') = ForPort(stack)
    BY <2>1
  <2>3. \A u \in Printer : FramesOK(u, stack'[u], texts'[u])
    BY <1>2, <1>3, <1>4, <1>5 DEF PrintsInv
  <2> QED BY <1>2, <1>3, <2>2, <2>3 DEF PrintsInv, On
<1>8. PortInv'
  BY <1>2, <1>3, <1>5 DEF PortInv, On, ConsoleInv, ConsoleTypeOK
<1>9. ConsoleLockInv'
  <2>1. CASE boot = "early"
    <3>1. \A u \in Printer \ {Main} : stack'[u] = <<>>
      BY <1>2, <1>3, <1>5, <2>1 DEF ConsoleLockInv
    <3> QED BY <1>2, <1>3, <2>1, <3>1 DEF ConsoleLockInv, release_console, use_console_lock
  <2>2. CASE boot # "early"
    <3>1. /\ console_lock = t /\ t # Nobody /\ console_lock_depth = Len(s) - 1 /\ Len(s) \in Nat
          /\ \A u \in Printer \ {t} : stack[u] = <<>>
      BY <1>1, <1>2, <1>3, <2>2, FramesAre DEF ConsoleLockInv
    <3>2. CASE console_lock_depth > 0
      <4>1. console_lock' = t /\ console_lock_depth' = console_lock_depth - 1 /\ s2 # <<>>
        BY <1>1, <1>2, <1>4, <2>2, <3>1, <3>2 DEF release_console, use_console_lock
      <4>2. \A u \in Printer : stack'[u] # <<>> <=> u = t
        BY <1>5, <3>1, <4>1
      <4>3. console_lock_depth' = Len(stack'[t]) - 1
        BY <1>4, <1>5, <3>1, <4>1
      <4> QED BY <1>2, <2>2, <3>1, <4>1, <4>2, <4>3 DEF ConsoleLockInv
    <3>3. CASE ~(console_lock_depth > 0)
      <4>1. Len(s) > 0
        BY <1>2, <1>3, <3>1, EmptySeq
      <4>2. Len(s) = 1 /\ console_lock_depth = 0
        <5> HIDE DEF s
        <5>1. console_lock_depth = Len(s) - 1 /\ Len(s) \in Nat
          BY <3>1
        <5> QED BY ONLY <5>1, <3>3, <4>1
      <4>3. console_lock' = Nobody /\ console_lock_depth' = 0 /\ s2 = <<>>
        BY <1>1, <1>2, <1>4, <2>2, <3>3, <4>2 DEF release_console, use_console_lock
      <4>4. \A u \in Printer : stack'[u] = <<>> /\ u # Nobody
        BY <1>1, <1>5, <3>1, <4>3
      <4> QED BY <1>2, <2>2, <4>3, <4>4 DEF ConsoleLockInv
    <3> QED BY <3>2, <3>3
  <2> QED BY <2>1, <2>2
<1> QED BY <1>6, <1>7, <1>8, <1>9 DEF ConsoleInv

LEMMA PutSerialKeeps == ASSUME ConsoleInv, NEW t \in Printer, PutSerial(t) PROVE ConsoleInv'
<1> DEFINE s == stack[t]
           top == s[Len(s)]
           c == Head(top.text)
           s2 == SentTop(s)
<1>1. /\ serial \in Ports /\ Taken(serial) = given /\ PortReady(serial) /\ given \in Seq(Char)
      /\ Nobody \notin Printer /\ Printer \subseteq Who
  BY PortIs DEF PutSerial
<1>2. /\ On /\ s # <<>> /\ top.text # <<>> /\ ~top.sent /\ serial' = serial_putc(serial, c) /\ given' = Append(given, c)
      /\ stack' = [stack EXCEPT ![t] = s2]
      /\ UNCHANGED <<boot, panicking, leaving, halted, console_lock, console_lock_depth, texts, shown>>
  BY DEF PutSerial, Top, SetTop, SentTop
<1>3. stack \in [Printer -> Seq(Frame)] /\ texts \in [Who -> Nat] /\ PrintsInv /\ PortInv /\ ConsoleLockInv
  BY <1>2 DEF ConsoleInv, ConsoleTypeOK
<1>4. /\ s2 \in Seq(Frame) /\ s2 # <<>> /\ Len(s2) = Len(s) /\ FramesOK(t, s2, texts[t]) /\ ToScreen(s2) = ToScreen(s)
      /\ c \in ToPort(s) /\ ToPort(s2) = ToPort(s) \ {c}
      /\ \A p \in ToPort(s) : p[1] = c[1] /\ (OneText(p, c) /\ p # c => c[3] < p[3])
  <2>1. s \in Seq(Frame) /\ FramesOK(t, s, texts[t])
    BY <1>3 DEF PrintsInv
  <2> HIDE DEF s
  <2> QED BY <1>2, <2>1, TopToPort
<1> HIDE DEF s2, c
<1>5. /\ stack'[t] = s2 /\ (\A u \in Printer \ {t} : stack'[u] = stack[u])
      /\ \A u \in Printer : stack'[u] = IF u = t THEN s2 ELSE stack[u]
      /\ stack' \in [Printer -> Seq(Frame)]
      /\ c \in Char /\ \A u \in Printer \ {t} : stack[u] = <<>>
  BY <1>2, <1>3, <1>4, OnePrinter DEF ToPort
<1>6. c[1] = t
  BY <1>3, <1>4, OwnTexts DEF PrintsInv
<1>7. /\ serial' \in Ports /\ PortReady(serial') /\ Taken(serial') = Append(given, c)
      /\ serial'.mode = "QUEUE" <=> serial.mode = "QUEUE"
      /\ \A d : Shows(serial'.txq, d) => d = c \/ Shows(serial.txq, d)
  BY <1>1, <1>2, <1>5, PutKeeps
<1>8. ConsoleTypeOK'
  BY <1>2, <1>5, <1>7 DEF ConsoleInv, ConsoleTypeOK, Ports
<1>9. PrintsInv'
  <2>1. /\ ForPort(stack) = ToPort(s) /\ ForScreen(stack) = ToScreen(s)
        /\ ForPort(stack') = ToPort(s2) /\ ForScreen(stack') = ToScreen(s2)
    <3>1. \A u \in Printer \ {t} : stack'[u] = <<>>
      BY <1>5
    <3> QED BY <1>5, <3>1, Alone
  <2>2. ForPort(stack) \subseteq Begun(texts)
    BY <1>3, PendingIs DEF PrintsInv
  <2>3. Said(given, ToPort(s), texts) /\ Open(given, ToPort(s)) /\ ToPort(s) \subseteq Begun(texts)
    BY <1>2, <1>3, <2>1, <2>2 DEF PrintsInv
  <2>4. Said(Append(given, c), ToPort(s) \ {c}, texts) /\ Open(Append(given, c), ToPort(s) \ {c})
    BY <1>4, <2>3, Sends
  <2>5. Said(given', ForPort(stack'), texts') /\ Open(given', ForPort(stack'))
    BY <1>2, <1>4, <2>1, <2>4
  <2>6. Said(shown', ForScreen(stack'), texts') /\ Open(shown', ForScreen(stack'))
    BY <1>2, <1>3, <1>4, <2>1 DEF PrintsInv
  <2>7. \A u \in Printer : FramesOK(u, stack'[u], texts'[u])
    BY <1>2, <1>3, <1>4, <1>5 DEF PrintsInv
  <2> QED BY <2>5, <2>6, <2>7 DEF PrintsInv
<1>10. PortInv'
  <2>1. \A u \in leaving : u # t /\ u \in Printer /\ stack'[u] = stack[u] /\ stack[u] = <<>> /\ ~\E d : d[1] = u /\ Shows(serial.txq, d)
    BY <1>2, <1>3, <1>5 DEF PortInv, Shows, ConsoleInv, ConsoleTypeOK
  <2>2. \A u \in leaving' : stack'[u] = <<>> /\ ~\E d : d[1] = u /\ Shows(serial'.txq, d)
    BY <1>2, <1>6, <1>7, <2>1
  <2>3. (serial'.mode = "QUEUE" => boot' = "running") /\ (panicking' => halted' # Nobody) /\ halted' = Nobody
    BY <1>2, <1>3, <1>7 DEF PortInv, On
  <2>4. serial'.mode # "QUEUE" => serial'.txq = <<>>
    BY <1>7 DEF PortReady
  <2> QED BY <1>2, <1>7, <2>2, <2>3, <2>4, PortSays
<1>11. ConsoleLockInv'
  <2>1. \A u \in Printer : (stack'[u] # <<>> <=> stack[u] # <<>>) /\ Len(stack'[u]) = Len(stack[u])
    BY <1>2, <1>4, <1>5
  <2>2. boot # "early" => console_lock \in Printer
    BY <1>2, <1>3 DEF ConsoleLockInv
  <2> QED BY <1>2, <1>3, <2>1, <2>2 DEF ConsoleLockInv
<1> QED BY <1>8, <1>9, <1>10, <1>11 DEF ConsoleInv

LEMMA PutScreenKeeps == ASSUME ConsoleInv, NEW t \in Printer, PutScreen(t) PROVE ConsoleInv'
<1> DEFINE s == stack[t]
           top == s[Len(s)]
           c == Head(top.text)
           s2 == ShownTop(s)
<1>1. Nobody \notin Printer /\ Printer \subseteq Who /\ serial \in Ports
  BY PortIs
<1>2. /\ On /\ s # <<>> /\ top.sent /\ shown' = Append(shown, c) /\ stack' = [stack EXCEPT ![t] = s2]
      /\ UNCHANGED <<boot, panicking, leaving, halted, console_lock, console_lock_depth, serial, texts, given>>
  BY DEF PutScreen, Top, SetTop, ShownTop
<1>3. stack \in [Printer -> Seq(Frame)] /\ texts \in [Who -> Nat] /\ PrintsInv /\ PortInv /\ ConsoleLockInv
  BY <1>2 DEF ConsoleInv, ConsoleTypeOK
<1>4. /\ s2 \in Seq(Frame) /\ s2 # <<>> /\ Len(s2) = Len(s) /\ FramesOK(t, s2, texts[t]) /\ ToPort(s2) = ToPort(s)
      /\ c \in ToScreen(s) /\ ToScreen(s2) = ToScreen(s) \ {c}
      /\ \A p \in ToScreen(s) : p[1] = c[1] /\ (OneText(p, c) /\ p # c => c[3] < p[3])
  <2>1. s \in Seq(Frame) /\ FramesOK(t, s, texts[t])
    BY <1>3 DEF PrintsInv
  <2> HIDE DEF s
  <2> QED BY <1>2, <2>1, TopToScreen
<1> HIDE DEF s2, c
<1>5. /\ stack'[t] = s2 /\ (\A u \in Printer \ {t} : stack'[u] = stack[u])
      /\ \A u \in Printer : stack'[u] = IF u = t THEN s2 ELSE stack[u]
      /\ stack' \in [Printer -> Seq(Frame)]
      /\ \A u \in Printer \ {t} : stack[u] = <<>>
  BY <1>2, <1>3, <1>4, OnePrinter
<1>8. ConsoleTypeOK'
  BY <1>2, <1>5 DEF ConsoleInv, ConsoleTypeOK
<1>9. PrintsInv'
  <2>1. /\ ForPort(stack) = ToPort(s) /\ ForScreen(stack) = ToScreen(s)
        /\ ForPort(stack') = ToPort(s2) /\ ForScreen(stack') = ToScreen(s2)
    <3>1. \A u \in Printer \ {t} : stack'[u] = <<>>
      BY <1>5
    <3> QED BY <1>5, <3>1, Alone
  <2>2. ForScreen(stack) \subseteq Begun(texts)
    BY <1>3, PendingIs DEF PrintsInv
  <2>3. Said(shown, ToScreen(s), texts) /\ Open(shown, ToScreen(s)) /\ ToScreen(s) \subseteq Begun(texts)
    BY <1>2, <1>3, <2>1, <2>2 DEF PrintsInv
  <2>4. Said(Append(shown, c), ToScreen(s) \ {c}, texts) /\ Open(Append(shown, c), ToScreen(s) \ {c})
    BY <1>4, <2>3, Sends
  <2>5. Said(shown', ForScreen(stack'), texts') /\ Open(shown', ForScreen(stack'))
    BY <1>2, <1>4, <2>1, <2>4
  <2>6. Said(given', ForPort(stack'), texts') /\ Open(given', ForPort(stack'))
    BY <1>2, <1>3, <1>4, <2>1 DEF PrintsInv
  <2>7. \A u \in Printer : FramesOK(u, stack'[u], texts'[u])
    BY <1>2, <1>3, <1>4, <1>5 DEF PrintsInv
  <2> QED BY <2>5, <2>6, <2>7 DEF PrintsInv
<1>10. PortInv'
  <2>1. \A u \in leaving : stack'[u] = <<>>
    BY <1>2, <1>3, <1>5 DEF PortInv, ConsoleInv, ConsoleTypeOK
  <2> QED BY <1>2, <1>3, <2>1 DEF PortInv, On
<1>11. ConsoleLockInv'
  <2>1. \A u \in Printer : (stack'[u] # <<>> <=> stack[u] # <<>>) /\ Len(stack'[u]) = Len(stack[u])
    BY <1>2, <1>4, <1>5
  <2>2. boot # "early" => console_lock \in Printer
    BY <1>2, <1>3 DEF ConsoleLockInv
  <2> QED BY <1>2, <1>3, <2>1, <2>2 DEF ConsoleLockInv
<1> QED BY <1>8, <1>9, <1>10, <1>11 DEF ConsoleInv

LEMMA PanicKeeps == ASSUME ConsoleInv, NEW t \in Printer, debug_panic(t) PROVE ConsoleInv'
<1>1. /\ serial \in Ports /\ Taken(serial) = given /\ PortReady(serial) /\ given \in Seq(Char) /\ shown \in Seq(Char)
      /\ Nobody \notin Printer /\ Printer \subseteq Who
  BY PortIs DEF debug_panic, MayPrint
<1>2. /\ On /\ panicking' = TRUE /\ halted' = t
      /\ given' = given \o TextOf(t, texts[t] + 1) /\ shown' = shown \o TextOf(t, texts[t] + 1)
      /\ texts' = [texts EXCEPT ![t] = @ + 1]
      /\ UNCHANGED <<boot, leaving, console_lock, console_lock_depth, stack>>
  BY DEF debug_panic, MayPrint
<1>3. stack \in [Printer -> Seq(Frame)] /\ texts \in [Who -> Nat] /\ PrintsInv /\ PortInv
  BY DEF ConsoleInv, ConsoleTypeOK
<1>4. /\ serial' \in Ports /\ PortReady(serial') /\ serial'.txq = <<>> /\ Taken(serial') = given'
      /\ serial'.mode = "QUEUE" <=> serial.mode = "QUEUE"
  BY <1>1, <1>2, <1>3, PanicSends
<1>5. ConsoleTypeOK'
  BY <1>1, <1>2, <1>3, <1>4 DEF ConsoleInv, ConsoleTypeOK, Ports
<1>6. t # Nobody /\ ~On'
  BY <1>1, <1>2 DEF On
<1>7. PrintsInv'
  <2>1. /\ ForScreen(stack) \subseteq Begun(texts) /\ ForPort(stack) \subseteq Begun(texts)
        /\ Said(given, ForPort(stack), texts) /\ Said(shown, ForScreen(stack), texts)
    BY <1>3, PendingIs DEF PrintsInv
  <2>2. Said(given', ForPort(stack), texts') /\ Said(shown', ForScreen(stack), texts')
    BY <1>2, <1>3, <2>1, MessagePrinted
  <2>3. ASSUME NEW u \in Printer PROVE FramesOK(u, stack[u], texts'[u])
    <3>1. FramesOK(u, stack[u], texts[u]) /\ texts[u] \in Nat /\ texts'[u] \in Nat /\ texts[u] <= texts'[u]
      BY <1>1, <1>2, <1>3 DEF PrintsInv
    <3> QED BY <3>1, FramesGrow
  <2> QED BY <1>2, <1>6, <2>2, <2>3 DEF PrintsInv
<1>8. PortInv'
  <2>1. ~\E c : Shows(<<>>, c)
    BY DEF Shows
  <2>2. \A u \in leaving' : stack'[u] = <<>>
    BY <1>2, <1>3 DEF PortInv
  <2>3. serial'.mode = "QUEUE" => boot' = "running"
    BY <1>2, <1>3, <1>4 DEF PortInv
  <2> QED BY <1>2, <1>4, <1>6, <2>1, <2>2, <2>3, PortSays
<1> QED BY <1>5, <1>6, <1>7, <1>8 DEF ConsoleInv

LEMMA FlushForPowerOffKeeps == ASSUME ConsoleInv, NEW t \in Printer, FlushForPowerOff(t) PROVE ConsoleInv'
<1>1. serial \in Ports /\ Taken(serial) = given /\ ConsoleTypeOK /\ PortInv
  BY PortIs DEF ConsoleInv
<1>2. /\ On /\ stack[t] = <<>> /\ serial' = serial_flush(serial) /\ leaving' = leaving \cup {t}
      /\ UNCHANGED <<boot, panicking, halted, console_lock, console_lock_depth, stack, texts, given, shown>>
  BY DEF FlushForPowerOff, MayPrint
<1>3. /\ serial' \in Ports /\ PortReady(serial') /\ serial'.txq = <<>> /\ Taken(serial') = given'
      /\ serial'.mode = serial.mode
  BY <1>1, <1>2, FlushKeeps
<1>4. ConsoleTypeOK'
  BY <1>1, <1>2, <1>3 DEF ConsoleTypeOK, Ports
<1>5. PortInv'
  <2>1. ~\E c : Shows(<<>>, c)
    BY DEF Shows
  <2>2. \A u \in leaving' : stack'[u] = <<>>
    BY <1>1, <1>2 DEF PortInv
  <2>3. (serial'.mode = "QUEUE" => boot' = "running") /\ (panicking' => halted' # Nobody)
    BY <1>1, <1>2, <1>3 DEF PortInv
  <2> QED BY <1>3, <2>1, <2>2, <2>3, PortSays
<1> QED BY <1>2, <1>4, <1>5, PrintsStay, LocksStay DEF ConsoleInv, On

LEMMA PowerOffKeeps == ASSUME ConsoleInv, NEW t \in Printer, PowerOff(t) PROVE ConsoleInv'
<1>1. ConsoleTypeOK /\ PortInv /\ PrintsInv /\ Nobody \notin Printer /\ Printer \subseteq Who
  BY PortIs DEF ConsoleInv
<1>2. /\ On /\ t \in leaving /\ halted' = t /\ ~On'
      /\ UNCHANGED <<boot, panicking, leaving, console_lock, console_lock_depth, serial, stack, texts, given, shown>>
  BY <1>1 DEF PowerOff, On
<1>3. ConsoleTypeOK'
  BY <1>1, <1>2 DEF ConsoleTypeOK
<1>4. PortInv'
  BY <1>1, <1>2 DEF PortInv
<1> QED BY <1>1, <1>2, <1>3, <1>4, PrintsStay DEF ConsoleInv

LEMMA ConsoleStarts == ConsoleInit => ConsoleInv
<1> SUFFICES ASSUME ConsoleInit PROVE ConsoleInv
  OBVIOUS
<1>1. /\ Nobody \notin Printer /\ Nobody \in Who /\ Printer \subseteq Who /\ Who = Printer \cup {Nobody} /\ On
      /\ <<>> \in Seq(Char) /\ <<>> \in Seq(Frame) /\ DOMAIN <<>> = {}
  BY ConsoleAssumption DEF Who, ConsoleInit, On
<1>2. /\ boot = "early" /\ panicking = FALSE /\ leaving = {} /\ halted = Nobody
      /\ console_lock = Nobody /\ console_lock_depth = 0 /\ given = <<>> /\ shown = <<>>
      /\ serial = [mode |-> "UNINIT", txq |-> <<>>, sent |-> <<>>, xmit |-> FALSE]
      /\ stack = [t \in Printer |-> <<>>] /\ texts = [t \in Who |-> 0]
  BY DEF ConsoleInit, Who
<1>3. /\ serial.mode = "UNINIT" /\ serial.txq = <<>> /\ serial.sent = <<>>
      /\ \A t \in Printer : stack[t] = <<>> /\ texts[t] = 0
      /\ \A t \in Who : texts[t] = 0
  BY <1>1, <1>2
<1>4. ConsoleTypeOK
  BY <1>1, <1>2 DEF ConsoleTypeOK
<1>5. ForScreen(stack) = {} /\ ForPort(stack) = {}
  BY <1>3, NothingToCome DEF ForScreen, ForPort
<1>6. Begun(texts) = {}
  <2>1. ASSUME NEW c \in Begun(texts) PROVE FALSE
    <3>1. c \in Char /\ c[2] \in 1..texts[c[1]] /\ c[1] \in Who
      BY CharacterIs DEF Begun
    <3> QED BY <1>3, <3>1
  <2> QED BY <2>1
<1>7. PrintsInv
  <2>1. Said(<<>>, {}, texts) /\ Open(<<>>, {})
    BY <1>1, <1>6 DEF Said, Open, InOrder, Shows
  <2>2. \A t \in Printer : FramesOK(t, stack[t], texts[t])
    BY <1>3, NothingToCome
  <2> QED BY <1>2, <1>5, <2>1, <2>2 DEF PrintsInv
<1>8. PortInv
  <2>1. <<>> \o <<>> = <<>>
    BY <1>1, ConcatEmptySeq
  <2> QED BY <1>1, <1>2, <1>3, <2>1 DEF PortInv
<1>9. ConsoleLockInv
  BY <1>2, <1>3 DEF ConsoleLockInv
<1> QED BY <1>4, <1>7, <1>8, <1>9 DEF ConsoleInv

LEMMA ConsoleSteps == ConsoleInv /\ [ConsoleNext]_consoleVars => ConsoleInv'
<1> SUFFICES ASSUME ConsoleInv, [ConsoleNext]_consoleVars PROVE ConsoleInv'
  OBVIOUS
<1>1. CASE console_init \/ thread_start
  BY <1>1, StartKeeps
<1>2. CASE serial_init_queue
  BY <1>2, InitQueueKeeps
<1>3. CASE serial_interrupt
  BY <1>3, InterruptKeeps
<1>4. CASE PrintInHandler
  BY <1>4, HandlerKeeps
<1>5. ASSUME NEW t \in Printer, BeginPrint(t) PROVE ConsoleInv'
  BY <1>5, BeginPrintKeeps
<1>6. ASSUME NEW t \in Printer, PutSerial(t) PROVE ConsoleInv'
  BY <1>6, PutSerialKeeps
<1>7. ASSUME NEW t \in Printer, PutScreen(t) PROVE ConsoleInv'
  BY <1>7, PutScreenKeeps
<1>8. ASSUME NEW t \in Printer, EndPrint(t) PROVE ConsoleInv'
  BY <1>8, EndPrintKeeps
<1>9. ASSUME NEW t \in Printer, debug_panic(t) PROVE ConsoleInv'
  BY <1>9, PanicKeeps
<1>10. ASSUME NEW t \in Printer, FlushForPowerOff(t) PROVE ConsoleInv'
  BY <1>10, FlushForPowerOffKeeps
<1>11. ASSUME NEW t \in Printer, PowerOff(t) PROVE ConsoleInv'
  BY <1>11, PowerOffKeeps
<1>12. CASE UNCHANGED consoleVars
  BY <1>12, ConsoleStuttersKeeps
<1> QED BY <1>1, <1>2, <1>3, <1>4, <1>5, <1>6, <1>7, <1>8, <1>9, <1>10, <1>11, <1>12 DEF ConsoleNext

\* What was printed once all prints of a thread have ended.
LEMMA PrintedWhole ==
    ASSUME NEW out, NEW pend, Said(out, pend, texts), \A c \in pend : c[1] \in Printer /\ stack[c[1]] # <<>>,
           texts \in [Who -> Nat]
    PROVE  TextsWhole(out)
<1>1. /\ out \in Seq(Char) /\ InOrder(out) /\ (\A i \in DOMAIN out : out[i] \in Char)
      /\ \A c \in Char : Shows(out, c) <=> c \in Begun(texts) /\ c \notin pend
  BY LenProperties, ElementOfSeq DEF Said
<1>2. ASSUME NEW t \in Printer, stack[t] = <<>>
      PROVE  PrintedBy(out, t) = CharactersOf(t)
  <2> DEFINE A == {out[i] : i \in {k \in DOMAIN out : By(out[k]) = t}}
             B == {TextOf(t, n)[k] : n \in 1..texts[t], k \in 1..TextLength}
  <2>1. t # Nobody /\ t \in Who /\ texts[t] \in Nat /\ TextLength \in Nat
    BY ConsoleAssumption DEF Who
  <2>2. ASSUME NEW c \in A PROVE c \in B
    <3>1. c \in Char /\ Shows(out, c) /\ c[1] = t
      BY <1>1 DEF Shows, By
    <3>2. c \in Begun(texts)
      BY <1>1, <3>1
    <3>3. c[2] \in 1..texts[t] /\ c[3] \in 1..TextLength
      BY <2>1, <3>1, <3>2 DEF Begun
    <3>4. c = TextOf(t, c[2])[c[3]]
      <4> DEFINE d == TextOf(t, c[2])[c[3]]
      <4>1. c[2] \in Nat
        BY <3>3
      <4>2. d \in Char /\ d[1] = t /\ d[2] = c[2] /\ d[3] = c[3]
        BY <3>3, <4>1, TextIs, ElementOfSeq
      <4> HIDE DEF d
      <4>3. c = d
        BY <3>1, <4>2, SameCharacter
      <4> QED BY <4>3 DEF d
    <3> QED BY <3>3, <3>4
  <2>3. ASSUME NEW n \in 1..texts[t], NEW k \in 1..TextLength PROVE TextOf(t, n)[k] \in A
    <3> DEFINE c == TextOf(t, n)[k]
    <3>1. c \in Char /\ c[1] = t /\ c[2] = n /\ c[3] = k
      BY TextIs, ElementOfSeq
    <3> HIDE DEF c
    <3>2. c \in Begun(texts) /\ c \notin pend
      BY <1>2, <2>1, <3>1 DEF Begun
    <3>3. PICK i \in DOMAIN out : out[i] = c
      BY <1>1, <3>1, <3>2 DEF Shows
    <3>4. c \in A
      BY <3>1, <3>3 DEF By
    <3> QED BY <3>4 DEF c
  <2> QED BY <2>2, <2>3 DEF PrintedBy, CharactersOf
<1>3. ASSUME NEW i \in DOMAIN out, NEW k \in DOMAIN out, i < k, By(out[i]) = By(out[k]), out[i][2] = out[k][2]
      PROVE  out[i][3] < out[k][3] /\ \A j \in i..k : By(out[j]) \in {By(out[i]), Nobody}
  BY <1>1, <1>3 DEF InOrder, OneText, By
<1>5. \A i, k \in DOMAIN out : i < k /\ By(out[i]) = By(out[k]) /\ out[i][2] = out[k][2] =>
         /\ out[i][3] < out[k][3]
         /\ \A j \in i..k : By(out[j]) \in {By(out[i]), Nobody}
  BY <1>3
<1> QED BY <1>2, <1>5 DEF TextsWhole

LEMMA InvSaysWhole == ConsoleInv => OutputWhole
<1> SUFFICES ASSUME ConsoleInv PROVE OutputWhole
  OBVIOUS
<1>1. stack \in [Printer -> Seq(Frame)] /\ texts \in [Who -> Nat] /\ PrintsInv /\ PortInv /\ console_lock \in Who
  BY DEF ConsoleInv, ConsoleTypeOK
<1>2. /\ \A c \in ForScreen(stack) : c[1] \in Printer /\ stack[c[1]] # <<>>
      /\ \A c \in ForPort(stack) : c[1] \in Printer /\ stack[c[1]] # <<>>
  <2>1. \A t \in Printer : ToPort(stack[t]) \subseteq ToScreen(stack[t]) /\ \A c \in ToScreen(stack[t]) : c[1] = t
    BY <1>1, OwnTexts DEF PrintsInv
  <2> QED BY <2>1, NothingToCome DEF ForScreen, ForPort
<1>3. TextsWhole(given) /\ TextsWhole(shown)
  BY <1>1, <1>2, PrintedWhole DEF PrintsInv
<1>4. ASSUME On, \A t \in Printer : stack[t] = <<>> PROVE console_lock = Nobody /\ console_lock_depth = 0
  <2>1. ConsoleLockInv
    BY <1>4 DEF ConsoleInv
  <2>2. boot # "early" => console_lock \notin Printer
    BY <1>4, <2>1 DEF ConsoleLockInv
  <2> QED BY <1>1, <2>1, <2>2 DEF ConsoleLockInv, Who
<1> QED BY <1>1, <1>3, <1>4 DEF OutputWhole, PortInv, By

\* Every text is whole on the port and on the screen, whoever prints next to it or within it,
\* and what was printed before the machine stopped is sent.
THEOREM OutputIsWhole == ConsoleSpec => []OutputWhole
<1> QED BY ConsoleStarts, ConsoleSteps, InvSaysWhole, PTL DEF ConsoleSpec
=============================================================================

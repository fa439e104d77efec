-------------------------------- MODULE Intq --------------------------------
(***************************************************************************)
(* The interrupt queue of devices/intq.c: a ring of bytes between threads  *)
(* on one side and the interrupt handler of a device on the other.  As the *)
(* input buffer (input.c) threads read and the handlers of the keyboard    *)
(* and the serial port write; as the serial port's output queue (serial.c) *)
(* threads write and the handler reads.  use says which of the two it is.  *)
(*                                                                         *)
(* Interrupts are off in intq_getc and intq_putc, so a thread runs through *)
(* their loop in one step until it blocks: in lock_acquire, when another   *)
(* thread waits already, or in wait.                                       *)
(***************************************************************************)
EXTENDS Integers, Sequences, Semaphore

CONSTANTS
    Reader, Writer,     \* threads that call intq_getc, and intq_putc
    NoThread,           \* the null pointer
    INTQ_BUFSIZE,
    Byte

ASSUME IntqAssumption ==
    /\ Reader \cap Writer = {} /\ NoThread \notin Reader \cup Writer
    /\ INTQ_BUFSIZE \in Nat \ {0}

VARIABLES
    use,                    \* "input" or "output"; it stays what it is
    buf, head, tail,
    not_empty, not_full,    \* the thread that waits for the condition
    lock,                   \* the semaphore of the queue's lock
    pc, blocked,            \* where each thread is; those that are blocked
    byte,                   \* the byte each writer adds
    panicked                \* an assertion has failed

ringVars == <<buf, head, tail>>
vars == <<use, ringVars, not_empty, not_full, lock, pc, blocked, byte, panicked>>

Thread == Reader \cup Writer
Position == 0..INTQ_BUFSIZE - 1
NoByte == CHOOSE b \in Byte : TRUE  \* what the memory of the ring holds at first

IntqTypeOK ==
    /\ use \in {"input", "output"}
    /\ buf \in [Position -> Byte]
    /\ head \in Position /\ tail \in Position
    /\ not_empty \in Reader \cup {NoThread}
    /\ not_full \in Writer \cup {NoThread}
    /\ lock \in SemaOf(Thread)
    /\ pc \in [Thread -> {"idle", "locking", "waiting"}]
    /\ blocked \subseteq Thread
    /\ byte \in [Writer -> Byte]
    /\ panicked \in BOOLEAN

Init ==
    /\ use \in {"input", "output"}
    /\ buf = [i \in Position |-> NoByte]
    /\ head = 0 /\ tail = 0
    /\ not_empty = NoThread /\ not_full = NoThread
    /\ lock = sema_init(1)
    /\ pc = [t \in Thread |-> "idle"]
    /\ blocked = {}
    /\ byte = [w \in Writer |-> NoByte]
    /\ panicked = FALSE

-----------------------------------------------------------------------------
At(t, place) == pc[t] = place /\ ~panicked

next(pos) == (pos + 1) % INTQ_BUFSIZE

intq_empty == head = tail

\* Mutant: every slot of the ring is used.
intq_full_Last == FALSE

\* One slot stays unused, to tell a full ring from an empty one.
intq_full == next(head) = tail

\* Whether t can get, or put, its byte.
Ready(t) == IF t \in Reader THEN ~intq_empty ELSE ~intq_full

\* signal: whoever waits is made ready.
Signalled(waiter) == {waiter} \ {NoThread}

\* A byte leaves the ring; woken were made ready before.
Get(woken) ==
    /\ tail' = next(tail)
    /\ not_full' = NoThread
    /\ blocked' = blocked \ (woken \cup Signalled(not_full))
    /\ UNCHANGED <<buf, head, not_empty>>

\* A byte enters the ring.
Put(b, woken) ==
    /\ buf' = [buf EXCEPT ![head] = b]
    /\ head' = next(head)
    /\ not_empty' = NoThread
    /\ blocked' = blocked \ (woken \cup Signalled(not_empty))
    /\ UNCHANGED <<tail, not_full>>

\* wait, with the lock: it asserts that there is something to wait for.
Wait(t, woken) ==
    /\ panicked' = Ready(t)
    /\ IF t \in Reader THEN not_empty' = t /\ UNCHANGED not_full
                       ELSE not_full' = t /\ UNCHANGED not_empty
    /\ blocked' = (blocked \ woken) \cup {t}
    /\ pc' = [pc EXCEPT ![t] = "waiting"]
    /\ UNCHANGED ringVars

\* sema_down of the lock with no unit.
Queue(t, l, woken) ==
    /\ lock' = SemaQueue(l, t)
    /\ blocked' = (blocked \ woken) \cup {t}
    /\ pc' = [pc EXCEPT ![t] = "locking"]
    /\ UNCHANGED <<ringVars, not_empty, not_full, panicked>>

\* The loop of intq_getc and intq_putc from its test, when the lock is l.
Loop(t, l, woken) ==
    \/ /\ Ready(t)
       /\ IF t \in Reader THEN Get(woken) ELSE Put(byte'[t], woken)
       /\ lock' = l
       /\ pc' = [pc EXCEPT ![t] = "idle"]
       /\ UNCHANGED panicked
    \/ /\ ~Ready(t) /\ l.value > 0
       /\ lock' = SemaTake(l)
       /\ Wait(t, woken)
    \/ /\ ~Ready(t) /\ l.value = 0
       /\ Queue(t, l, woken)

CallGetc(t) ==
    /\ t \in Reader /\ use = "input" /\ At(t, "idle")
    /\ UNCHANGED <<use, byte>>
    /\ Loop(t, lock, {})

CallPutc(t) ==
    /\ t \in Writer /\ use = "output" /\ At(t, "idle")
    /\ \E b \in Byte : byte' = [byte EXCEPT ![t] = b]
    /\ Loop(t, lock, {})
    /\ UNCHANGED use

\* Mutant: sema_down does not test the value again.
Locked_NoTest(t) ==
    /\ At(t, "locking") /\ t \notin blocked
    /\ lock' = [lock EXCEPT !.value = 0]
    /\ Wait(t, {})
    /\ UNCHANGED <<use, byte>>

\* lock_acquire goes on: its sema_down tests the value again.
Locked(t) ==
    /\ At(t, "locking") /\ t \notin blocked
    /\ \/ lock.value = 0 /\ Queue(t, lock, {})
       \/ /\ lock.value > 0
          /\ lock' = SemaTake(lock)
          /\ Wait(t, {})
    /\ UNCHANGED <<use, byte>>

\* Mutant: the lock is not released before the loop goes on.
Woken_Locked(t) ==
    /\ At(t, "waiting") /\ t \notin blocked
    /\ UNCHANGED <<use, byte>>
    /\ Loop(t, lock, {})

\* wait comes back: the lock is released, which makes one thread that waits for
\* it ready, and the loop goes on.
Woken(t) ==
    /\ At(t, "waiting") /\ t \notin blocked
    /\ UNCHANGED <<use, byte>>
    /\ Loop(t, SemaUp(lock), SemaWoken(lock))

\* The interrupt handlers test first: what does not fit is dropped (kbd.c) or
\* stays in the device (serial.c).
DevicePut ==
    /\ ~panicked /\ use = "input" /\ ~intq_full
    /\ \E b \in Byte : Put(b, {})
    /\ UNCHANGED <<use, lock, pc, byte, panicked>>

DeviceGet ==
    /\ ~panicked /\ use = "output" /\ ~intq_empty
    /\ Get({})
    /\ UNCHANGED <<use, lock, pc, byte, panicked>>

-----------------------------------------------------------------------------
Call(t) == CallGetc(t) \/ CallPutc(t)

Step(t) == Locked(t) \/ Woken(t)

Device == DevicePut \/ DeviceGet

Next ==
    \/ \E t \in Thread : Call(t) \/ Step(t)
    \/ Device

Spec == Init /\ [][Next]_vars

\* The scheduler is fair.
FairSpec == Spec /\ \A t \in Thread : WF_vars(Step(t))

-----------------------------------------------------------------------------
(* What the users of an interrupt queue are promised.                     *)

Waiting(t) == pc[t] = "waiting" /\ t \in blocked

\* Whom signal makes ready is one thread that waits for this very condition, and
\* only one thread waits at a time.
OneWaiter ==
    /\ not_empty # NoThread => Waiting(not_empty)
    /\ not_full # NoThread => Waiting(not_full)
    /\ \A t, u \in Thread : pc[t] = "waiting" /\ pc[u] = "waiting" => t = u

\* The assertion of wait holds: nobody waits for what is true already.
NoPanic == ~panicked

\* While the device goes on when it can, every call returns once no new ones
\* come, unless the assertion of wait fails before.
CallsServed ==
    WF_vars(Device) /\ <>[][\A t \in Thread : ~Call(t)]_vars
      => <>panicked \/ <>[](\A t \in Thread : pc[t] = "idle")

\* The bytes between tail and head.
Items ==
    [i \in 1..(head - tail) % INTQ_BUFSIZE |-> buf[(tail + i - 1) % INTQ_BUFSIZE]]

Fifo == INSTANCE BoundedQueue WITH items <- Items, Capacity <- INTQ_BUFSIZE - 1

\* The ring is a queue: nothing is overwritten, lost, or delivered twice.
ImplementsQueue == Fifo!QueueSpec
=============================================================================

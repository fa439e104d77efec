----------------------------- MODULE Semaphore -----------------------------
(***************************************************************************)
(* The counting semaphore of threads/synch.c as a value.  Every operation  *)
(* of the code runs with interrupts disabled on the only CPU, so each call *)
(* is one atomic update of the record; what it does to the status of the   *)
(* threads is left to the module that owns them:                           *)
(*                                                                         *)
(*   sema_down   while value = 0 the caller is queued (SemaQueue) and      *)
(*               blocks; when it runs again it tests value again; once     *)
(*               value > 0 it takes one unit (SemaTake)                    *)
(*   sema_up     the first waiter, if any, becomes ready (SemaWoken) and   *)
(*               value grows by one (SemaUp).  The woken thread does not   *)
(*               own the unit: another thread may take it first.           *)
(***************************************************************************)
EXTENDS Naturals, Sequences

\* The values of struct semaphore when T are the threads that may wait.
SemaOf(T) == [value : Nat, waiters : Seq(T)]

sema_init(v) == [value |-> v, waiters |-> <<>>]

SemaQueue(sema, t) == [sema EXCEPT !.waiters = Append(@, t)]

SemaTake(sema) == [sema EXCEPT !.value = @ - 1]

SemaUp(sema) ==
    [value   |-> sema.value + 1,
     waiters |-> IF sema.waiters = <<>> THEN <<>> ELSE Tail(sema.waiters)]

SemaWoken(sema) == IF sema.waiters = <<>> THEN {} ELSE {Head(sema.waiters)}
=============================================================================

------------------------------- MODULE MCIntq -------------------------------
(* Interrupt queues, and the console whose characters go through one: a
   behaviour is of threads and a device at a queue, or of threads that print. *)
EXTENDS Intq, Console

VARIABLE subject

Ring == subject = "queue" /\ UNCHANGED <<subject, consoleVars>>
Printing == subject = "console" /\ UNCHANGED <<subject, vars>>

\* What the queue is used for does not matter while threads print.
MCInit == subject \in {"queue", "console"} /\ Init /\ ConsoleInit /\ (subject = "console" => use = "output")
MCNext == (Ring /\ Next) \/ (Printing /\ ConsoleNext)
MCSpec ==
    /\ MCInit /\ [][MCNext]_<<subject, vars, consoleVars>>
    /\ \A t \in Thread : WF_vars(Ring /\ Step(t))
=============================================================================

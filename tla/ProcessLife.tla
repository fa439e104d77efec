---------------------------- MODULE ProcessLife ----------------------------
(***************************************************************************)
(* What the process system promises a programmer, without list, lock,      *)
(* semaphores or threads: a process runs, exits with a status, and is kept *)
(* as a zombie until its parent has been told that status once, or is gone *)
(* itself.  Starting, exiting and being told are single steps.             *)
(***************************************************************************)
EXTENDS Integers

CONSTANTS Proc, Root, Code  \* the processes; the parent of the first ones; statuses

VARIABLES
    state,      \* state[c] \in {"none", "running", "zombie", "gone"}
    parentOf,   \* the process that started c
    code,       \* the statuses c has exited with: {} or one element
    told        \* the statuses c's parent has been told: {} or one element

lifeVars == <<state, parentOf, code, told>>

LifeInit ==
    /\ state = [c \in Proc |-> "none"]
    /\ parentOf = [c \in Proc |-> Root]
    /\ code = [c \in Proc |-> {}]
    /\ told = [c \in Proc |-> {}]

CanAsk(p) == p = Root \/ (p \in Proc /\ state[p] = "running")

Start(p, c) ==
    /\ state[c] = "none"
    /\ CanAsk(p)
    /\ state' = [state EXCEPT ![c] = "running"]
    /\ parentOf' = [parentOf EXCEPT ![c] = p]
    /\ UNCHANGED <<code, told>>

\* c exits: it becomes a zombie if its parent can still ask for the status,
\* and the zombies only c could have asked for are gone.
Exit(c) ==
    /\ state[c] = "running"
    /\ state' = [d \in Proc |->
                   IF d = c THEN IF CanAsk(parentOf[c]) THEN "zombie" ELSE "gone"
                   ELSE IF parentOf[d] = c /\ state[d] = "zombie" THEN "gone"
                   ELSE state[d]]
    /\ \E v \in Code : code' = [code EXCEPT ![c] = {v}]
    /\ UNCHANGED <<parentOf, told>>

\* The parent of c is told c's status, and c is gone.
Tell(c) ==
    /\ state[c] = "zombie"
    /\ CanAsk(parentOf[c])
    /\ told' = [told EXCEPT ![c] = code[c]]
    /\ state' = [state EXCEPT ![c] = "gone"]
    /\ UNCHANGED <<parentOf, code>>

LifeNext ==
    \/ \E p \in Proc \cup {Root}, c \in Proc : Start(p, c)
    \/ \E c \in Proc : Exit(c) \/ Tell(c)

LifeSpec == LifeInit /\ [][LifeNext]_lifeVars
=============================================================================

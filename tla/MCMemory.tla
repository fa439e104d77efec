------------------------------ MODULE MCMemory ------------------------------
(* Two programs that ask for pages and blocks of all kinds.                *)
EXTENDS MemoryProperties
CONSTANTS t1, t2

Req(op, a, b, pool, zero) == [op |-> op, a |-> a, b |-> b, pool |-> pool, zero |-> zero]
Kernel(op, a, b) == Req(op, a, b, "kernel", FALSE)

MCRequests == [t \in Thread |->
    IF t = t1 THEN {Kernel("malloc", 3, 0), Kernel("realloc", 2, 0),
                    Req("page", 1, 0, "user", FALSE), Kernel("free", 0, 0)}
    ELSE {Kernel("calloc", 2, 2), Kernel("realloc", 10, 0), Kernel("realloc", 0, 0),
          Req("page", 2, 0, "kernel", TRUE), Req("page", 1, 0, "user", FALSE), Kernel("free", 0, 0)}]
MCMaxHeld == [t \in Thread |-> IF t = t1 THEN 2 ELSE 1]
=============================================================================

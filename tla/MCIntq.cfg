\* Three threads, as the input buffer and as the output queue; two threads that print.
\* The kernel may panic.
SPECIFICATION MCSpec
CONSTANTS
    Reader = {r1, r2, r3}
    Writer = {w1, w2, w3}
    NoThread = NoThread
    INTQ_BUFSIZE = 4
    Byte = {1, 2}
    Printer = {main, worker}
    Main = main
    Nobody = nobody
    TxqSize = 2
    TextLength = 2
    MaxTexts = 2
    MaxNested = 1
    MaxHandled = 1
INVARIANT OneWaiter
INVARIANT OutputWhole
PROPERTY CallsServed
PROPERTY ImplementsQueue
CHECK_DEADLOCK FALSE

------------------------------- MODULE Console -------------------------------
(***************************************************************************)
(* Printing: the console lock of lib/kernel/console.c, the serial port's   *)
(* output (devices/serial.c), and how both end at a panic or when the      *)
(* power goes off.  Threads print character by character, and interrupts   *)
(* come in between; a handler prints without the lock.  The queue between  *)
(* the threads and the port is a sequence here: module Intq has its ring   *)
(* and how a thread waits for room in it.                                  *)
(***************************************************************************)
EXTENDS Integers, Sequences

CONSTANTS
    Printer, Main,      \* threads that print; the one that starts the kernel
    Nobody,             \* holds a lock nobody holds
    TxqSize,            \* characters the queue of the port holds
    TextLength,         \* bound: characters of a text
    MaxTexts, MaxNested, MaxHandled \* bounds: texts of a thread, prints within prints, of handlers

ASSUME ConsoleAssumption == Main \in Printer /\ Nobody \notin Printer /\ TxqSize \in Nat \ {0} /\ TextLength \in Nat \ {0}

VARIABLES
    boot,               \* "early", before console_init; "alone", before thread_start; then "running"
    panicking,          \* console_panic was called: no lock from now on
    leaving, halted,    \* threads that flushed the port to switch the machine off; who did
    console_lock, console_lock_depth,
    serial,             \* mode, the queue txq, what was sent, whether the port interrupts when it is ready
    stack,              \* of each thread: the prints it is in, innermost last
    texts,              \* how many texts each began, Nobody for the handlers
    given, shown        \* every character given to serial_putc, and to vga_putc

consoleVars == <<boot, panicking, leaving, halted, console_lock, console_lock_depth, serial, stack, texts, given, shown>>

\* Character k of the n-th text somebody prints.
TextOf(who, n) == [k \in 1..TextLength |-> <<who, n, k>>]
Top(t) == stack[t][Len(stack[t])]
SetTop(t, frame) == stack' = [stack EXCEPT ![t][Len(stack[t])] = frame]

ConsoleInit ==
    /\ boot = "early" /\ panicking = FALSE /\ leaving = {} /\ halted = Nobody
    /\ console_lock = Nobody /\ console_lock_depth = 0
    /\ serial = [mode |-> "UNINIT", txq |-> <<>>, sent |-> <<>>, xmit |-> FALSE]
    /\ stack = [t \in Printer |-> <<>>]
    /\ texts = [t \in Printer \cup {Nobody} |-> 0]
    /\ given = <<>> /\ shown = <<>>

On == halted = Nobody
use_console_lock == boot # "early" /\ ~panicking

-----------------------------------------------------------------------------
(* The serial port                                                          *)

write_ier(s) == [s EXCEPT !.xmit = s.txq # <<>>]

\* A thread waits while the queue is full; with interrupts off the oldest character goes out by polling.
Accepts(s, intr_off) == s.mode # "QUEUE" \/ intr_off \/ Len(s.txq) < TxqSize
serial_putc(s, ch) ==
    IF s.mode # "QUEUE" THEN [s EXCEPT !.mode = "POLL", !.sent = Append(@, ch)]
    ELSE IF Len(s.txq) < TxqSize THEN write_ier([s EXCEPT !.txq = Append(@, ch)])
    ELSE write_ier([s EXCEPT !.sent = Append(@, Head(s.txq)), !.txq = Append(Tail(@), ch)])

serial_flush(s) == [s EXCEPT !.sent = @ \o s.txq, !.txq = <<>>]

serial_init_queue ==
    /\ On /\ boot = "running" /\ serial.mode # "QUEUE" /\ stack[Main] = <<>>
    /\ serial' = write_ier([serial EXCEPT !.mode = "QUEUE"])
    /\ UNCHANGED <<boot, panicking, leaving, halted, console_lock, console_lock_depth, stack, texts, given, shown>>

\* The port takes some characters, if the queue was not flushed in the meantime.
serial_interrupt ==
    /\ On /\ serial.xmit
    /\ \E n \in 0..Len(serial.txq) :
          /\ n > 0 \/ serial.txq = <<>>
          /\ serial' = write_ier([serial EXCEPT !.sent = @ \o SubSeq(serial.txq, 1, n),
                                                !.txq = SubSeq(@, n + 1, Len(@))])
    /\ UNCHANGED <<boot, panicking, leaving, halted, console_lock, console_lock_depth, stack, texts, given, shown>>

-----------------------------------------------------------------------------
(* Printing                                                                 *)

\* Main prints alone before the threads start, and until the port has its queue.
MayPrint(t) == On /\ t \notin leaving /\ (t = Main \/ serial.mode = "QUEUE")

\* Mutant: a thread that has the lock is not counted.
acquire_console_NoDepth(t) ==
    IF ~use_console_lock THEN UNCHANGED <<console_lock, console_lock_depth>>
    ELSE console_lock \in {t, Nobody} /\ console_lock' = t /\ UNCHANGED console_lock_depth

acquire_console(t) ==
    IF ~use_console_lock THEN UNCHANGED <<console_lock, console_lock_depth>>
    ELSE IF console_lock = t THEN console_lock_depth' = console_lock_depth + 1 /\ UNCHANGED console_lock
    ELSE console_lock = Nobody /\ console_lock' = t /\ UNCHANGED console_lock_depth

release_console ==
    IF ~use_console_lock THEN UNCHANGED <<console_lock, console_lock_depth>>
    ELSE IF console_lock_depth > 0 THEN console_lock_depth' = console_lock_depth - 1 /\ UNCHANGED console_lock
    ELSE console_lock' = Nobody /\ UNCHANGED console_lock_depth

\* A print begins, or one within a print: what runs when interrupts come on between two
\* characters may print as the thread that is printing.
BeginPrint(t) ==
    /\ MayPrint(t)
    /\ texts[t] < MaxTexts
    /\ stack[t] # <<>> => boot = "running" /\ Len(stack[t]) <= MaxNested
    /\ acquire_console(t)
    /\ texts' = [texts EXCEPT ![t] = @ + 1]
    /\ stack' = [stack EXCEPT ![t] = Append(@, [text |-> TextOf(t, texts[t] + 1), sent |-> FALSE])]
    /\ UNCHANGED <<boot, panicking, leaving, halted, serial, given, shown>>

\* putchar_have_lock: first the serial port, then the screen, each with interrupts off.
PutSerial(t) ==
    /\ On /\ stack[t] # <<>> /\ Top(t).text # <<>> /\ ~Top(t).sent
    /\ Accepts(serial, boot # "running")
    /\ serial' = serial_putc(serial, Head(Top(t).text))
    /\ given' = Append(given, Head(Top(t).text))
    /\ SetTop(t, [Top(t) EXCEPT !.sent = TRUE])
    /\ UNCHANGED <<boot, panicking, leaving, halted, console_lock, console_lock_depth, texts, shown>>
PutScreen(t) ==
    /\ On /\ stack[t] # <<>> /\ Top(t).sent
    /\ shown' = Append(shown, Head(Top(t).text))
    /\ SetTop(t, [text |-> Tail(Top(t).text), sent |-> FALSE])
    /\ UNCHANGED <<boot, panicking, leaving, halted, console_lock, console_lock_depth, serial, texts, given>>

EndPrint(t) ==
    /\ On /\ stack[t] # <<>> /\ Top(t).text = <<>>
    /\ release_console
    /\ stack' = [stack EXCEPT ![t] = SubSeq(@, 1, Len(@) - 1)]
    /\ UNCHANGED <<boot, panicking, leaving, halted, serial, texts, given, shown>>

\* A handler prints one character; intr_context keeps it off the lock.
PrintInHandler ==
    LET ch == <<Nobody, texts[Nobody] + 1, 1>>
    IN  /\ On /\ boot = "running" /\ texts[Nobody] < MaxHandled
        /\ texts' = [texts EXCEPT ![Nobody] = @ + 1]
        /\ serial' = serial_putc(serial, ch)
        /\ given' = Append(given, ch) /\ shown' = Append(shown, ch)
        /\ UNCHANGED <<boot, panicking, leaving, halted, console_lock, console_lock_depth, stack>>

-----------------------------------------------------------------------------
(* The start and the end                                                    *)

console_init ==
    /\ boot = "early" /\ stack[Main] = <<>> /\ boot' = "alone"
    /\ UNCHANGED <<panicking, leaving, halted, console_lock, console_lock_depth, serial, stack, texts, given, shown>>
thread_start ==
    /\ boot = "alone" /\ stack[Main] = <<>> /\ boot' = "running"
    /\ UNCHANGED <<panicking, leaving, halted, console_lock, console_lock_depth, serial, stack, texts, given, shown>>

\* With interrupts off the message is printed past the lock, whoever holds it, and the queue flushed.
debug_panic(t) ==
    LET message == TextOf(t, texts[t] + 1)
        put[k \in 0..TextLength] == IF k = 0 THEN serial ELSE serial_putc(put[k - 1], message[k])
    IN  /\ MayPrint(t)
        /\ panicking' = TRUE /\ halted' = t
        /\ serial' = serial_flush(put[TextLength])
        /\ given' = given \o message /\ shown' = shown \o message
        /\ texts' = [texts EXCEPT ![t] = @ + 1]
        /\ UNCHANGED <<boot, leaving, console_lock, console_lock_depth, stack>>

\* hard_power_off: when its own prints are done the thread flushes the queue; what others
\* print before the power is gone stays behind.
FlushForPowerOff(t) ==
    /\ MayPrint(t) /\ stack[t] = <<>> /\ texts[t] > 0
    /\ serial' = serial_flush(serial) /\ leaving' = leaving \cup {t}
    /\ UNCHANGED <<boot, panicking, halted, console_lock, console_lock_depth, stack, texts, given, shown>>
PowerOff(t) ==
    /\ On /\ t \in leaving
    /\ halted' = t
    /\ UNCHANGED <<boot, panicking, leaving, console_lock, console_lock_depth, serial, stack, texts, given, shown>>

ConsoleNext ==
    \/ console_init \/ thread_start \/ serial_init_queue \/ serial_interrupt \/ PrintInHandler
    \/ \E t \in Printer : BeginPrint(t) \/ PutSerial(t) \/ PutScreen(t) \/ EndPrint(t) \/ debug_panic(t) \/ FlushForPowerOff(t) \/ PowerOff(t)

ConsoleSpec == ConsoleInit /\ [][ConsoleNext]_consoleVars

-----------------------------------------------------------------------------
(* What the console promises of the texts printed on it.                   *)

By(ch) == ch[1]
PrintedBy(out, t) == {out[i] : i \in {k \in DOMAIN out : By(out[k]) = t}}
CharactersOf(t) == {TextOf(t, n)[k] : n \in 1..texts[t], k \in 1..TextLength}

\* Between two characters of one text stand only characters of handlers, of what the same
\* thread printed in between, or of the panic that ended everything; each text is in order
\* and, once its print has ended, complete.
TextsWhole(out) ==
    /\ \A i, k \in DOMAIN out : i < k /\ By(out[i]) = By(out[k]) /\ out[i][2] = out[k][2] =>
          /\ out[i][3] < out[k][3]
          /\ \A j \in i..k : By(out[j]) \in {By(out[i]), Nobody}
    /\ \A t \in Printer : stack[t] = <<>> => PrintedBy(out, t) = CharactersOf(t)

\* The port and the screen get every text whole, whoever prints next to it, within it or from
\* a handler, before the console has its lock and the port its queue, and after.  The port sends
\* them in the order it was given them, and interrupts as long as there are any.  The lock is
\* nobody's when nobody prints.  What a thread printed before it switched the machine off, or
\* why it panicked, is sent.
OutputWhole ==
    /\ TextsWhole(given) /\ TextsWhole(shown)
    /\ serial.sent \o serial.txq = given
    /\ On /\ serial.txq # <<>> => serial.xmit
    /\ On /\ (\A t \in Printer : stack[t] = <<>>) => console_lock = Nobody /\ console_lock_depth = 0
    /\ halted # Nobody => \A i \in DOMAIN serial.txq : By(serial.txq[i]) # halted
=============================================================================

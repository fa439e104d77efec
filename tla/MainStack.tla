----------------------------- MODULE MainStack -----------------------------
(***************************************************************************)
(* The stack main is entered with (userprog/process.c): setup_main_stack   *)
(* lays the words of the command line, the array argv and the arguments of *)
(* main out below stack_top.  A word of memory holds its value in its      *)
(* first byte and Part in the other three, so that a byte written into it  *)
(* shows.                                                                  *)
(***************************************************************************)
EXTENDS Algorithms

CONSTANT StackPage      \* bytes of the page below stack_top, all 0 at first

Part == -1
Blank == 2              \* the one delimiter

exists_in(c, d) == c \in d \cup {0}

count_args(m, delimiters) ==
    LET count(r, i) == LET delim == exists_in(m[i], delimiters)
                       IN  [argc |-> r.argc + (IF r.delim /\ ~delim THEN 1 ELSE 0), delim |-> delim]
    IN  FoldLeft(count, [argc |-> 0, delim |-> TRUE], Up(strlen(m, 0))).argc

Store(m, at, word) == [m EXCEPT ![at] = word, ![at + 1] = Part, ![at + 2] = Part, ![at + 3] = Part]

\* The members of struct main_args: ret, argc, argv.
RET == 0
ARGC == 4
ARGV == 8
main_args == 12

\* line_size is rounded up to whole words, so that argv lies on a word.
LineSize(m) == LET n == strlen(m, 0) + 1 IN n + (IF n % 4 > 0 THEN 4 - (n % 4) ELSE 0)
TotalSize(m) == LineSize(m) + main_args + 4 * (count_args(m, {Blank}) + 1)

\* Each word strtok_r finds is copied behind the one before; argv[argc] is left as it was.
CopyWords(stack, words, argv, at) ==
    LET copy(s, word) ==
            LET text == [i \in 0..Len(word) |-> IF i = Len(word) THEN 0 ELSE word[i + 1]]
                copied == [a \in DOMAIN s.stack |-> IF a \in s.at..(s.at + Len(word)) THEN text[a - s.at] ELSE s.stack[a]]
            IN  [stack |-> Store(copied, argv + 4 * s.i, s.at), at |-> s.at + Len(word) + 1, i |-> s.i + 1]
    IN  FoldLeft(copy, [stack |-> stack, at |-> at, i |-> 0], words).stack

setup_main_stack(m, stack_top) ==
    LET esp == stack_top - TotalSize(m)
        zero == [a \in (stack_top - StackPage)..(stack_top - 1) |-> 0]
        called == Store(Store(Store(zero, esp + RET, 0), esp + ARGC, count_args(m, {Blank})), esp + ARGV, esp + main_args)
    IN  [esp |-> esp, stack |-> CopyWords(called, Tokens(m, 0, {Blank}), esp + main_args, stack_top - LineSize(m))]
=============================================================================

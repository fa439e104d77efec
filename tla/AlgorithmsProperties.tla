------------------------ MODULE AlgorithmsProperties ------------------------
(***************************************************************************)
(* What the comments on the functions of lib/ say they compute, and what   *)
(* main may expect of its stack, a key of the program that reads it, text  *)
(* of the screen and of printf, and the kernel of its start.               *)
(***************************************************************************)
EXTENDS MainStack, Terminal, Formatting, Startup

CONSTANT Inputs
VARIABLE input          \* what the functions are called with

None == [kind |-> "none"]

\* Division of C: towards zero.
CDivide(n, d) == LET abs(k) == IF k < 0 THEN 0 - k ELSE k
                 IN  IF (n < 0) = (d < 0) THEN abs(n) \div abs(d) ELSE 0 - (abs(n) \div abs(d))

DividedRight(n, d) ==
    /\ udiv64(n, d) = n \div d
    /\ umod64(n, d) = (n % d) % b
    /\ sdiv64(Signed(n), Signed(d)) = Signed(Long(CDivide(Signed(n), Signed(d))))

Sorted(a) == \A i, j \in DOMAIN a : i < j => a[i] <= a[j]
Count(a, x) == Cardinality({i \in DOMAIN a : a[i] = x})

SortedRight(a) ==
    LET t == heap_sort(a)
    IN  /\ Sorted(t) /\ Len(t) = Len(a) /\ \A x \in ToSet(a) : Count(t, x) = Count(a, x)
        /\ \A key \in 0..4 : IF key \in ToSet(a) THEN t[binary_search(key, t)] = key
                             ELSE binary_search(key, t) = 0

Text(m, s) == [i \in 1..strlen(m, s) |-> m[s + i - 1]]
Prefix(t, n) == SubSeq(t, 1, Lesser(Len(t), n))
Space == 2

\* The words of a text, in order.
Words(t) ==
    LET starts == SelectSeq([i \in DOMAIN t |-> i], LAMBDA i : t[i] # Space /\ (i = 1 \/ t[i - 1] = Space))
        end(i) == CHOOSE e \in i..Len(t) : (e = Len(t) \/ t[e + 1] = Space) /\ \A k \in i..e : t[k] # Space
    IN  [k \in DOMAIN starts |-> SubSeq(t, starts[k], end(starts[k]))]

\* The string at dst is t, and nothing outside the size bytes there has changed.
Holds(new, m, dst, size, t) ==
    /\ size > 0 => Text(new, dst) = t
    /\ \A a \in DOMAIN m \ dst..(dst + size - 1) : new[a] = m[a]

\* Strings that end inside m.
Strings(m) == {s \in DOMAIN m : \E a \in DOMAIN m : a >= s /\ m[a] = 0}

CopiedRight(m) ==
    LET room(a) == Cardinality(DOMAIN m) - a
    IN  /\ \A dst, src \in DOMAIN m : \A size \in 0..Lesser(room(dst), room(src)) :
              LET right == [a \in DOMAIN m |-> IF a \in dst..(dst + size - 1) THEN m[src + a - dst] ELSE m[a]]
              IN  memmove(m, dst, src, size) = right
                  /\ ((dst..(dst + size - 1)) \cap (src..(src + size - 1)) = {} => memcpy(m, dst, src, size) = right)
        /\ \A src \in Strings(m) :
              /\ LET t == Text(m, src)
                     word == IF Words(t) = <<>> THEN <<>> ELSE Words(t)[1]
                 IN  /\ Tokens(m, src, {Space}) = Words(t)
                     /\ \A dst \in DOMAIN m, size \in 0..room(0) :
                           dst + size <= room(0) /\ (dst + size <= src \/ dst > src + Len(t)) =>
                              /\ Holds(strlcpy(m, dst, src, size), m, dst, size, Prefix(t, size - 1))
                              /\ Holds(strlcpy_first_word(m, dst, src, size, Space), m, dst, size, Prefix(word, size - 1))
                              /\ dst \in Strings(m) /\ strlen(m, dst) < size =>
                                    Holds(strlcat(m, dst, src, size), m, dst, size, Prefix(Text(m, dst) \o t, size - 1))
              /\ \A needle \in Strings(m) :
                    LET n == strlen(m, needle)
                        places == {a \in src..(src + strlen(m, src) - n) : SubSeq(Text(m, a), 1, n) = Text(m, needle)}
                    IN  strstr(m, src, needle) = {a \in places : \A c \in places : a <= c}

\* Searching and comparing, against the texts the strings are.
FoundRight(m) ==
    \A s, u \in Strings(m) :
        LET t == Text(m, s)
            v == Text(m, u)
            common == CHOOSE n \in 0..Lesser(Len(t), Len(v)) :
                          Prefix(t, n) = Prefix(v, n) /\ (n \in {Len(t), Len(v)} \/ t[n + 1] # v[n + 1])
            At(x, n) == IF n < Len(x) THEN x[n + 1] ELSE 0
            order == IF At(t, common) < At(v, common) THEN -1 ELSE IF At(t, common) > At(v, common) THEN 1 ELSE 0
            allIn(n) == ToSet(Prefix(t, n)) \subseteq ToSet(v)
            noneIn(n) == ToSet(Prefix(t, n)) \cap ToSet(v) = {}
            longest(Test(_), n) == n \in 0..Len(t) /\ Test(n) /\ \A k \in (n + 1)..Len(t) : ~Test(k)
        IN  /\ strcmp(m, s, u) = order /\ (order = 0 <=> t = v)
            /\ \A n \in 0..Lesser(Len(t), Len(v)) : memcmp(m, s, u, n) = IF n <= common THEN 0 ELSE order
            /\ longest(allIn, strspn(m, s, u)) /\ longest(noneIn, strcspn(m, s, u))
            /\ strpbrk(m, s, u) = IF noneIn(Len(t)) THEN {} ELSE {s + strcspn(m, s, u)}
            /\ \A c \in 0..2 :
                  /\ strchr(m, s, c) = memchr(m, s, c, Len(t) + 1)
                  /\ IF c \in ToSet(t) THEN \E a \in strrchr(m, s, c) : m[a] = c /\ c \notin ToSet(Text(m, a + 1))
                     ELSE strrchr(m, s, c) = {} /\ (c # 0 => strchr(m, s, c) = {})

\* A text of white space, a sign and digits is its number, and no value on the way is larger
\* than a word holds if the number is not.
ParsedRight(blanks, sign, digits) ==
    LET text == [i \in 1..blanks |-> 32] \o sign \o [i \in DOMAIN digits |-> digits[i] + 48]
        number == FoldLeft(LAMBDA v, d : 10 * v + d, 0, digits)
        int == 0 - 2 ^ (Bits - 1)..2 ^ (Bits - 1) - 1
    IN  \A end \in {<<>>, <<32>>, <<45>>} :
            LET values == atoi(text \o end)
            IN  /\ Last(values) = IF sign = <<45>> THEN 0 - number ELSE number
                /\ Last(values) \in int => ToSet(values) \subseteq int

StackTop == 64

\* main finds its arguments on the stack: argc and argv, the words of the command line in
\* their order, each ended by a 0, and a null pointer behind the last.  The stack pointer is
\* a multiple of the word, and none of the parts written overwrites another.
StackRight(m) ==
    \A made \in {setup_main_stack(m, StackTop)} :
    LET word(at) == IF \A i \in 1..3 : made.stack[at + i] = Part THEN made.stack[at]
                    ELSE IF \A i \in 0..3 : made.stack[at + i] = 0 THEN 0 ELSE Part
        words == Words(Text(m, 0))
        argv == word(made.esp + ARGV)
        argc == Len(words)
    IN  /\ made.esp % 4 = 0 /\ word(made.esp + RET) = 0 /\ word(made.esp + ARGC) = argc
        /\ argv >= made.esp + main_args /\ word(argv + 4 * argc) = 0
        /\ \A i \in 1..argc :
              LET at == word(argv + 4 * (i - 1))
              IN  at >= argv + 4 * (argc + 1) /\ Text(made.stack, at) = words[i]

\* The bits set in a bitmap, and the bitmap of a set of bits.
SetBits(bm) == {i \in 0..(bm.bit_cnt - 1) : bitmap_test(bm, i)}
BitmapOf(cnt, set) == FoldLeft(LAMBDA x, i : IF i \in set THEN bitmap_mark(x, i) ELSE x, bitmap_create(cnt), Up(cnt))

BitmapRight(cnt, set) ==
    LET bm == BitmapOf(cnt, set)
        Is(x, s) == SetBits(x) = s /\ bitmap_count(x, 0, cnt, TRUE) = Cardinality(s)
        final == ElemCnt(cnt) - 1
    IN  /\ Is(bm, set)
        /\ \A i \in 0..(cnt - 1) :
              /\ Is(bitmap_set(bm, i, TRUE), set \cup {i}) /\ Is(bitmap_set(bm, i, FALSE), set \ {i})
              /\ Is(bitmap_flip(bm, i), (set \ {i}) \cup ({i} \ set))
        /\ \A start \in 0..cnt, n \in 0..(cnt + 1) :
              /\ start + n <= cnt =>
                    /\ Is(bitmap_set_multiple(bm, start, n, TRUE), set \cup start..(start + n - 1))
                    /\ Is(bitmap_set_multiple(bm, start, n, FALSE), set \ start..(start + n - 1))
              /\ LET found == bitmap_scan_and_flip(bm, start, n, FALSE)
                     free == {i \in start..cnt : i + n <= cnt /\ i..(i + n - 1) \cap set = {}}
                 IN  IF free = {} THEN found.idx = BITMAP_ERROR /\ found.bm = bm
                     ELSE found.idx \in free /\ (\A i \in free : found.idx <= i)
                          /\ Is(found.bm, set \cup found.idx..(found.idx + n - 1))
        /\ LET file == [i \in 0..final |-> bm.bits[i] + IF i = final /\ cnt % ELEM_BITS # 0 THEN 2 ^ (ELEM_BITS - 1) ELSE 0]
           IN  bitmap_read(bitmap_create(cnt), file) = bm

-----------------------------------------------------------------------------
(* Keys: of the letter A, of 1 and !, and of [ and {, after any other keys. *)

KeysRight(codes) ==
    LET held(key, i) == \E j \in 1..(i - 1) : codes[j] = [code |-> key, release |-> FALSE]
                            /\ \A k \in (j + 1)..(i - 1) : codes[k] # [code |-> key, release |-> TRUE]
        shift(i) == \E key \in Shift : held(key, i)
        caps(i) == Cardinality({j \in 1..(i - 1) : codes[j] = [code |-> CapsLock, release |-> FALSE]}) % 2 = 1
        ctrl(i) == \E key \in Ctrl : held(key, i)
        expected(i) == (IF \E key \in Alt : held(key, i) THEN 128 ELSE 0) +
            CASE codes[i].code = 30 -> IF ctrl(i) THEN 1 ELSE IF shift(i) # caps(i) THEN 65 ELSE 97
              [] codes[i].code = 2  -> IF shift(i) THEN 33 ELSE 49
              [] codes[i].code = 26 -> IF shift(i) THEN 123 ELSE IF ctrl(i) THEN 27 ELSE 91
        typed == SelectSeq([i \in DOMAIN codes |-> i], LAMBDA i : codes[i].code \in {2, 26, 30} /\ ~codes[i].release)
    IN  FoldLeft(keyboard_interrupt, Keyboard, codes).chars = [k \in DOMAIN typed |-> expected(typed[k])]

-----------------------------------------------------------------------------
(* The screen shows the last rows of a page of any length.                  *)

Written(page, c) ==
    LET NewLine(p) == [p EXCEPT !.x = 0, !.y = @ + 1]
        Wrap(p) == IF p.x >= COL_CNT THEN NewLine(p) ELSE p
    IN  CASE c = 10 -> NewLine(page)
          [] c = 12 -> [x |-> 0, y |-> 0, ink |-> <<>>]
          [] c = 13 -> [page EXCEPT !.x = 0]
          [] c = 8 /\ page.x > 0 -> [page EXCEPT !.x = @ - 1]
          [] c = 8 /\ page.x = 0 -> page
          [] c = 9 -> Wrap([page EXCEPT !.x = @ + 8 - (@ % 8)])
          [] OTHER -> Wrap([page EXCEPT !.x = @ + 1, !.ink = Append(@, <<page.y, page.x, c>>)])

ScreenRight(text) ==
    LET screen == FoldLeft(vga_putc, cls, text)
        page == FoldLeft(Written, [x |-> 0, y |-> 0, ink |-> <<>>], text)
        top == IF page.y < ROW_CNT THEN 0 ELSE page.y - ROW_CNT + 1
        drawn(y, x) == {i \in DOMAIN page.ink : page.ink[i][1] = y /\ page.ink[i][2] = x}
        shown(y, x) == IF drawn(y, x) = {} THEN 32 ELSE page.ink[CHOOSE i \in drawn(y, x) : \A j \in drawn(y, x) : j <= i][3]
    IN  /\ screen.cx = page.x /\ screen.cy = page.y - top
        /\ \A y \in 0..(ROW_CNT - 1), x \in 0..(COL_CNT - 1) : screen.fb[y][x] = shown(top + y, x)

-----------------------------------------------------------------------------
(* Conversions of printf.                                                   *)

Base(letter) == CASE letter \in {"d", "u"} -> 10 [] letter = "o" -> 8 [] letter \in {"x", "p"} -> 16
Repeat(ch, n) == [i \in 1..n |-> ch]
Drop(t, n) == SubSeq(t, n + 1, Len(t))

\* What a number is written as when nothing pads it: its sign, its prefix, then digits worth
\* its absolute value, no fewer than the precision.
NumberRight(t, flags, precision, letter, arg) ==
    LET abs == IF arg < 0 THEN 0 - arg ELSE arg
        sign == IF arg < 0 THEN <<"-">> ELSE IF letter # "d" THEN <<>>
                ELSE IF "+" \in flags THEN <<"+">> ELSE IF " " \in flags THEN <<" ">> ELSE <<>>
        prefix == IF Base(letter) = 16 /\ arg # 0 /\ (letter = "p" \/ "#" \in flags) THEN <<"0", "x">> ELSE <<>>
        rest == Drop(t, Len(sign) + Len(prefix))
        digits == SelectSeq(rest, LAMBDA ch : ch # ",")
    IN  /\ Prefix(t, Len(sign) + Len(prefix)) = sign \o prefix
        /\ FoldLeft(LAMBDA v, ch : Base(letter) * v + Value(ch), 0, digits) = abs
        /\ Len(rest) >= precision /\ (abs = 0 => Len(rest) = (IF letter = "o" /\ "#" \in flags /\ precision = 0 THEN 1 ELSE precision))
        /\ letter = "o" /\ "#" \in flags => digits[1] = "0"

\* With a width the same is written, padded to it on the side the flags name.
PaddedRight(t, bare, flags, width, zeros) ==
    LET pad == width - Len(bare)
    IN  IF pad <= 0 THEN t = bare
        ELSE IF "-" \in flags THEN t = bare \o Repeat(" ", pad)
        ELSE IF zeros THEN \E n \in 0..3 : t = Prefix(bare, n) \o Repeat("0", pad) \o Drop(bare, n)
        ELSE t = Repeat(" ", pad) \o bare

FormattedRight(flags, width) ==
    \A precision \in {-1, 0, 3}, letter \in {"d", "u", "o", "x", "p"} :
    \A arg \in IF letter = "d" THEN {-12, 0, 8, 1234} ELSE {0, 8, 1234} :
        LET dot == IF precision < 0 THEN <<letter>> ELSE <<".", "*", letter>>
            args == IF precision < 0 THEN <<arg>> ELSE <<precision, arg>>
            flagged == SetToSeq(flags)
            least == IF precision < 0 THEN 1 ELSE precision
            of == IF letter = "p" THEN {"#"} ELSE flags
            left == IF letter = "p" THEN of ELSE of \cup {"-"}
        IN  \A bare \in {Convert(flagged \o dot, args)} :
            \A padded \in {Convert(flagged \o <<Digits[width + 1]>> \o dot, args)} :
            \A starred \in {Convert(flagged \o <<"*">> \o dot, <<0 - width>> \o args)} :
            \A string \in {Convert(flagged \o <<Digits[width + 1], ".", Digits[least + 1], "s">>, <<<<"a", "b">>>>)} :
                /\ NumberRight(bare, of, least, letter, arg)
                /\ PaddedRight(padded, bare, of, width, "0" \in of /\ precision < 0)
                /\ precision < 0 /\ "0" \notin flags => PaddedRight(starred, bare, left, width, FALSE)
                /\ letter = "d" => PaddedRight(string, Prefix(<<"a", "b">>, least), flags, width, FALSE)
                /\ \A size \in 0..4 : LET r == vsnprintf(size, bare)
                                      IN  r.length = Len(bare) /\ r.buffer = Prefix(bare, IF size = 0 THEN 0 ELSE size - 1)

-----------------------------------------------------------------------------
(* The start.                                                               *)

\* A delay loop calibrated on a processor of any speed is at most a refinement too short, and
\* at most a third too long, if the first guess is not too long already.  The timer ticks as
\* often as it is asked to, rounded.  A sleep is rounded down, by less than the unit its
\* scaling leaves.
TimerRight(speed) ==
    LET loops == timer_calibrate(speed)
        step == Doubled(speed) \div 2 ^ (TickBits - 1)
    IN  /\ loops > speed - step
        /\ speed >= 2 ^ TickBits => 3 * loops <= 4 * speed
        /\ \A num \in 0..12, denom \in {Kilo, Kilo ^ 2, Kilo ^ 3}, freq \in {19, 30} :
              LET slept == real_time_sleep(num, denom, freq, loops)
                  asked == num * freq
              IN  IF asked >= denom THEN slept.ticks = asked \div denom /\ slept.loops = 0
                  ELSE slept.ticks = 0 /\ loops * asked - slept.loops * denom \in 0..(denom + Kilo * freq - 1)

PitRight(freq) == LET off == PitCount(freq) * freq - PIT_HZ IN 2 * off <= freq /\ 0 - 2 * off <= freq

\* An ATA disk that is ready in the time the standard gives it, works and identifies itself is
\* found with its capacity, whatever else is on the channel - unless a master says that its
\* slave is broken and does not work either; nothing else is taken for a disk.
DisksRight(master, slave) ==
    LET disk == disk_init(master, slave)
        Works(device, errors) == device.type \in {"ata", "sata"} /\ device.answers /\ device.error \in errors
        inTime(device) == device.reset <= MaxPolls
        Is(d, device) == d = [is_ata |-> TRUE, capacity |-> device.id[1] + device.id[2] * 65536]
        None1 == [is_ata |-> FALSE, capacity |-> 0]
    IN  /\ IF Works(master, {1, 129}) THEN Is(disk[1], master) \/ (~inTime(master) /\ disk[1] = None1) ELSE disk[1] = None1
        /\ IF Works(slave, {1}) THEN Is(disk[2], slave) \/ (disk[2] = None1 /\
                (~inTime(slave) \/ (master.error = 129 /\ (master.type \notin {"ata", "sata"} \/ ~inTime(master)))))
           ELSE disk[2] = None1

SectorRight(sec_no) ==
    LET lba == select_sector(sec_no) IN sec_no = lba[1] + Byte * (lba[2] + Byte * (lba[3] + Byte * lba[4]))

\* A name as it was before each pair was swapped, without the blanks at its end.
NameRight(name) ==
    LET stored == [i \in DOMAIN name |-> name[IF i % 2 = 1 THEN i + 1 ELSE i - 1]]
        printed == print_ata_string(stored)
    IN  /\ printed = Prefix(name, Len(printed))
        /\ \A i \in DOMAIN name : i > Len(printed) => name[i] \in {0, 32}
        /\ printed # <<>> => Last(printed) \notin {0, 32}

\* Every page of memory is mapped once, all but the kernel's text to be written, by as few
\* page tables as hold them.
PagingRight(ram_pages, text, base) ==
    LET made == paging_init(ram_pages, text, base)
        At(page) == <<made.pd[(base + page) \div TableSize], (base + page) % TableSize>>
    IN  /\ Cardinality(DOMAIN made.entry) = ram_pages
        /\ \A page \in 0..(ram_pages - 1) : made.entry[At(page)] = [page |-> page, writable |-> page \notin text]
        /\ Cardinality(DOMAIN made.pd) = made.pages /\ (made.pages - 2) * TableSize < ram_pages

\* Files are put one after the other from where the host laid them out, and got in the same
\* layout; the disk behind them is not touched, and room is missed only when there is none.
ScratchRight(files, room) ==
    LET Laid(name, file) ==
            <<[n \in 1..DISK_SECTOR_SIZE |-> CASE n = 1 -> name [] n = 2 -> Len(file) [] OTHER -> 0]>> \o
            [k \in 1..Sectors(Len(file)) |-> [n \in 1..DISK_SECTOR_SIZE |->
                LET i == (k - 1) * DISK_SECTOR_SIZE + n IN IF i <= Len(file) THEN file[i] ELSE 0]]
        layout(name) == FoldLeft(LAMBDA d, file : d \o Laid(name, file), <<>>, files)
        put(s, file) == LET r == fsutil_put(layout("PUT"), s.sector)
                        IN  [sector |-> r.sector, files |-> Append(s.files, r.file)]
        got == FoldLeft(fsutil_get, [disk |-> [k \in 1..room |-> <<>>], sector |-> 1, panic |-> FALSE], files)
        size == Len(layout("GET"))
    IN  /\ FoldLeft(put, [sector |-> 1, files |-> <<>>], files).files = files
        /\ got.panic = (size > room)
        /\ \A k \in 1..room : got.disk[k] = IF k <= size THEN layout("GET")[k] ELSE <<>>

\* The words of the command line are found where they begin, and too few of them are missed.
WordsRight(m, cnt) ==
    LET read == read_command_line(m, cnt)
        starts == SelectSeq(Up(Cardinality(DOMAIN m)), LAMBDA a : a = 0 \/ m[a - 1] = 0)
    IN  read.panic = (cnt > Len(starts)) /\ read.argv = Prefix(starts, cnt)

\* Options count up to the first word that is none, each as often as it is given, the last
\* number taken.  Actions get the words they need, in order, until one is unknown or lacks a
\* word; none is begun when an option is wrong, or asks for help.
CommandRight(words) ==
    LET r == main(words)
        options == {i \in DOMAIN words : \A j \in 1..i : words[j].dash}
        given(name) == {i \in options : words[i].name = name}
        wrong == {i \in options : words[i].name = "-x" \/ (words[i].name \in Numbers /\ words[i].value = NoValue)}
        rest == Drop(words, Cardinality(options))
        done == FoldLeft(LAMBDA t, c : t \o c, <<>>, r.called)
        left == Drop(rest, Len(done))
    IN  IF wrong \cup given("-h") # {}
        THEN /\ r.called = <<>>
             /\ r.end = IF \E i \in given("-h") : \A j \in wrong : i < j THEN "off" ELSE "panic"
        ELSE /\ \A name \in Numbers :
                   \/ given(name) = {} /\ r.set[name] = 0
                   \/ \E i \in given(name) : r.set[name] = words[i].value /\ \A j \in given(name) : j <= i
             /\ (r.set["-Q"] = 1 <=> given("-Q") # {}) /\ (r.set["-q"] = 1 <=> given("-q") \cup given("-Q") # {})
             /\ Prefix(rest, Len(done)) = done
             /\ \A i \in DOMAIN r.called : Len(r.called[i]) = IF r.called[i][1].name = "ls" THEN 1 ELSE 2
             /\ IF left = <<>> THEN r.end = IF r.set["-q"] = 1 THEN "power_off" ELSE "exit"
                ELSE r.end = "panic" /\ left[1].name # "ls" /\ (left[1].name = "run" => Len(left) = 1)

\* However the generator is seeded and used, each value stays in its table once, so that each can
\* still come; and it does not matter in what portions bytes are drawn.
RandomRight(seed) ==
    LET start == random_init(seed)
    IN  \A n \in 0..5 :
          LET first == random_bytes(start, n)
              all == random_bytes(start, 2 * n)
          IN  /\ \A x \in 0..(Byte - 1) : \E i \in DOMAIN first.s : first.s[i] = x
              /\ \A k \in n..(2 * n) : first.buf \o random_bytes(first, k - n).buf = Prefix(all.buf, k)

-----------------------------------------------------------------------------
\* The functions compute what their comments say, for all inputs up to the bounds: long
\* division never traps and is exact for every divisor, of either sign; the heap is sorted
\* and searched to its ends; copies that overlap or just fit move each byte once and touch
\* nothing else; a search finds the first place or none.  The remainder is exact as far as the short word it is returned in holds.
\* A bitmap is the set of its marked bits, up to the unused bits of its last word.  main gets
\* the words of its command line, above everything the kernel put on its stack.  A key gives
\* the character the shifts in force say; the screen shows the last rows of what was put on it;
\* printf fills every width and never writes past the end of its buffer.  At its start the
\* kernel does what its command line says, knows its clock, its disks and its memory, and puts
\* files in and gets them out; its random numbers never run out of a value.
FunctionsCompute ==
    /\ input.kind = "division" => \A d \in 1..(b * b - 1) : DividedRight(input.n, d)
    /\ input.kind = "array" => SortedRight(input.a)
    /\ input.kind = "memory" => CopiedRight(input.m) /\ FoundRight(input.m)
    /\ input.kind = "memory" => \A cnt \in 0..4 : WordsRight(input.m, cnt)
    /\ input.kind = "command" => \A others \in input.others : CommandRight(<<input.first>> \o others)
    /\ input.kind = "seed" => RandomRight(input.seed)
    /\ input.kind = "number" => \A blanks \in 0..2, sign \in {<<>>, <<43>>, <<45>>} : ParsedRight(blanks, sign, input.digits)
    /\ input.kind = "memory" /\ 0 \in Strings(input.m) => StackRight(input.m)
    /\ input.kind = "keys" => \A others \in input.others : KeysRight(<<input.first>> \o others)
    /\ input.kind = "screen" => \A others \in input.others : ScreenRight(<<input.first>> \o others)
    /\ input.kind = "conversion" => FormattedRight(input.flags, input.width)
    /\ input.kind = "speed" => TimerRight(input.speed)
    /\ input.kind = "frequencies" => \A freq \in 19..65535 : PitRight(freq)
    /\ input.kind = "channel" => \A slave \in input.slaves : DisksRight(input.master, slave)
    /\ input.kind = "sectors" => \A sec_no \in 0..(Byte ^ 4 - 1) : SectorRight(sec_no)
    /\ input.kind = "name" => NameRight(input.name)
    /\ input.kind = "memory size" => \A first, last \in 0..6, base \in {0, TableSize} : PagingRight(input.pages, first..last, base)
    /\ input.kind = "files" => \A room \in 0..8 : ScratchRight(input.files, room)
    /\ input.kind = "bitmap" => \A set \in SUBSET (0..(input.cnt - 1)) : BitmapRight(input.cnt, set)
=============================================================================

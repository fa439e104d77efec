------------------------------- MODULE Startup -------------------------------
(***************************************************************************)
(* What the kernel finds out before it runs anything, and how files get in *)
(* and out: its command line and the base page directory (threads/init.c), *)
(* random numbers (lib/random.c), the speed of the processor and delays    *)
(* (devices/timer.c), the disks of a channel (devices/disk.c), and put and *)
(* get (filesys/fsutil.c).                                                 *)
(***************************************************************************)
EXTENDS Algorithms, TLC

CONSTANTS TickBits, WordBits,   \* calibration starts at 2 ^ TickBits loops (10) in a word (of 32 bits)
          Kilo,                 \* 1000, by which real_time_sleep scales down
          MaxPolls,             \* how often a busy disk is looked at: 3000
          Byte,                 \* values of a byte in a register of the disk: 256
          TableSize,            \* entries of a page table: 1024
          DISK_SECTOR_SIZE

-----------------------------------------------------------------------------
(* The command line.                                                        *)

\* Where each of cnt words begins in the bytes the loader left.
read_command_line(m, cnt) ==
    LET end == Cardinality(DOMAIN m)
        word(s, i) == IF s.panic \/ s.p >= end THEN [s EXCEPT !.panic = TRUE]
                      ELSE [s EXCEPT !.argv = Append(@, s.p), !.p = s.p + strnlen(m, s.p, end - s.p) + 1]
    IN  FoldLeft(word, [argv |-> <<>>, p |-> 0, panic |-> FALSE], Up(cnt))

\* A word has a name, what is behind its =, and may begin with a dash.  atoi refuses a null pointer.
NoValue == -1
Switches == {"-q", "-f", "-mlfqs"}
Numbers == {"-F", "-rs", "-ul", "-fl", "-tcl"}

Option(s, word) ==
    CASE s.end # "running" -> s
      [] word.name = "-h" -> [s EXCEPT !.end = "off"]
      [] word.name \in Switches -> [s EXCEPT !.set[word.name] = 1]
      [] word.name = "-Q" -> [s EXCEPT !.set["-q"] = 1, !.set["-Q"] = 1]
      [] word.name \in Numbers /\ word.value # NoValue -> [s EXCEPT !.set[word.name] = word.value]
      [] OTHER -> [s EXCEPT !.end = "panic"]

\* argv is where the first word that is no option is.
parse_options(words) ==
    LET argv == CHOOSE i \in 1..(Len(words) + 1) : (i > Len(words) \/ ~words[i].dash) /\ \A j \in 1..(i - 1) : words[j].dash
    IN  [argv |-> argv, s |-> FoldLeft(Option, [end |-> "running", set |-> [o \in Switches \cup Numbers \cup {"-Q"} |-> 0]],
                                       SubSeq(words, 1, argv - 1))]

actions == [run |-> 2, ls |-> 1, cat |-> 2, rm |-> 2, put |-> 2, get |-> 2]

\* The actions that are invoked, each with its arguments.
run_actions(words, argv) ==
    LET run[at \in 1..(Len(words) + 1)] ==
            IF at > Len(words) THEN [called |-> <<>>, end |-> "running"]
            ELSE IF words[at].name \notin DOMAIN actions THEN [called |-> <<>>, end |-> "panic"]
            ELSE LET next == at + actions[words[at].name]
                 IN  IF next > Len(words) + 1 THEN [called |-> <<>>, end |-> "panic"]
                     ELSE [run[next] EXCEPT !.called = <<SubSeq(words, at, next - 1)>> \o @]
    IN  run[argv]

main(words) ==
    LET parsed == parse_options(words)
        ran == run_actions(words, parsed.argv)
    IN  IF parsed.s.end # "running" THEN [set |-> parsed.s.set, called |-> <<>>, end |-> parsed.s.end]
        ELSE [set |-> parsed.s.set, called |-> ran.called,
              end |-> CASE ran.end = "panic" -> "panic" [] parsed.s.set["-q"] = 1 -> "power_off" [] OTHER -> "exit"]

-----------------------------------------------------------------------------
(* Random numbers.                                                          *)

swap_byte(s, i, j) == [s EXCEPT ![i] = s[j], ![j] = s[i]]

random_init(seedp) ==
    LET mix(r, i) == LET j == (r.j + r.s[i] + seedp[1 + (i % Len(seedp))]) % Byte IN [s |-> swap_byte(r.s, i, j), j |-> j]
    IN  [s |-> FoldLeft(mix, [s |-> [i \in 0..(Byte - 1) |-> i], j |-> 0], Up(Byte)).s, i |-> 0, j |-> 0, buf |-> <<>>]

random_bytes(state, size) ==
    LET draw(r, n) ==
            LET i == (r.i + 1) % Byte
                j == (r.j + r.s[i]) % Byte
                s == swap_byte(r.s, i, j)
            IN  [s |-> s, i |-> i, j |-> j, buf |-> Append(r.buf, s[(s[i] + s[j]) % Byte])]
    IN  FoldLeft(draw, [state EXCEPT !.buf = <<>>], Up(size))

-----------------------------------------------------------------------------
(* The timer.  speed is how many loops the processor runs from tick to tick. *)

PIT_HZ == 1193180
PitCount(timer_freq) == ((PIT_HZ + timer_freq \div 2) \div timer_freq) % 65536

too_many_loops(speed, loops) == loops > speed

\* 0 fails the assertion.
Doubled(speed) ==
    LET double[k \in TickBits..WordBits] ==
            IF k = WordBits THEN 0
            ELSE IF too_many_loops(speed, 2 ^ (k + 1) % 2 ^ WordBits) THEN 2 ^ k ELSE double[k + 1]
    IN  double[TickBits]

timer_calibrate(speed) ==
    LET high_bit == Doubled(speed)
        refine(loops, test_bit) == IF too_many_loops(speed, high_bit + test_bit) THEN loops ELSE loops + test_bit
    IN  FoldLeft(refine, high_bit, [i \in 1..(TickBits - 1) |-> high_bit \div 2 ^ i])

\* The ticks that num / denom seconds sleep, or else the loops they are busy for.
real_time_sleep(num, denom, timer_freq, loops_per_tick) ==
    LET ticks == (num * timer_freq) \div denom
    IN  IF ticks > 0 THEN [ticks |-> ticks, loops |-> 0]
        ELSE [ticks |-> 0, loops |-> ((((loops_per_tick * num) \div Kilo) * timer_freq) \div (denom \div Kilo))]

-----------------------------------------------------------------------------
(* The disks of a channel.  A device has a type ("none": nothing answers;   *)
(* "shadow": the other device answers for it), ends its reset after so many *)
(* polls, and has a value in its error register, what it answers to         *)
(* IDENTIFY DEVICE, and its capacity in two words.                          *)

Signature(type) == CASE type = "ata" -> <<0, 0>> [] type = "sata" -> <<60, 195>> [] OTHER -> <<20, 235>>
Busy(device, now) == device.type = "none" \/ (device.type # "shadow" /\ now < device.reset)
Ready(device, now) == device.type \in {"ata", "sata"} /\ ~Busy(device, now)
present(device) == device.type # "none"

\* When wait_while_busy is done with a device it began to look at at some time.
wait_while_busy(device, from) ==
    LET free == {k \in 0..(MaxPolls - 1) : ~Busy(device, from + k)}
    IN  from + (IF free = {} THEN MaxPolls ELSE CHOOSE k \in free : \A j \in free : k <= j)

\* When the channel has been reset, in polls since the reset.  A slave is first waited for
\* until it shows that its reset is over.
reset_channel(master, slave) ==
    LET first == IF present(master) THEN wait_while_busy(master, 0) ELSE 0
    IN  IF present(slave) THEN wait_while_busy(slave, wait_while_busy(slave, first)) ELSE first

check_device_type(device, dev_no, now) ==
    IF (device.error # 1 /\ (device.error # 129 \/ dev_no = 1)) \/ ~Ready(device, now) \/ Busy(device, now)
    THEN [is_ata |-> FALSE, slave |-> device.error # 129]
    ELSE [is_ata |-> Signature(device.type) \in {<<0, 0>>, <<60, 195>>}, slave |-> TRUE]

\* What becomes of a device that looks like an ATA disk; it interrupts when it has its answer.
identify_ata_device(device) ==
    IF device.answers THEN [is_ata |-> TRUE, capacity |-> device.id[1] + device.id[2] * 65536]
    ELSE [is_ata |-> FALSE, capacity |-> 0]

disk_init(master, slave) ==
    LET now == reset_channel(master, slave)
        first == check_device_type(master, 0, now)
        second == first.slave /\ check_device_type(slave, 1, now).is_ata
        disk(device, is_ata) == IF is_ata THEN identify_ata_device(device) ELSE [is_ata |-> FALSE, capacity |-> 0]
    IN  <<disk(master, first.is_ata), disk(slave, second)>>

\* The address of a sector as the registers take it, low byte first.
select_sector(sec_no) == <<sec_no % Byte, (sec_no \div Byte) % Byte, (sec_no \div Byte ^ 2) % Byte, sec_no \div Byte ^ 3>>

\* Each pair of characters is stored in reverse order; 0 ends a name early, 32 is a space.
print_ata_string(string) ==
    LET char(i) == string[IF i % 2 = 1 THEN i + 1 ELSE i - 1]
        printed == {i \in DOMAIN string : char(i) \notin {0, 32}}
        size == IF printed = {} THEN 0 ELSE CHOOSE i \in printed : \A j \in printed : j <= i
    IN  [i \in 1..size |-> char(i)]

-----------------------------------------------------------------------------
(* The base page directory.  Entry i is a page table, 0 if there is none.   *)

paging_init(ram_pages, text, base) ==
    LET map(s, page) ==
            LET pde == (base + page) \div TableSize
                pte == (base + page) % TableSize
                pd == IF pde \in DOMAIN s.pd THEN s.pd ELSE pde :> s.pages @@ s.pd
                pages == IF pde \in DOMAIN s.pd THEN s.pages ELSE s.pages + 1
                pt == IF pde \in DOMAIN s.pd THEN s.pt ELSE s.pages
            IN  [pd |-> pd, pages |-> pages, pt |-> pt,
                 entry |-> <<pt, pte>> :> [page |-> page, writable |-> page \notin text] @@ s.entry]
    IN  FoldLeft(map, [pd |-> <<>>, pages |-> 0, pt |-> 0, entry |-> <<>>], [i \in 1..ram_pages |-> i - 1])

-----------------------------------------------------------------------------
(* Files on the scratch disk.  A sector is a tuple; the first of a file     *)
(* holds a signature and the size.                                          *)

chunk_size(size) == IF size > DISK_SECTOR_SIZE THEN DISK_SECTOR_SIZE ELSE size
Sectors(size) == (size + DISK_SECTOR_SIZE - 1) \div DISK_SECTOR_SIZE

\* The file at a sector; the next put goes on behind it.
fsutil_put(disk, sector) ==
    LET size == disk[sector][2]
        copy[left \in 0..size] ==
            IF left = 0 THEN <<>>
            ELSE SubSeq(disk[sector + 1 + (size - left) \div DISK_SECTOR_SIZE], 1, chunk_size(left))
                 \o copy[left - chunk_size(left)]
    IN  [file |-> copy[size], sector |-> sector + 1 + Sectors(size)]

\* The disk with a file written to it, the next sector, and whether it panicked for want of room.
fsutil_get(s, file) ==
    LET header == [n \in 1..DISK_SECTOR_SIZE |-> CASE n = 1 -> "GET" [] n = 2 -> Len(file) [] OTHER -> 0]
        padded(k) == [n \in 1..DISK_SECTOR_SIZE |->
            IF k * DISK_SECTOR_SIZE + n <= Len(file) THEN file[k * DISK_SECTOR_SIZE + n] ELSE 0]
        put(t, buffer) == IF t.panic \/ t.sector \notin DOMAIN t.disk THEN [t EXCEPT !.panic = TRUE]
                          ELSE [t EXCEPT !.disk[t.sector] = buffer, !.sector = @ + 1]
    IN  FoldLeft(put, s, <<header>> \o [k \in 1..Sectors(Len(file)) |-> padded(k - 1)])
==============================================================================

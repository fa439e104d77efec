# A TLA+ model of the Pintos kernel in this repository

The repository is a course version of Pintos, a teaching kernel for one x86
processor: `src/pintos/src` holds the kernel (threads, user programs, file
system, devices), its test suite and a few user programs. (`src/src` is a second
copy of the same tree; all line numbers here are those of `src/pintos/src`.)
This directory holds TLA+ modules that model the kernel's own logic, the
configurations that check them with TLC, and proofs checked by TLAPS.

    tlc -workers 2 -config MCProcess.cfg MCProcess      # model checking
    tlapm ProcessProofs.tla                             # proofs

`PROJECT.json` lists the components, the runs with their properties, for each
property a mutation of a definition that makes TLC find it violated, the source
lines every definition stands for, the hazards, findings and theorems.

## 1. Inventory

| Component | State | Operations | Talks to |
|---|---|---|---|
| Process list, `userprog/plist.c` | an array of `PLIST_SIZE` entries (id, parent id, free, alive, parent alive, exit status, a semaphore) and `p_list_lock` | insert, find by id, change status, read status (waits), kill children, remove | semaphores, locks; called by the process life cycle |
| Process life cycle, `userprog/process.c` | per thread: arguments on the parent's stack, success, exit status | `process_execute`/`start_process`, `process_wait`, `process_exit`, `process_cleanup` | process list, threads, loader, descriptors |
| Semaphores, locks, conditions, `threads/synch.c` | value and queue of waiters; holder | down, up, try; acquire, release; wait, signal, broadcast | scheduler |
| Threads and scheduler, `threads/thread.c`, `switch.S` | status per thread, ready list, tick counters, the count of live threads | create, block, unblock, yield, exit, tick, schedule | everything |
| System calls, `userprog/syscall.c` | none | check addresses, dispatch | processes, file system, input |
| Exceptions, `userprog/exception.c` | page fault count | kill | process life cycle |
| Start and shutdown, `threads/init.c` | options | read the command line, run actions, map memory, power off | process life cycle, file system |
| File descriptors, `userprog/flist.c` | per thread: an array of file pointers | insert, look up, remove, remove all | open files |
| Inodes, `filesys/inode.c` | list of open inodes with open count, removed flag, reader count, locks | create, open, reopen, close, remove, read, write | free map, disk |
| Directories and files, `filesys/directory.c`, `filesys.c`, `file.c` | directory entries in an inode; position per open file | create, open, remove, read, write, seek | inodes, free map |
| Free map, `filesys/free-map.c` | a bitmap with a lock and its file | allocate, release | inodes |
| Page allocator, `threads/palloc.c` | two pools: a bitmap and a lock | get, free | threads, malloc, loader |
| Block allocator, `threads/malloc.c` | descriptors: free list, arenas, a lock | malloc, free, realloc | page allocator |
| Interrupt queue, `devices/intq.c`, `input.c` | a ring, one waiting reader, one waiting writer, a lock | getc, putc from threads and handlers | scheduler, keyboard, serial |
| Timer, `devices/timer.c` | tick counter | sleep, tick | scheduler |
| Interrupts, `threads/interrupt.c` | level, context flags, handler table | enable, disable, dispatch | everything |
| Synchronised list, bounded buffer, `threads/synchlist.c`, `boundedbuffer.c` | a list with a monitor; (the buffer is an empty stub) | push, pop | locks, conditions |
| Loader and page tables, `userprog/load.c`, `pagedir.c` | page directories | load, map, activate, destroy | page allocator, file system |
| Drivers, `devices/disk.c`, `serial.c`, `kbd.c`, `vga.c` | device registers; disk channel lock and completion semaphore | read, write, interrupts | inodes, input, console |
| Kernel library, `lib/kernel`, `lib/*.c` | lists, hash tables, bitmaps, the console lock; strings, numbers, printf, random numbers | insert, sort, find, print, panic | everything |

What is hard in it, and what correctness means for each part:

* **Processes.** Parent and child run concurrently and end in either order, by
  exit or by being killed, while a third process takes over an entry of a list
  of limited size. The status must reach exactly the parent, once, after the
  exit line was printed; no entry may leak or be taken from a process that needs
  it; nobody may wait for ever; the child uses memory on its parent's stack. One
  reader of the list (`plist_process_exit_status_get`) takes no lock.
* **Semaphores and scheduler.** A woken thread does not own the unit it was
  woken for. No wake-up may be lost; a thread is in one queue at most.
* **Inodes.** A readers/writers scheme without a queue: no reader together with
  a writer, no lost release of the writers' semaphore between the first reader
  in and the last one out; writers starve if readers keep coming. An inode is
  in memory once; its sectors are released once, after the last close.
* **Directories.** Locks of the root inode, the list of inodes and the free map
  are taken in different orders; a name is looked up and its inode is opened in
  two steps; error paths release what they do not hold.
* **File descriptors.** A descriptor leads to the file it was handed out for
  until it is closed, and every open file is closed when the process ends.
* **Allocators.** No page or block is handed out twice; `palloc_free_multiple`
  clears bits without the pool's lock.
* **Interrupt queue.** Bytes arrive once and in order; a wake-up between the
  handler and a waiting thread is not lost; a second reader must not trip the
  assertions of the first.
* **System calls.** Every byte a call uses has been checked.
* **Loader.** A program gets the memory its executable describes, or nothing, and
  nothing is lost when loading fails half way.
* **Printing.** The console's lock is recursive, is not taken by handlers, does not
  exist at first and is given up at a panic; texts stay whole and the last words
  of the kernel are sent.
* **Library.** Lists, tables and strings are what everything else stands on: their
  boundaries (empty, full, overlapping, just fitting) are where they go wrong.

`PROJECT.json` lists the hazards one by one, with the properties that cover them.

## 2. Plan

In the order of importance; what is built, and what is left for each part.

1. `Semaphore`, `PList`, `Process`, `ProcessLife`, `ProcessProperties`: processes over
   the process list, refining an abstract life of a process; proofs of every safety
   property and of the refinement in `ProcessProofs`.
2. `InodeRW`, `AtomicFile`: readers and writers of one inode; proofs, and of
   the refinement, in `InodeRWProofs`.
3. `FileSys`, `FileSysProperties`: create, open, close and remove over inodes, the
   directory and the free map; proofs of every property but `NoDeadlock` in `FileSysProofs`.
   Left: an abstract specification of names and files without locks.
4. `Intq`, `BoundedQueue`: the interrupt queue; proofs, and of the
   refinement, in `IntqProofs`. `Console` on top of it: printing; its proof is in
   `IntqProofs` too.
5. `FileTable`, `OpenFiles`: descriptors; proofs in `LibraryProofs`.
6. `Scheduler`: threads, locks, conditions, interrupts, sleep, power off; proofs of
   every property in `SchedulerProofs`.
7. `Memory`, `MemoryProperties`: pages and blocks; proofs of every property in `MemoryProofs`.
8. `AddressSpace`: loading, and the address checks of system calls; proofs of every
   property in `AddressSpaceProofs`.
9. The library and the start: `Lists`, `HashTable`, `Algorithms`, `MainStack`, `Terminal`,
   `Formatting`, `Startup`; the proof of `ListsAreSequences` in `LibraryProofs`.

## 3. What is modelled

### Processes

`Semaphore` has no variables: a semaphore is a record, its operations are
functions on it. `sema_down` and `sema_up` run with interrupts off on one
processor, so they are atomic; `sema_down` is the loop it is in the code: a
thread queues itself and blocks, and when woken tests the value again.

`PList` holds the array (`list`) and the holder of the lock (`p_list_lock`).
What runs under the lock and no unlocked reader can see half done is one
operator. `plist_insert` is seen half done by `process_wait`, which takes no
lock, so its steps stay apart: take the lock, look at one slot at a time, claim
it (`id`, `alive`, `free`), fill it, reset its semaphore, release the lock.
`plist_get_process` finds the first entry with an id whether or not it is free
(`IsProcess`); so do the models. Ids of threads are 1 for the initial thread
(`Main`), which is never in the list, and 3 onwards for processes; 2 is the
idle thread.

`Process` gives each thread a place `pc[t]`; a step is the code between two places
where another thread can observe or disturb it. `blocked` are the threads that
are THREAD_BLOCKED in a `sema_down`. The rest of the state is what the code
keeps: `arguments[p]` is the structure on the stack of `process_execute`,
`child[p]` its `thread_id` and `process_wait`'s `child_id`, `position[t]` the
array index or entry pointer in use, `exit_arg` the argument of `exit` (-1 if it
was never called), `seen` what `process_wait` read before it frees the entry.
`answers` and `printed` record what was returned and printed.

| Code | Actions |
|---|---|
| `process_execute`, parent's side | `Execute` or `ExecuteFails`, `ExecDown`, `ExecReturn` |
| `start_process` | `Load`, the five steps of `plist_insert` (`InsertLock` to `InsertSema`; `InsertFull` when no slot is free), `Report`, `Raise` |
| `process_wait` | `Wait`, `WaitNotFound` or `WaitFind`, `WaitDown`, `WaitRead`, `WaitFree` |
| `exit` system call, `kill` | `Exit` and `SetStatus`, or `Kill` |
| `process_cleanup` | `CleanupFind`, `CleanupPrint`, `Remove` |
| `run_task` of the initial thread | the actions above with `t = Main`: it waits at once for what it executes |

The environment is what programs choose to do; two constants say what they may:

* `WaitPolicy`: `"once"`: a program waits for each of its children at most once;
  `"any"`: for any number, id 0 and ids never handed out among them.
* `InitStays`: a program that the initial thread runs exits after all others, as
  a shell that waits for its jobs does. Without it (see the known disagreements) the code
  can lose a status.

`ProcessLife` is what a programmer is promised, without list, lock or threads: a
process runs, exits with a status, is kept as a zombie while its parent can ask,
and is gone once its parent was told or has gone itself. `ProcessProperties`
states the properties, and maps `Process` onto `ProcessLife`: the step that
completes `plist_insert` is `Start`, `plist_remove` is `Exit`, freeing the entry in
`process_wait` is `Tell`, all others stutter. The entries of the initial thread's
children are never kept, so for them being told is what ends the zombie.

Left out of these modules: the layout of the stack that `setup_main_stack` makes,
the text of command lines (a load succeeds or fails), the page directory, the
descriptors `process_cleanup` closes (component of its own), `plist_print`, and a
failing `malloc` of the copied command line, whose result the code does not test.
A thread that finds `p_list_lock` taken waits until it is free; the order in which
waiters of that lock get it is left open.

### Reading and writing an inode

`InodeRW` is `inode_read_at` and `inode_write_at`. `how_many_readers` is counted under
`inode_lock_read_at` (the thread that holds it, or `NoThread`); `inode_sema` is the
semaphore the first reader takes for all readers, and each writer for itself. The
first reader keeps the lock while it waits for the semaphore.

| Code | Actions |
|---|---|
| entry of `inode_read_at`, lines 251 to 257 | `ReadEnter`, and for the first reader `ReadDown` |
| the loop of `inode_read_at` | `ReadChunk` per transfer, `ReadEnd` |
| lines 299 to 308 | `ReadLeave` |
| `inode_write_at` | `WriteDown`; `WriteFull` for a full sector, `WriteFetch` and `WriteBack` for a part of one; `WriteEnd`; `WriteUp` |

A transfer of a sector is one step: the disk's own lock makes it atomic. `done` is
`bytes_read` or `bytes_written`, `buffer` what a reader has copied, `bounce` a writer's
copy of a sector, of which only that sector is written back. `chunk_size` is the
code's three-way minimum over `size`, `sector_left` and `inode_left`. The constant
`MallocFails` lets the bounce buffer be refused where it is asked for, which ends the
loop with what was moved so far. `before` is the one variable that the code does not
have: the file as the writer found it, which the refinement of `AtomicFile` needs,
because a write takes effect at its last transfer.
A file does not grow in this kernel (`inode_write_at` stops at `data.length`).

`AtomicFile` is what is promised: between its call and its return an operation takes
effect at one moment; a write moves a prefix of its range, all of it that lies in the
file unless memory runs out, and a read returns what was there.

### Files and directories

`FileSys` is `filesys_create`, `open` and `remove` and `file_close`, through
`directory.c`, `inode.c` and `free-map.c`. Each thread is in at most one call: `pc[t]` is
where, `frame[t]` holds its arguments and local variables (the directory's inode `dir`,
the file's inode `node`, `inode_sector`, the offset `ofs` of an entry). In-memory inodes
are records at addresses (`inode`, the addresses in the list: `open_inodes`).

The locks: `inode_lock` of the list is a variable, that of each in-memory inode a field.
`free_map_lock`, and the lock of any inode but the root directory's, are only
held over code that waits for nothing else, so that code is one step with the
lock; the steps where the list's lock or the root inode's lock is held while
another lock is waited for are apart (`OpenFound` and `OpenReopen`; `CloseLock` and
`CloseCount`, `CloseRemoved`, `ReleaseInode`, `ReleaseData`; `RemoveFind`, the opening,
and `RemoveErase`). `dir_lookup` takes no lock, so each entry it reads is a step (`Lookup`).
Reading or writing one entry of the directory is atomic: `InodeRW` shows that.

| Code | Actions |
|---|---|
| `inode_open`, `inode_reopen`, `dir_open` | `OpenFound`, `OpenReopen`, `OpenNew`, `OpenFails` |
| `inode_close` | `CloseLock`, `CloseCount`, or `CloseRemoved`, `ReleaseInode`, `ReleaseData` |
| `filesys_create` | `CallCreate`, (open), `Allocate`, `InodeCreate`, `DirAdd` or `DirAddBad`, `ReleaseSector` on failure, (close) |
| `filesys_open` | `CallOpen`, (open), `Lookup`, (open the file), (close), `FileOpen` |
| `filesys_remove` | `CallRemove`, (open), `RemoveFind`, (open the file), `RemoveErase`, (close both) |
| `file_close` | `CallClose`, (close) |

Two constants say what may happen. `MallocFails`: memory may run out wherever it is asked
for; a search of the directory may then end early (`Seen`). `RemoveAlone`: a discipline
of programs, not of the code: a file is removed only while no other thread is in
`filesys_create`, `open` or `remove` (it may be in a close). Without it the code can block for ever and hand
out wrong files (`filesys_deadlock` and the known disagreements); with it everything else holds.

Two parts of the state only exist to state properties: the number `file` of the
creation an on-disk inode comes from, and `lost`, the data sectors that failed
creations leave marked. Left out: the bytes of files, the free map's own file, a
thread's second open file (files are shared through inodes, so two threads show it),
`dir_readdir`, and formatting, whose result is `Init`.

### The interrupt queue

`Intq` is `intq_getc` and `intq_putc`. Both run with interrupts off, so on one processor
a thread's loop is a single step until it blocks: in `lock_acquire` (`Queue`) or in `wait`
(`Wait`). What happens when it runs again is `Locked` or `Woken`; both `lock_release` and
`signal` make others ready in the same step. The handler's calls are `DevicePut` and
`DeviceGet`. `use` tells which queue of the kernel it is: the input buffer (threads
get, a handler puts) or the serial port's output queue (threads put, a handler
gets). `lock` is the semaphore in the queue's lock; `not_empty` and `not_full` are the
waiting threads. A failed assertion sets `panicked`.

`BoundedQueue` is a sequence of at most `INTQ_BUFSIZE - 1` bytes.

### Printing

`Console` is `vprintf` and its relatives: `acquire_console`, each character to
`serial_putc` and then to `vga_putc`, `release_console`. A thread's prints are a stack of
frames, since a print may happen within a print (`BeginPrint`, `PutSerial`, `PutScreen`,
`EndPrint`); a handler's print has no lock and is a step for each character. The serial
port (`serial_putc`, `serial_interrupt`, `serial_flush`) is there in its two modes, by
polling before `serial_init_queue` and with its queue after it; a queue that is full
while interrupts are off makes the caller send the oldest character. The queue is a
sequence here, because `intq` shows that the ring is one. `boot` follows the start (no
lock before `console_init`, interrupts off before `thread_start`), `debug_panic`,
`FlushForPowerOff` and `PowerOff` the ends. `given` and `shown` record what reached the
port and the screen. Left out: characters a handler echoes, and what
others print between the flush and the power off, which is lost.

### Threads and the scheduler

In `Scheduler` only the current thread takes steps, and an interrupt may come between
any two of them while `level` is on. What runs with interrupts off is one step
(`Block`, `Yield`, `Unblock`, `Schedule`); `pc[t]` is a place, for the calls `sema_down`,
`lock_release` and the like with the place to return to. `DiskInterrupt` and `Tick`
are the interrupts; `Resumed` is a thread that goes on after a switch, with
interrupts off until it puts them on.

| Code | Actions |
|---|---|
| `thread_create`, `idle` | `Create`, `CountUp`, `UnblockNew`; `IdleStart`, `IdleBlock` |
| `sema_down`, `sema_up`, locks | `Down`, `Wait`, `Take`, `Up`; `Acquire`, `Release` |
| condition variables | `CondWait`, `CondSignal` |
| `thread_exit` with `process_cleanup` | `Exit`, `CountDown`, `Cleanup`, `Deactivate`, `Destroy`, `Die` |
| `load`, `process_activate` | `Load`, `Activate` |
| `power_off` | `PowerOff`, `PowerOffCheck`, `HardPowerOff` |
| `timer_sleep` | `Sleep`, `SleepLoop` |
| `sl_append`, `sl_remove` | `SlCall`, `SlAppend`, `SlRemove` |
| `disk_read`, `disk_write` | `DiskCall`, `Issue`, `Output`, `Input` |

### Pages and blocks

`Memory` is `palloc.c` over its bitmaps and `malloc.c` on top. `mem` says of each unit of
memory what was written there last: data of a program, zeros, 0xcc, the header of
an arena, or junk. Obtaining pages holds the lock of the pool (`GetLock`, `Scan`, `Flip`),
giving back clears one bit at a time without it (`FreeFill`, `FreeClear`), so the bitmap
is scanned by bits, too. A call is a sequence of steps through `pc[t]` and `frame[t]`
(`Malloc`, `Pop`, `Malloced`, `Free...`); `realloc` and `calloc` go through the same steps.
The blocks of an arena that is no longer used leave the free list one by one, with the lock
(`FreeUnlist`), before its page is given back.
`held` is what programs have; they fill every block they get, so that a block handed out
twice, or a header in the wrong place, shows as contents that changed. Sizes are
counted modulo `SizeMod`, as `size_t` is.

### The memory of a process

`AddressSpace` is `load` step by step: `Create` the page directory, `SetupStack`, `Open`,
`ReadHeader` for each program header (`validate_segment`), `LoadPage` for each page of a
segment (`Install` is `palloc_get_page`, `install_page` and `lookup_page`), `Destroy`. Each
can fail for want of memory. Words are counted modulo `Word`; the checks of the
system calls (`verify_fix_length`, `verify_variable_length`, and `Arguments` for the
number and arguments of a call) are operators over the layout that was built, with the
signs C gives their ints. `MainStack` is the stack `setup_main_stack` lays out.

### Descriptors

`FileTable` gives each process the words flist.c can reach: its array `content` of
`MAP_SIZE` words and, behind it, `initiated`, `pagedir` and `magic` of struct thread, since
positions run up to `MAP_SIZE + START_POSITION`. A file is the address of its struct; an
address may come back when it was freed, so a stale word can name another file.
`wild` is set when something that is no open file is used as one, a word of the kernel is
overwritten, or an assertion fails. `Open`, `Read`, `Write`, `Close`, `Seek`, `Tell`,
`FileSize` are the system calls, `Start` and `Exit` the ends of a process. Read, write and
close look the descriptor up with `flist_get_from_index`, which tests its bounds; seek, tell
and filesize with `flist_get_from_fd`, which does not: for a number outside the table it gives
any word, also one that is a file of another process. `OpenFiles` is what is promised: a map
from descriptors to files, and a refusal of every other number.

The code does not keep that promise in all cases. `AsPromised`, which `FilesTracked` is made
of, names those it breaks it in, each by the step and the state it takes, and demands it of
all others:

* `Start` faults exactly when `START_POSITION` is above 2, as it is;
* an open that finds no free position (`Free(p) = {}`) overwrites the last one;
* when a process ends, its files behind the array stay open (`WithinArray`);
* descriptors that are a word of the kernel's (`Own`: 128 to 130) are used as files;
* seek, tell and filesize of a number the table does not reach to, and a seek to a
  position from 2^31 on, which is negative as an `off_t`.

### The library and the start

What has a state is a state machine, what has none is an operator that the properties
compare with a definition of what it should compute:

* `Lists`: `list.c` over the links of all elements in one heap; its calls are actions,
  except `list_sort`, which takes a step for each turn of its loops. `ListsAreSequences` is
  about the links; which elements are chosen, and in what order (`OrderIsRight`), is part
  of `LibraryComputes`.
* `HashTable`: `hash.c`; buckets are sequences, because the lists are.
* `Algorithms`: `arithmetic.c` (long division from short ones), `stdlib.c` (`heap_sort`,
  `binary_search`, `atoi`), `string.c` over a memory of characters, `bitmap.c`.
* `Terminal`: keys to characters (`kbd.c`), characters to the screen (`vga.c`).
* `Formatting`: the conversions of `__vprintf` and `vsnprintf`.
* `Startup`: the command line (`init.c`), `random.c`, the timer's rate, calibration and
  short sleeps (`timer.c`), finding disks (`disk.c`), `paging_init`, and `put` and `get` of
  the scratch disk (`fsutil.c`). A disk is what its registers answer; time is counted in
  polls.

## 4. Runs

| Run | Instance | Shows |
|---|---|---|
| `process` | three processes, two entries, statuses 0 and 7, `"once"`, `InitStays`, fairness | all promises to parent and child, that `Process` implements `ProcessLife`, and that every call returns |
| `process_reuse` | four processes, three entries, one status | entries change hands while others point at them; pointers stay right |
| `wait_others` | `"any"` | violated: waiting for another's child, or a second time, blocks |
| `inode_rw` | three threads, a file of three bytes in sectors of two, five ranges, memory may run out, fairness | readers and writers exclude each other, reads and writes are atomic, and return |
| `filesys` | three threads, two names, files of one and three sectors, a disk of six, two entries, `RemoveAlone` | entries, inodes and free map agree; nothing but the file that was named is opened |
| `filesys_memory` | two threads, a good and a bad name, memory may run out, `RemoveAlone`, fairness | locks on every error path; calls return |
| `filesys_deadlock` | two threads, any calls | violated: two threads wait for each other |
| `intq` | three threads, a ring of four, both uses, fairness; and two threads that print two texts each of two characters, one of them nested, a handler that prints, a port with a queue of two | the ring is a queue, one thread waits, calls are served; every text is printed whole and sent |
| `scheduler` | the initial, the idle and two worker threads, a time slice of two ticks, two items | the queues, the assertions, the active page directory, no lost signal, the disk serves its caller, power off, round robin |
| `memory` | two threads, pools of three pages and one, pages of ten units, two block sizes, ten kinds of request | contents stay, callers get what they asked for, the arenas' books, no page is lost |
| `address_space` | 32 addresses, pages of four, executables of one segment of 900 kinds and of two, up to five and four frames | the image, the checks of addresses and arguments, frames |
| `library` | lists: two of three elements; hash table: seven elements of five keys, memory at will; descriptors: two processes, three files, the numbers -1, 0, 1, 2, 3, 5 and 7, positions -1 and 1; operators: inputs as in `MCLibrary` | the lists are sequences, the table is a set, descriptors lead to their files, what is computed is right |

Why the bounds suffice.

* Processes: three give a parent, a child and a grandchild or two siblings, so every
  relation of two processes and a third that interferes by taking an entry. Two
  entries for three processes make an insertion fail and a freed entry be taken
  over. Four processes over three entries is the smallest instance in which an
  entry could change hands under a waiting parent's pointer: the parent, its dead
  child, and a grandchild that starts the process that takes the entry. Two
  statuses tell a right from a wrong one; -1 is the third. `MaxTid` bounds how many
  processes are ever created: ids are never reused in the code either.
* Inodes: three threads are a first reader, a second one and a writer. The ranges
  are a full sector, part of one, across both, at and behind the end, and nothing.
  One byte value that differs from the file's first content tells old from new.
* Files: three threads are two that use one file and one that makes room or takes
  it. The disk holds two small files or one large one with the two reserved
  sectors, so allocation fails and sectors are used again; the directory can be full.
  `MaxFiles` = 2 creations suffice for a name or a sector that is used a second
  time; `MaxInodes` is never reached. Threads are interchangeable (`Symmetry`): no
  definition names one.
* Interrupt queue: three threads are one that waits, one in the queue of the lock
  and one that comes by. A ring of four holds three bytes and wraps around.
* Printing: two texts of two characters make a text that can be cut and a second
  one that can come too early; the queue of two is full in the middle of a text.
* Scheduler: two workers are a thread that runs and one that waits, beside the two
  that are always there, so every queue gets two threads. A time slice of two tells
  a tick that preempts from one that does not.
* Memory: three pages are too few for what two programs may ask for, so requests
  fail; a block size of four has two blocks in an arena, so that
  it is half used, full and given back; a request of ten spans pages.
* Address space: six user pages are the stack's and room for two segments that
  touch, share a page or overlap, in three page tables; addresses from 16 on are
  negative as ints, as those from 2^31 on are in the kernel. Files end within a page.
* Library: two lists exchange elements; three elements have a middle; three keys and
  three elements have equal ones. Seven hash elements over buckets from one on grow
  the table twice and shrink it again. `START_POSITION` and `MAP_SIZE` are 2 and 4:
  `flist_init` then resets no word that is in use already, which it does with the code's
  50 and 128 (below). Of the descriptors -1 and 7 are outside the table, 0 and 1 are the keyboard
  and the screen, 2 and 3 are handed out and 5 is a word of the kernel's. Three
  files are enough for each process to have one, and for one process to have one more than the
  two positions that are free: its third open overwrites `pagedir`. Files behind the array take a larger table; the theorems
  cover them (section 5). Strings
  have up to six characters of two kinds and 0. Elements, files and processes are
  interchangeable.

TLC's deadlock check is on in `process` (the only states without a step of a thread are
those in which all are gone or the kernel has panicked: `Halted`), `inode_rw`, `filesys` and
`memory`. It is off in `filesys_memory` and `intq`, where the kernel may panic and stop, in
`scheduler`, where the machine is switched off, in `address_space`, where a process
ends, and in `library`, where operators have no next step.

Fairness (`FairSpec`, and `MCSpec` of `MCIntq`): a thread that can go on inside the kernel
eventually does. `RoundRobin` shows why: a thread joins the run queue at its end and
leaves it only at the front, and a timer ends each time slice; locks are held for
bounded code only. Nothing is assumed about programs: they may stop making calls for
ever, so the properties of `process` start from a thread that is inside the kernel.
`OperationsReturn`, `CallsReturn` and `CallsServed` say that calls return once programs
make no new ones: while readers keep coming a writer starves, and the code does not
promise against that. `CallsServed` also assumes that the device goes on when it can;
it is part of the property, as the scheduler has no hand in it.

The two violations are disagreements between the code and its own comments, tests or
answers:

* `plist_process_exit_status_get` does not look at `parent_id`, and `plist_get_process`
  finds an entry that is free by the id it once had: a second `wait` for a child and
  a `wait` for a stranger block on the entry's semaphore (and `wait(0)` finds a never
  used one, whose semaphore was never initialised). `process.c:481` and
  `tests/userprog/wait-twice.c` say -1 at once.
* `dir_remove` takes the lock of the root inode and then that of the list; opening or
  closing the root directory takes them the other way round. The answers in
  `20_answers.txt` say two removals beside a creation have a guaranteed result.

### Known disagreements without a run

Processes and files; the change of a constant or a definition that shows each is in brackets.

* The initial thread is not in the process list, so its children's entries are freed
  as if their parent were dead (`plist.c:214`): its child's status can be lost before
  `run_task` has read it [`InitStays = FALSE`: `StatusDelivered`].
* `dir_lookup` opens a sector number it read without a lock (`directory.c:138`):
  `filesys_open` may return another file than the one named [`RemoveAlone = FALSE`:
  `OpensNamedFile`].
* `dir_add` releases the directory's lock for an invalid name, without having taken it
  (`directory.c:165`), and the kernel panics [`BadName` is not empty; `filesys_memory`
  follows it, and `CallsReturn` promises a return only without a panic].
* A search of the directory that ends early for want of memory makes `dir_add` overwrite
  the entry it ended at; `directory.c:177` says such short reads do not happen
  [`MallocFails`: `EntriesStay`].
* `flist_init` resets positions 50 to 177 of an array of 128 words, among them
  `initiated`, `pagedir` and `magic` of struct thread, and closes what it finds there as
  a file (`flist.c:24`, `thread.c:115`) [`Start` of `AsPromised` with `~wild'`, `MAP_SIZE = 5`,
  `START_POSITION = 3`].
* The 79th open file lies behind the array, and `flist_remove_all` does not close it
  (`flist.c:35`, 132) [`AsPromised` without `WithinArray(p)`,
  from right tables with `MAP_SIZE = 5` and `START_POSITION = 4`]. When no
  position is free the last one is overwritten, and the file there is open for ever
  [`Open` without `Free(p) # {}`].
* seek, tell and filesize use the word at any number as a file (`syscall.c:439`, 456, 473;
  `flist.c:107`): `tell(-1)` follows a word of the thread's that is no file, and a
  number far enough away meets a file in another thread's table. `flist.h:24` says the kernel
  verifies "that a file descriptor was indeed obtained from a call to open by the same
  process" [drop `fd \in Positions` from `AsPromised`: `FilesTracked`].
* read, write and close test the bounds (`flist.c:96`), but up to 178, and so use `initiated`,
  `pagedir` and `magic` as files (128 to 130) [`Fds` without `\ Own`: `FilesTracked`].
* seek takes an unsigned position and hands it to `file_seek` as an `off_t`: from 2^31 on it is
  negative, and the assertion at `file.c:132` stops the kernel [drop `n >= 0`:
  `FilesTracked`].

System calls.

* The check of a call's arguments covers as many words as it has arguments, from its
  number on: the last argument is not checked (`syscall.c:174-176`), and a call whose
  checked part ends at the very top of user memory is refused.
* `verify_fix_length` says that it checks all addresses of an interval (`syscall.c:62-66`). It
  computes the offset in the page from a signed address, which is negative from 2^31 on, so
  that it may miss the last page (`syscall.c:84`) [`Misses(start)` FALSE:
  `AddressesChecked`]. And it adds the offset to the length as ints (`syscall.c:87`): of an interval of
  2 GB but a page the sum wraps around, the number of pages is negative, and it accepts the
  interval without looking at one, as for the start 0x08048001 and the length
  0x7FFFFFFF [drop `~Wraps(start, length)`: `AddressesChecked`]. An interval that
  goes around 2^32 passes the first test, and then the assertion of
  `pagedir_get_page` may fail.
* create, open and remove check the string at `(char*)esp + 1` instead of the file's name.
* `setup_main_stack` has no bound: a command line that needs more than a page is
  written below the stack's page (`process.c:153`).

Devices and printing.

* A second reader of an interrupt queue that was blocked in `lock_acquire` goes into
  `wait` without looking at the queue again, where the assertion fails (`intq.c:93`);
  `CallsServed` promises service until then.
* `timer_calibrate` tests each bit with `high_bit` alone instead of the sum so far
  (`timer.c:78`): `loops_per_tick` can exceed a tick by a third; the comment says "still
  less than one timer tick".
* `wait_until_idle` gives up after 10 ms; its warning says 10 seconds (`disk.c:478`).
  `expecting_interrupt` is never reset, so a spurious interrupt after the first command
  ups the semaphore (`disk.c:73`).
* With a print within a print, the serial port and the screen get characters in
  different orders. What other threads print after the flush of a power off is lost.
* The help text of `init.c` has -q and -Q the wrong way round.

Library.

* `calloc` multiplies without a test (`malloc.c:164`), and a request near the largest
  size wraps in `malloc` (`malloc.c:109`).
* `umod64` and `smod64` return 32 bits (`arithmetic.c:131`).
* `memmove` returns the end of the destination in the forward case; its comment says
  "Returns DST" (`string.c:22`). `strnlen` reads the character behind the last.
* `bitmap_scan_and_flip` with CNT zero returns START; its comment says 0.
* `printf` pads twice with a flag 0 and a negative width; `FormattedRight` leaves that out.

## 5. Proofs

`ProcessProofs` proves, for every number of processes and entries and every set of
statuses (assumed: `PListAssumption`, `ProcessAssumption`), whatever programs wait for:

* `TypeCorrect`: `Spec => []ProcessTypeOK`. The types alone are not inductive: an
  action may read `list[position[t]]`, so the invariant (`TypeInv`) adds that a
  thread at such a place has a valid slot (`PositionOK`) and that the initial thread
  never runs `start_process` (`MainOK`; it must never claim an entry). One lemma
  per list operation says that the list stays a list of entries (`ClaimSlotType`,
  `FillSlotType`, `InitSlotSemaType`, `RemoveEntryType`), one that a move from
  place to place keeps `pc` and `position` in order (`MoveOK`).
* `ArgumentsSafe`: `Spec => []ArgumentsInUse`. The inductive invariant
  (`ExecInv`) says more of the parent of a starting child: it is in the
  `sema_down` for that very child and the semaphore has no unit, so it cannot leave
  before `Raise`; and ids from `next_tid` on are not born, so a new child is
  nobody's parent. All actions but `Execute`, `Raise` and `ExecDown` fall under
  one lemma (`OtherStep`).

* `ExecuteIsTruthful`: `Spec => []ExecuteTellsTruth`, from `EnterInv`: who holds
  `p_list_lock` from one step to the next (`LockInv`), which threads were started by whom
  and which are loaded (`BirthInv`), that an id is in the list once and only when
  its thread has claimed an entry (`ListedInv`, `HoldInv`), and what the parent in
  `process_execute` is about to be told (`CallInv`).

And under `Once`, which is `WaitPolicy = "once"` and `InitStays`; without the first the
run `wait_others` and without the second the known disagreements show what happens:

* `EntriesAreKept`: `Once => (Spec => []EntriesKept)`.
* `StatusIsDelivered`: `Once => (Spec => []StatusDelivered)`.
* `PointersStayCurrent`: `Once => (Spec => []PointersCurrent)`.
* `ProcessesNeverPanic`: `Once => (Spec => []~Panicked)`.
* `ImplementsProcessLife`: `Once => (Spec => ImplementsLife)`.

`EntriesKept` is far from inductive: that an entry is not freed too early depends on
what its process, its parent and whoever else looks for it are doing. `ListInv` says it of
each party on its own, so that a step of one thread needs little of the others: what an
entry records of its process at each place of it (`EntryOK`), that the entry of
a process somebody may still ask for is there (`KeptInv`), what was printed and answered
(`StatusOK`), what a thread in `process_wait` relies on (`WaitOK`), and that when a
child of the initial thread begins to exit nothing else runs until it was waited for
(`RootInv`: the entries of such children are freed too early, which nobody then notices). A
step that changes no entry falls under `PlainStep`, one that changes one
under `OneEntry`; `Local` is what both need to know of it. For the refinement, the state
`ProcessLife` gives a process is read off the threads alone (`LifeOf`), by `ListInv`; then only
three steps have to be looked at, and all others stutter (`Moves`).

`InodeRWProofs` proves, for every finite set of threads, every file, sector size and
set of ranges, with or without memory (assumed: `InodeRWAssumption`):

* `ReadersExcludeWriters`: `Spec => []Exclusive`.
* `LockOnlyWhenEmptyHolds`: `Spec => []LockOnlyWhenEmpty`.
* `ReadsAndWritesAreAtomic`: `Spec => ImplementsAtomicFile`.

The first two follow from `RWInv`. `Exclusive` alone is not inductive: a reader that finds
`how_many_readers` above 0 goes in without the semaphore. So the invariant says that
`how_many_readers` is the number of threads between the count and its undoing
(`Counted`, a cardinality: this is where the finiteness of `Thread` is needed), that the
semaphore has its unit exactly while nobody is inside (`UnitInv`), and that a reader
still waiting for the semaphore has the lock and is the only one counted
(`LockInv`, `FirstReaderAlone`). Steps inside or outside fall under one lemma (`SameSide`).

The refinement needs `CopyInv` besides, which says how far each copy has come: what a
reader has in its buffer is what the file holds there, however the chunks were cut
(`ReadOK`); the file is what the writer found with the bytes it has moved so far
replaced (`WriteOK`), and its bounce buffer is the sector it is about to write back, with
the chunk in it (`BounceOK`). That it stays true of a thread while others move
is where `RWInv` comes in (`Undisturbed`, `FileLeftAlone`). That a chunk lies in one sector and
within the request is arithmetic, done once (`ChunkBounds`, `ChunkInSector`, `SameSector`).

`IntqProofs` proves, for any number of threads and any ring (assumed: `IntqAssumption`):

* `OneWaiterHolds`: `Spec => []OneWaiter`.
* `SingleThreadSafe`: if the queue has a single thread, `Spec => []NoPanic`. Two are too
  many, as the known disagreements say.
* `RingIsAQueue`: `Spec => ImplementsQueue`.

For the first two, the invariant `WaiterInv` adds that the lock has its unit unless a thread waits
(`UnitOK`), and that the queue of the lock holds threads that are blocked there, each
once (`QueueOK`), so that releasing the lock wakes none that waits for a byte. It never
looks at the bytes. Since the loop runs from a call, or from `Woken` with the lock already
returned, its lemma (`LoopWaiterInv`) is stated for any lock `l` and set `woken` of threads.
For the third, `RingInv` says only that `head` and `tail` are positions and that who waits to put a
byte has one; the work is in the remainders: how many bytes are held (`HeldIs`) and
where the i-th of them is (`SlotIs`), when `head` has wrapped around and when not.

* `OutputIsWhole`: `ConsoleSpec => []OutputWhole`, for any number of printers, texts of any
  length and any queue of the port (assumed: `ConsoleAssumption`); the bounds on texts and
  nesting are not used.

Its invariant `ConsoleInv` says of the port and of the screen what has come out when the
characters of a set are still to come (`Said`): everything begun and not in that set, each text
in order and with nothing but handlers' characters in between. The set is what is left in the
frames of the threads (`ForPort`, `ForScreen`), and as long as the machine runs it must be
`Open`: whatever came out since a text's last character is of its own thread or of a handler,
so that its next one still fits. That only one thread prints at a time (`OnePrinter`) is
what the lock is for, and before there is one what the boot order is for (`ConsoleLockInv`). The
message of a panic is a recursive function over its characters: that there is one,
and what the port has taken then, follow from the least character for which it were
otherwise (`PutExists`, `PutAll`).

`SchedulerProofs` proves all seven properties of `SchedulerProperties`, for every finite set
of threads, whatever each of them calls, any time slice and sleeping time (assumed:
`SchedulerAssumption`; the last part of it says that threads, locks and semaphores are
different things, which in C they are by their types):

* `OneQueueHolds`, `AssertionsNeverFail` and `RoundRobinHolds`, from `KernelInv`. A queue is
  one only as long as everybody who enters it is in no other, so the invariant says
  of all places at once who may be where: the run queue holds the ready threads
  (`RunQueue`), a wait list those that are blocked at the place that waits for that
  semaphore (`SemaQueues`), a blocked thread waits somewhere, is being made by one other
  thread or is the idle thread (`Blocked`), `holder[l]` is the thread between acquire and
  release, and the unit of a lock is there exactly when nobody is (`LockInv`).
  A thread's place is looked at only through a few questions (`WaitsAt`, `HoldsAt`,
  `MakesAt`); steps that change the answer to none of them fall under one lemma.
* `AddressSpaceRight`, from `SpaceInv` besides: page directories are destroyed by a thread
  that has cleared its own pointer first, and the processor uses that of the
  current thread or the base one.
* `NoItemStrandedHolds`, `PowerOffWaitsForAll`, `DiskServesItsCaller`, from `UsersInv`
  besides. Who is in the queue of a condition is in `cond_wait` for it and was not
  signalled (`CondInv`); `alive_count` is the number of threads counted in and not
  out (`AliveInv`, a cardinality, which needs the finiteness of `Thread`); the disk and
  `completion_wait` are as the holder of the channel's lock expects them at each place, and
  quiet when nobody holds it (`DiskInv`). `NoItemStranded` is inductive with these.

`FileSysProofs` proves, for any number of threads, any disk, directory and sizes, and
with memory running out or not (assumed: `FileSysAssumption`):

* `OpenInodesAreCounted`: `Spec => []OpenInodesCounted`.
* `LocksAreReturned`: `Spec => []LocksReturned`.
* `EntriesDoStay`: `~MallocFails => (Spec => EntriesStay)`; without memory it is false, as the
  known disagreements say.

The invariant is `BaseInv`: what the call of a thread refers to at each place (`RefInv`: the
directory is the root's inode and nothing else is; only the thread that releases an
inode refers to one that has left the list), who holds the lock of the list and that
of the directory (`LocksInv`), that `open_cnt` is the number of references (`CountInv`),
that no other inode comes to lie on the root's sector (`RootInv`, without which a closed
file could be the directory), and that what `dir_remove` has found stays while it holds the
directory's lock (`EraseInv`). Counting is done once, in `CardMove` and `RefsMove`: one step
moves the references of one thread.

The second half of `FileSysProofs` proves who owns the sectors, for the same instances but under the
discipline `RemoveAlone`; without it the run `filesys_deadlock` and the known
disagreements show what happens:

* `OpensTheNamedFile`: `RemoveAlone => (Spec => []OpensNamedFile)`.
* `RemovedIsUnlisted`: `RemoveAlone /\ ~MallocFails => (Spec => []RemovedIffUnlisted)`.
* `SectorsHaveOneOwner`: `RemoveAlone /\ ~MallocFails => (Spec => []SectorsOwnedOnce)`. When memory
  runs out sectors are lost, so `~MallocFails` is the code's own condition.

`OwnerInv` is inductive with `BaseInv`: nobody else is in the file system's calls while
one removes (`AloneInv`); the inodes of files (`Live`: listed, open, found, added or about to be
released), the sectors of new inodes, of removed files and of failed creations do not
overlap and are marked (`OwnInv`); which sources of `Live` exclude each other (`SourceInv`: a
removed inode is not found again, a new one is in nobody's hands twice); and an inode in
memory is the copy of the one on disk (`CopyInv`). `AllInv` adds that everything marked belongs
to something. What allocating, creating, adding and releasing do to owners is proved
apart from the threads (`OwnAllocate`, `OwnCreate`, `OwnAddFails`, `OwnReleaseInode`,
`OwnReleaseData`), and steps that change nothing anybody owns fall under `CalmStep`.

`LibraryProofs` proves, for any number of processes and files, any size of the table and any
lengths (assumed: `FileTableAssumption`):

* `CallsAsPromised`: `AboveConsole`, `FilesInv` and `[][FilesNext /\ no Start]_fileVars` imply
  `[](wild \/ FilesInv)` and `[][AsPromised]_fileVars`.
* `DescriptorsAreTracked`:
  `AboveConsole => (FilesInit /\ [][FilesNext]_fileVars => FilesTracked)`.

`AboveConsole` says that the keyboard and the screen are below `START_POSITION`, which is 50.
Nothing is assumed of the numbers programs use as descriptors, of the positions they seek to or of
how many files they open. So the theorems are about the code's own 50 and 128, and they say no
more than the code does: what it gets wrong is in the exceptions of `AsPromised` (section 3),
and with 50 the second theorem says of `Start` that it faults. That is why the first is
about runs from right tables on. It says what the calls do from there, and that the tables stay
right until one of the excepted steps uses or overwrites what is not the table's.

The invariant is `wild \/ FilesInv`, and `FilesInv` says that what stands in a table is an open
file at a position from `START_POSITION` on, and stands there alone, or is a word of the kernel's at
its place (`TableInv`, `OnceInv`). Then the scan finds a free position if there is one
(`NextPosition`), and closing the positions of the array closes each file once (`ExitInv`, by a
bijection from the taken positions to the closed files). A call either names a file, is refused,
or uses a word of the kernel's (`AtFd`, `RefusedOK`); one that changes the table changes
that of its own process only (`OneTable`). That a process does not reach another's file is
more than the invariant: seek, tell and filesize outside the table may, and are excepted.

It also proves, for any number of lists and any finite number of elements (assumed:
`ListsAssumption`: an element is no head, no tail and not the null pointer),

* `ListLinks`: `ListsSpec => []ListsAreSequences`.

The invariant `ListsInv` says of the links (`HeapInv`) that the sequences a loop over the lists
meets are all there is to them: no element is at two places (`Once`), and each node of a list
points to its neighbours, both ways (`Chain`). It says nothing of the links of elements outside,
so nothing may depend on them. Every call is made of two: taking a part out, which keeps the
other places and leaves the part linked and in no list (`CutKeeps`), and putting a part in that is
in no list (`PasteKeeps`); reversing is a third (`ReverseKeeps`). That the loop meets what the
links say, and that it ends, is `VisitedIs`: it needs that no sequence of different elements is
longer than there are elements (`NoMoreThanElem`). The same lemma about the links the other way
round gives `Linked`. While `list_sort` runs, `SortInv` says that its locals are places of the list
in order, so that what it splices is one element of the second run, and that it goes before a
place of the first (`OneMoves`).

`AddressSpaceProofs` proves every property of `AddressSpaceProperties`, for any word, page size and
span of a page table, every executable and however much memory there is. `AddressSpaceAssumption`
says of them what the code relies on: `PHYS_BASE` and the word are multiples of the page
size, there are at least 8 addresses of the kernel (so that the last argument checked does not
wrap around), an int can count the bytes of a page and of a call's arguments, and the fields of
a program header are words. No other arithmetic of
the code's sizes is used, so page numbers and offsets are handled by lemmas of their own
(`PageOf`, `SamePage`, `Aligned`, `RoundedDown`, `RoundedUp`).

* `NoFrameIsLost`: `Spec => NoFrameLost`. The invariant `FramesInv` says that pages and tables can
  be counted, that a page has a page table, and that there is no page directory before
  `pagedir_create`.
* `ProgramsAreLoaded`: `Spec => []ImageRight`, from `LoadInv` besides. Each header before the
  current one was ignored or is built in full (`Settled`); the current segment is
  built up to the page where the loop stands, and the locals of `load_segment` say
  which bytes of the file come next (`Built`, `Progress`: what is left to read and what
  is left to clear are one number each in the code, and the proof has to tie both to the
  address); a page is the stack's or some segment reaches into it (`Known`). That later pages leave
  the earlier ones as they are is because `install_page` refuses a page that is there
  (`StaysBuilt`, `StaysSettled`).
* `AddressesAreChecked`: `Spec => []AddressesChecked`. It needs no invariant: whatever pages a
  program has, the checks are right about them, except for the two cases named in the property: `Misses`,
  where the offset is negative, and `Wraps`, where its sum with the length is no int. For
  strings and for the arguments of a call there is no exception of the second kind
  (`UserStrings`, `UserArguments`). `OffsetIs` says what the remainder of an address
  as an int is, `PagesReach` how far the pages reach that are counted from it,
  `PagesAtIs` that looking them up one after the other finds whether all are there.

`MemoryProofs` proves every property of `MemoryProperties`, for any number of threads (not even
finite), any sizes of pages, arena headers and blocks, any pools, and whatever programs ask
for (assumed: `MemoryAssumption`; of the sizes only that two headers fit in a page).

* `EverythingOwned`: `SizesFit => (Spec => []MemoryInv)`, and from it
* `ContentsAreKept`, `CallersAreServed`, `BooksAreRight`, `NoPageIsLost`: `SizesFit => (Spec => [])`
  of `ContentsKept`, `CallerServed`, `BooksRight` and `NoPageLost`.

`SizesFit` says that no program asks for so much that a header and a page more wrap around
(4 GB less about a page); the code does not test for that, and without it `malloc` may
return a block smaller than was asked for (section 4). The requests of the run `memory` satisfy it.

None of the four is inductive: none says what a thread in the middle of `free` has in its hands,
or that the free list and the callers have different blocks. Nothing in the code
records whose a page or a block is, so `MemoryInv` says that there is an account of it: `P` gives the
owner of each page and `B` of each block, one of: nobody, an arena, the free list, a block
a program has (`Has`), what a call has got so far (`New`) or is about to give back (`Gone`).
The bitmap marks exactly the pages with an owner (`Mapped`); the free lists hold exactly the blocks
`B` says, each once (`ListsOK`); an arena's header is where its page begins and counts its
listed blocks, unless a call with the lock is taking it apart (`ArenaOK`); nothing else
in a page that has an owner looks like a header (`Clean`); and the local variables of a call point to just what is
its own (`FrameOK`, `NewOK`, `GoneOK`), with contents as promised so far (`ContentOK`).
Since an owner is one value, two things owned by different ones do not overlap, and that is
all the properties need. Each action has a lemma (`...Keeps`) that says what becomes of `P` and `B`: a
call begins with nothing, `Flip` moves a page from nobody to `New`, `Pop` a block from
the list to `New`, `Receive` what is `New` to `Has`, `GiveBack` what is `Has` to `Gone`,
`FreeClear` a page from `Gone` to nobody. The lemmas before them say what stays: for the
other threads (`OtherThread`), and for the
same one while only its place changes (`GoOn`). The
clearing of the bits by a thread without the lock, in the middle of a scan by another,
is covered: a scan that has seen a free page knows it is free still, since
bits are set with the lock only.

Only model-checked: `NoDeadlock`, which the code violates, and of the library `TableIsSet` and
`LibraryComputes`. Out of the prover's reach: liveness under fairness (`CallsReturn` and its
like), and what recursive functions and folds compute for every input: that a list or an array that was
sorted is in order, that rehashing puts each element where it belongs, that division is exact.

## 6. Not modelled

* `boundedbuffer.c`: empty functions. `lib/kernel/slist.c`, `cond_broadcast`, `sema_try_down`,
  `lock_try_acquire`, `dir_readdir`, `hash_apply`: nothing in the kernel calls them.
* Thread priorities and the feedback queue: stubs in this code.
* Formats of the hardware: gates, segments, the task state, page table bits that
  nothing reads, the interrupt controllers, baud rates, the screen's cursor.
  Assembly: the boot loader, the interrupt stubs, the registers `switch.S` saves.
* Text that nothing depends on: help, statistics, dumps, debugging lines.
* User programs and the tests: they are the environment. The library user programs are
  linked with only makes the system calls.
* `src/src`: a second copy of the tree; what is said here holds for `src/pintos/src`.

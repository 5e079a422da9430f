# Specifications of CS314

The repository is the course work of an operating-systems course: small C
programs of their own, not one system. This directory holds TLA+ specifications of the
ones that carry logic: the producer/consumer programs of `homework/hw2` with their
hand-made semaphore, the allocator of `projects/project1`, the one-file file system
of `projects/project2b`, and the small concurrent programs of `homework/hw1`,
`class_notes` and `play`. TLC checks them on small instances. TLAPS proves their safety
for every instance: of the concurrent programs for every number of threads, every buffer and
every string, of the allocator for every page size and set of requests, of the file system
for images of every size.

## Inventory

| part | state | operations | what is hard | what makes it correct |
|---|---|---|---|---|
| `homework/hw2/my_sem.h` | a count, a mutex, a condition variable | init, wait, signal | lost and spurious wakeups, two threads for one unit | it is a counting semaphore; nobody sleeps beside a unit |
| `homework/hw2/sem.c` | ring buffer, `in`, `out`, `prod_index`, semaphores `empty`, `full`, `mutex` | producer, consumer, joins of `main` | interleaving, slots leaked at the end, end markers ("pills", NULs) that nobody takes | the string is printed once and in order; nobody ends before; the run ends |
| `homework/hw2/pthread.c` | the same with a `count`, one mutex and two conditions | producer, consumer, joins of `main` | wakeups swallowed by a leaving producer, pills | as above |
| `homework/hw2/my_sem.c` | that of `sem.c` over `my_sem.h` | the same | every semaphore operation is several steps | it does what `sem.c` does |
| `projects/project1/mymalloc.c` | headers in memory, four fast bins, four regular bins | `my_malloc`, `my_free` | split and merge arithmetic, list surgery, long sequences of calls | allocations do not overlap, no block is lost or in two bins |
| `projects/project2b/filefs.c` | image file (superblock, bytemap, inodes, data), its copy in memory | `-a`, `-r`, `-e`, `-l`, `die`, save | a process that dies or is killed between writes, also within its save; resources that run out half-way; recursive removal | it is a store of files under paths; blocks have one owner; no block is lost |
| `homework/hw1/p8.c` | descriptors of three processes, a pipe | fork, close, dup2, write, read, wait | who still holds an end; a fork that fails | the reader ends after the last line, and the parent last |
| `homework/hw1/p9.c` | a pipe shared by two threads | write, read, close | the end of the file depends on the other thread | no byte is lost, and both end |
| `class_notes/week3/prodcon.c` | a count, a mutex, a turnstile | `threadmain4`, joins | the count is tested outside the mutex | it is a barrier |
| `class_notes/week2/threads.c` | a counter under a semaphore, handles | `threadstart`, `main` | a handle is overwritten, so one thread is not joined | no increment is lost; what is printed lies in the range that thread leaves |
| `play/2tcounter.c` | `x` and two semaphores | two threads, joins | no lock on `x`, only turns | the numbers come out in order |
| `projects/project2`, `projects/project2c`, other files of `homework` and `class_notes` | | | | not modelled, see below |

The programs share nothing at run time, with one exception: `my_sem.c` includes
`my_sem.h`. Within a program threads interact through shared variables,
semaphores and condition variables, the processes of `p8.c` through a pipe; two runs of
`filefs` interact through the image.

## Modules

| module | models | 
|---|---|
| `Semaphore` | what a counting semaphore promises (abstract) |
| `MonitorSem` | `my_sem.h`, one action per step between two pthread calls |
| `Delivery` | what the producer/consumer programs are for (abstract) |
| `SemProdCons` | `sem.c` |
| `CondProdCons` | `pthread.c` |
| `MySemProdCons` | `my_sem.c`: composes `SemProdCons` and `MonitorSem` |
| `Allocator` | what a client may expect of an allocator (abstract) |
| `MyMalloc` | `mymalloc.c` |
| `FileStore` | a store of files under paths (abstract) |
| `FileFs` | `project2b/filefs.c` |
| `Rendezvous` | what a barrier promises (abstract) |
| `Barrier`, `Counter`, `Turns` | `week3/prodcon.c`, `week2/threads.c`, `2tcounter.c` |
| `PipeProcs`, `PipeThreads` | `p8.c`, `p9.c` |
| `Exercises` | the five small programs, of which a run takes one |
| `MC...` | instances for TLC |
| `MonitorSemProofs`, `SemProdConsProofs`, `CondProdConsProofs` | theorems about the programs of hw2 |
| `MyMallocProofs` | theorems about `MyMalloc` |
| `FileFsTables`, `FileFsProofs`, `FileFsFiles` | theorems about `FileFs`: tables of inodes and the ways in them; blocks; types, tree and files |
| `ExerciseProofs` | theorems about the small programs |

Operators named `...Unguarded`, `...Untested`, `...Not`, `InodesFirst` and the like, which
stand before the definition they vary, have a plausible mistake in
them. Nothing uses them; each shows that a property distinguishes the program from
the variant.

### MonitorSem

`count[s]`, `owner[s]` and `waiting[s]` are the three members of a `Sem`; `pc`
and `arg` say which call a thread is in and how far. POSIX is modelled by what it
promises: no order among the threads that want a mutex or wait on a condition,
`pthread_cond_wait` gives up the mutex and sleeps in one step, wakeups for no
reason happen. Which semaphore is called when is left open, so the properties
hold for any program over `my_sem.h`; `MaxCount` bounds the calls only.

### SemProdCons, CondProdCons

An action is one semaphore or pthread call with the accesses that follow up to the
next call. The accesses to `buffer`, `in`, `out` and the index happen under
the mutex; `MutualExclusion` and `LockDiscipline` say that they really do, so that
taking them as one step loses no interleaving. `left`, `pills`, `ended` are the
position of a thread in its loops; `printed` is standard output. A character is its
place in `items[]`, so order and repetition are visible. `sem.c` counts
`sizeof(items)`, with the NUL; `pthread.c` counts `strlen(items)`: the models
keep the difference.

### MySemProdCons

The accesses to the buffer are those of `SemProdCons`; a semaphore operation is a
call, the steps of `MonitorSem`, and a return. `SemProdCons` is implemented by
the mapping in which a wait happens at `count--` and a post at `count++`:
everything said of `sem.c` is so of `my_sem.c`.

### MyMalloc

Memory is a function from addresses to 8-byte words, sizes are the bytes of the
64-bit build (`HEADER_SIZE` 32, `PAGE` 4096), and a header is four words in that
memory. So a header that does not fit, a wrong size or a stale link does
what it does in the program. A call is one step, as the program has one thread.
Regions are adjacent and the client clears what it gets. `BlocksOf` and `Chain` walk
along the sizes and along `next` as the program does, so that the invariants speak of
what it would find. The abstract `Allocator` sees the client's allocations as
a function of pointers: a block handed out a second time for the same size would change
nothing there; that no block is, is what `EveryBlockOnce` says.

`Next` is any client that frees only what it has. `CarefulNext` is the client the
program can serve: it frees a block only when the block behind it is the sentinel or
in a regular bin, or when the block goes to a fast bin, and asks for no size that
leaves 16 or 24 bytes over. Outside these conditions the program corrupts its heap:
`malloc_overlap` shows it for the first of them, `malloc_sentinel` for the second.

### FileFs

A command is a process: `Open` loads the image into `sb`, `bitmap` and `inodes`, the
command works on these, data blocks are written to `data` as the code writes them, and
the save writes superblock, bytemap and inodes one by one to `image`. An action is a
round of a loop of the program, so that a kill can come between any two writes: a name
of the path (`EnterDir`, `add_dir`, `add_file`, `Follow`), a block written
(`WriteBlock`), a child, block or directory freed (`FreeChild`, `FreeBlock`,
`FreedChild`, `FreedTarget`; `stack` is the recursion), a step back up (`GoUp`), a write
of the save (`Save`). `die` and `Crash` drop the memory; `Crash` in the middle of a save
leaves the image half new, and further commands go on with that. A write that has
been issued is taken to reach the file, in the order of the calls.

The sizes of the image are parameters. A block holds `BLOCK_UNITS` units of a user's
file or NULs, `buffer` is the buffer of `write_file`, which is not cleared between
blocks, and `Stored` is what `extract_file` prints. So a file that does not end with a
block carries the rest of the block before, as in the program. A block that is freed is
written over; all that is kept of that is that its first byte is NUL. Layout and wording of `-l` and the
names of the fields nobody reads are left out.

### The small programs

`Barrier`, `Counter` and `Turns` take a shared variable's `+= 1` as a read and a write,
and each semaphore operation as a step. `Counter` has `main` with its array of handles.
In `PipeProcs` a process holds a set of descriptors; a read returns when there is a line
or when no process holds a write end; a write without a read end held kills; exit closes
all; a fork that fails ends the parent. `PipeThreads` has one set of descriptors for both threads.

## Runs

| run | shows | states |
|---|---|---|
| `monitor_sem` | type, mutex discipline, no lost wakeup, implements `Semaphore` with its progress | 6 thousand |
| `sem_prodcons` | exclusion, slot accounting, order, implements `Delivery`, ends | 118 thousand |
| `sem_wedge` | `./sem 4 2` does not end (violation) | |
| `cond_prodcons` | discipline, ring, no lost wakeup, implements `Delivery`, ends | 69 thousand |
| `my_sem_prodcons` | implements `SemProdCons` with its fairness, ends | 74 thousand |
| `malloc_careful` | tiling, bins, implements `Allocator` | 191 thousand |
| `malloc_overlap` | overlap after merging with a block in use (violation) | |
| `malloc_sentinel` | a leftover of 16 bytes gets its header over the sentinel (violation) | |
| `filefs` | one owner per block, none lost, tree, a killed `-a` is harmless, implements `FileStore` | 299 thousand |
| `filefs_fresh` | a first command that dies spoils the new image (violation) | |
| `filefs_whole` | `-e` prints more than the file held (violation) | |
| `exercises` | the five small programs keep count, order and bytes, and end | 67 thousand |

Bounds, and why they are enough:

- `monitor_sem`: four threads on one `Sem`, count up to 3. Lost wakeups need two
  sleepers, a signaller and a thread that walks in; more of each is covered by the
  proof.
- `sem_prodcons`: the buffer of the program, 8 slots, two producers and three
  consumers, ten characters: the ring wraps, the leaked units and the pills of
  both producers fill it to the last slot (1 + 2 + 6 <= 8 + 3). `cond_prodcons`: three
  producers, two consumers, four slots, where 6 pills just fit (6 <= 4 + 2).
- `my_sem_prodcons`: the least room in which a run ends with two producers and a
  consumer.
- `malloc_careful`: requests of 2100, 1816, 8 and 4024 bytes in three regions. They
  fill the regular bins 0, 2 and 3 and fast bin 3, a region is split up to three
  times and merged again, a bin holds up to three blocks, which are inserted at the
  head, in the middle and at the tail, 8 bytes are left before a sentinel, and `mmap` fails. Fast bins 0 to 2 are for
  totals that no request has: the smallest total is 40.
- `filefs`: five inodes, two entries per directory, four data blocks of two units, a
  file of less than a block and one of three blocks, which runs over into `indirect`;
  paths up to three names, three additions, one save cut short. Inodes, blocks and
  entries all run out, a directory is reused after it was removed, paths lead
  through files, and commands of all kinds but `-r` follow on a torn save. `MaxAdds` bounds
  the additions, because `sb.size` only grows; `MaxTorn` the torn saves.
- `exercises`: four barrier threads, so that several see the full count and several wait
  behind the turnstile; three joined threads and the fourth whose handle is lost, two rounds each;
  twelve rounds of turns and a message of 30 bytes (the lengths of the sources are far longer, and
  every round and byte is like the one before); both forks of `p8.c` may fail.

`CHECK_DEADLOCK FALSE` stands where the system may stop: the two sequential
programs when their bounds are used up, and the runs that show a violation.

Fairness: every thread or process that can take a step takes one at some point (weak
fairness per thread), which is what a preemptive scheduler gives. No order or
strong fairness of mutexes or semaphores is assumed. Spurious wakeups are
assumed to end: a waiter woken again and again for no reason could hold the mutex
whenever another wants it. In `exercises` the fairness is that of the program that
runs. The sequential programs have safety properties only.

## What the checks found

- `sem.c:26` (and `my_sem.c:26`): the program ends only if
  `1 + P + P*C <= BUF_SIZE + C`; a producer that runs out of items keeps a unit of
  `empty`, and a consumer leaves the NUL it ends on in the buffer (`sem_wedge`).
- `pthread.c:46`: it ends only if `P*C <= BUF_SIZE + C`, so `./pthread 4 3` does not;
  this is `NoEndWithoutRoom` of `CondProdConsProofs`.
- `mymalloc.c:246`: merging does not ask whether the next block is free (`malloc_overlap`).
- `mymalloc.c:126`: a leftover of 16 bytes gets a header of 32 (`malloc_sentinel`). One of
  8 bytes gets none and is in no block: `my_free` of the block before it takes the word
  in front of the sentinel for a header, reads 0 for its size and its `is_free`, and so
  stops there as it should. `Tiled` therefore lets a region end 8 bytes short; an
  earlier form of it, without that, is false for a request of 4024 bytes.
- `mymalloc.c:174`: only one regular bin is searched before memory is mapped; the model
  follows that, and no property speaks of it.
- `filefs.c:714`: a new image is not written until the first command succeeds (`filefs_fresh`).
- `filefs.c:312`: the last block carries the tail of the one before (`filefs_whole`).
  `FilesWholeAtRest` also fails, with other files, for `-r` of a file that uses
  `indirect`, which dies after the blocks are overwritten (line 348), and for `-r /`
  (line 551), which dies after everything is. `AddedFilesWhole` is proved of files
  without such an end (`FilesFit`).
- `filefs.c:762`: a save of `-a` cut short leaves an entry that leads to a free inode. A
  later `-a` may take that inode for a file with the name of a later entry of the same
  directory, and `-e` then finds the new file. So `KilledAddLosesNothing` is said of the
  saves up to the first one cut short; after it files keep their blocks and content
  (`BlocksNotShared`, `AddedFilesWhole`), but a name may hide an older one.
- `sb.size` and `num_free` are counted per file added, never per block, and never down
  (line 489); nothing reads them, so no property does either.

## Proofs

The `...Proofs` modules prove, from the assumptions named in the modules
(finite, disjoint, non-empty sets of threads, a buffer of at least one slot,
natural initial counts; pages of more than 64 bytes and a multiple of 8, requests of at
least a byte; an image of at least one inode, entry and data block), for every
value of the constants:

- `MonitorSemProofs`: `TypeOK`, `LockDiscipline`, `NoLostWakeup`, and that the
  monitor implements the safety part of `Semaphore`. `Places` (type and discipline
  together) is inductive; `NoLostWakeup` is inductive relative to it, by
  counting the threads in flight: each step that adds a unit adds a thread to
  `InFlight`, each that removes a thread removes a unit or finds none.
- `SemProdConsProofs`: `TypeOK`, `MutualExclusion`, `SlotAccounting`,
  `PendingInOrder`, the safety part of `Delivery`, and `EndsOnlyWithRoom`. `Shape` adds to
  type and exclusion how far each thread is in its loops. The two laws of
  `SlotAccounting` are then inductive, by one cardinality lemma for a thread that
  moves between two sets. `Ring` adds where `in` and `out` stand to each other and that
  NULs are behind all characters; it needs the laws to know that a store never hits a
  slot in use. `EndsOnlyWithRoom` follows from the laws in a state where all are done.
- `CondProdConsProofs`: the same for `pthread.c`, with `Fifo` in the place of `Ring`
  and the counting of `NoLostWakeup`, and `EndsOnlyWithRoom` from a law that relates
  `count` to what was put and taken.
- `ExerciseProofs`: the safety of all five small programs.
  `Barrier` keeps its count, opens only when full and is a `Rendezvous`: `Exact` says that
  one thread is between the semaphore operations (`Alone`), that the value read is still
  the count when it is written (`Fresh`), and that the count is the number of threads
  that have counted, so it reaches `NUM` with the last and cannot pass it.
  `Turns`: `Alternating` says which thread holds the one unit, and what it has read.
  `Counter`: `Guarded` (the semaphore and the value read), `InRound` (how many rounds each
  thread has counted), `Handled` (which handles `main` holds and which threads it has joined);
  what it prints then follows by a sum over the threads.
  `PipeProcs`: who may hold which end (`Ends`), who was created and who has been waited
  for (`Family`), where the line is (`Line`). `PipeThreads`: what is printed, what is
  read and not printed, and what is in the pipe make the message (`MessageInv`).
- `MyMallocProofs`: `TypeOK`, `Tiled`, `EveryBlockOnce`, `BinsSorted`, `ImplementsAllocator`,
  and with them `LiveDisjoint` and `SentinelAtTail`, of the careful client
  (`CarefulSpec`), for every `PAGE`, `Requests` and `MaxRegions` of the two assumptions.
  The heap does not say where its blocks are: it has only sizes and links. The inductive
  invariant `Blocked` names them: there are blocks `B`, ends `E` of the regions
  and lists `L` of the bins such that the blocks have room for a header, follow one
  another and end at the sentinels (`Regions`, `Tiles`, `Marked`), every list is linked,
  sorted and of its sizes and a free block is in one (`Binned`), and what is not free is what the client has,
  with room for what it asked for (`Served`). `remove_from_bin`, `insert_sorted` and
  `push` are shown to change `L` by one block, header by header: writes to one header
  leave the others alone because blocks do not overlap. A split adds a block to `B`, a merge
  takes one out, a new region adds two. The condition of the careful client is what makes
  the block that a merge takes a member of its list, and a leftover a block with room for its
  header. The last section shows that the recursive walks `Chain` and `BlocksOf` find just
  `L` and `B`: `Recursion` gives a solution of such an equation for every walk with a
  measure that falls, here the blocks still ahead and the distance to the end.
- `FileFsProofs`: `BlocksNotShared` of the image, for an image of any size, any set of
  paths and users' files, and any number of saves of `-a` cut short, and `NoBlockLost`,
  until the first such save. `Inv` is inductive.
  Image and memory are `Good` (every entry of a file is a used data block of its own, a
  free inode has no entries, the metadata are marked used) and, until a save has been cut
  short, `Linked` (every link leads to an inode in use, no two to the same) and `Covered`
  (every used data block is an entry of a file). The last needs that `write_file` never
  writes over an entry: the new file has none behind its size (`Writing`), and a file that
  fits its entries takes no more rounds than there are entries (`RoundsBound`). `-a` takes
  only free blocks and free inodes and changes no file the image holds (`Adding`), so every
  mixture of the inodes in the image and in memory is sound under the bitmap in memory,
  which its save writes before the first inode. `-r` frees an inode only after its entries
  are gone and clears the one link to it: its path and its recursion go down links without
  meeting an inode twice (`Way`, `Recursion`), which is where `Linked` is needed and why the
  model runs no `-r` after a torn save. The end of the module reduces every step to what
  it does to image and memory (`Effect`); the next module uses nothing else of them.
- `FileFsFiles`: four invariants on top of `Inv`. `TypeOK`, by `Neat`: a size counts the
  entries of its inode, but for directories in the middle of a recursive removal, so it
  stays within `MAX_DIRECT + 1`, and free inodes have no name. `TreeOK`, until a save is cut
  short, by `Rooted`: every inode in use but the root has a parent, and no directory is
  empty but those the command is about to fill or to delete. `KilledAddLosesNothing`, by `Named`
  (`-a` gives no name that its directory has) and `Growing`: what memory has more than the
  image is under inodes that are free in the image, and each mixture a save leaves gives a file of the
  image the same inode, entries and blocks. `AddedFilesWhole`, by `Content`: the blocks written
  hold the chunks of the user's file, in this order; for users' files that fit their blocks (`FilesFit`,
  which `MCFileFs` asserts of the files of the run), also after saves cut short.

`EndsOnlyWithRoom` is why the wedges are no accident of the instance: with too little
room no schedule at all lets the program end.

Checked by TLC only: everything under fairness (`Termination`, `EveryProgramEnds`, progress of
`Semaphore` and `Delivery`), which TLAPS does not handle; that `MySemProdCons` implements
`SemProdCons`; that `FileFs` implements `FileStore`. The last two are safety, but for the
fairness in `SemProdCons`, and not proved yet.

## Not modelled

- Creation of threads (but in `Counter`): a thread not created yet is one that has not
  moved.
- `mymalloc.c`: the statistics dump and the demonstration; `size_t` overflow;
  pointers the client never got; the heap after a split left 16 or 24 bytes.
- `filefs.c`: files of more than `MAX_DIRECT` + 1 blocks, whose entries run into the
  next inode; a save of `-r` cut short, after which blocks of files are marked free
  while the files still have them; `-r` after a torn save of `-a`, where
  `free_directory` leaves entries behind that no longer lead to an inode.
- `project2/filefs.c`: every command on a directory goes through pointers that are never
  set (174-187, 195-227, 276-297): there is no defined effect to model.
- `project2c/filefs.c`: `main` declares `argv` as `char*`, so that no image is ever opened, and
  `sync_bitmap` copies the bitmap over a smaller block on the stack.
- `class_notes/week3/mutex.c` and `week4/prodcon.c` do not compile; `week3/mem.c` and
  `week4/mem.c` are fragments of an allocator without bounds or a free.
- The other files of `homework` and `class_notes`: one fork, exec, copy loop or time
  measurement in a straight line.

## Plan

Done: the programs of hw2, the allocator, the file system step by step with torn saves
and the small programs, each with its runs; as theorems every invariant that a run checks,
and the implementation of `Semaphore`, `Delivery`, `Rendezvous` and `Allocator`. Left:

1. The refinement of `SemProdCons` by `MySemProdCons` (safety) as a theorem.
2. The refinement of `FileStore` by `FileFs` as a theorem.

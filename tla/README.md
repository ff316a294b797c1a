# Verification of the AESD socket server and its character driver

TLA+ modules, TLC configurations and TLAPS proofs for the repository's own
code: the `aesdchar` kernel driver (`aesd-char-driver/`), the circular buffer
it is built on, the `aesdsocket` server (`server/`) that runs one thread per
connection on top of the device, and the two example libraries with processes
and threads (`examples/systemcalls`, `examples/threading`). `PROJECT.json` maps each definition to the
source lines it models and lists the runs, the mutants that each property is
known to catch, the findings, the hazards and the theorems.

## 1. Inventory of the system

| Part | Source | State it keeps | Operations |
|---|---|---|---|
| circular buffer | `aesd-char-driver/aesd-circular-buffer.[ch]` | `entry[]`, `in_offs`, `out_offs`, `full`, `cb_size` | init, `add_entry`, `find_entry_offset_for_fpos`, `adjust_file_offset`, `cleanup_circulat_buffers` |
| driver | `aesd-char-driver/main.c`, `aesdchar.h`, `aesd_ioctl.h` | `struct aesd_dev`: the ring, `part_mem_ptr`, `part_buf_size`, `buf_lock`; the heap; `f_pos` of each file | load, unload, open, release, read, write, llseek, ioctl |
| connection threads | `server/aesdsocket.c` (`main`, `create_client_thread`, `check_for_finished_client_threads`, `process_client_connection`, `sig_handler`) | the queue `head`, `queue_lock`, `run_connections`, one `struct client_queue` per connection | accept, create, insert, scan and join, finish, signal, shutdown |
| packet handling | `server/aesdsocket.c` (`process_packet`, `seek_and_read`, the receive loop) | a growing receive buffer per thread | receive, split at newlines, write to the device, send the contents back, the textual seek command |
| file back end | `server/aesdsocket.c`, `#ifndef USE_AESD_CHAR_DEVICE` | `/var/tmp/aesdsocketdata`, `file_lock`, the timer | timestamps, locked writes |
| tail queue | `server/queue.h` (vendored BSD header) | links of the queue | `TAILQ_INIT`, `FIRST`, `NEXT`, `INSERT_TAIL`, `REMOVE`, `FOREACH_SAFE` |
| threading example | `examples/threading` | one mutex, thread parameters | wait, lock, hold, unlock |
| systemcalls example | `examples/systemcalls` | the open output file, the child process | `do_system`, `do_exec`, `do_exec_redirect` |
| applications, scripts, tests | `finder-app`, `*.sh`, `test`, `student-test` | files | straight-line I/O |

How the parts interact:

* Each server thread opens the device once and is the only user of its file.
  It writes one packet, then reads the device until it returns 0 and sends
  what it gets to its client. The driver sees interleaved `write`, `read`,
  `llseek` and `ioctl` calls of several threads.
* The driver calls the ring with `buf_lock` held. The ring owns the buffers of
  its entries; `add_entry` hands the buffer of the entry it overwrites back to
  the driver, which frees it after the unlock.
* `main` and the connection threads share the queue under `queue_lock`. A
  thread sets its `task_finished`; `main` joins it, closes its two descriptors
  and frees its entry.
* A signal handler clears `run_connections`, which `main` polls between two
  non-blocking `accept` calls. The handler and all threads call `syslog`, whose
  lock they share.

What is hard here, and what makes each part correct:

* *Ring.* Both offsets wrap, one flag distinguishes full from empty, `cb_size`
  is kept by differences, and a `size_t` is narrowed to an `int`. Correct: the
  live slots are the last writes in order; `cb_size` is their total size, as far
  as its type can hold it; a lookup or a seek finds the byte that the stream of
  writes has there.
* *Driver.* Work before and after the critical section (allocation and
  classification before, `kfree`, position update and a debug print after),
  three kinds of failure (allocation, user copy, signal), and data that waits
  across calls for its newline. Correct: no block has two owners, and what an
  owner points to is allocated; each call takes effect at one instant; each
  call returns.
* *Packets.* The receive loop takes any result of `read` but 0 for
  `MAX_BUF_SIZE` bytes, and never forgets what it has received; an answer is
  many calls of the device, between which other threads write. Correct: what
  is stored was sent; an answer is the contents of the device, without gaps and
  to the end; every thread comes to rest.
* *Tail queue.* The first, last and only element are unlinked in different
  ways. Correct: both directions of links always agree.
* *Examples.* Each call may fail after the ones before it have succeeded, in
  two processes or in several threads. Correct: results are true, files are
  closed, the mutex is released, memory has one owner.
* *Server.* A thread may finish before it is in the queue; `main` joins while
  it holds the lock the thread needs; clients come, leave and reset at any
  time. Correct: no use after free, no lost descriptor, no deadlock in the
  join; finished threads are reaped; shutdown ends.

The full list, with lines, is `hazards` in `PROJECT.json`.

## 2. Modules

```
CircularBuffer            the C functions of the ring, as operators on a record
 |-- RingLemmas           TLAPS: what these functions return, for every ring
 |-- CircularBufferSpec   the ring as a state machine      ==> BoundedLog
 |    `-- CircularBufferProofs   TLAPS, with RingLemmas
 `-- AesdChar             the driver, interleaved calls    ==> AesdDevice
      |-- AesdCharProofs  TLAPS, with RingLemmas
      `-- MCAesdChar      instances for TLC
AesdDevice                the atomic device
 `-- AesdPackets          receive loops composed with it (INSTANCE)
      |-- AesdPacketsProofs   TLAPS
      `-- MCAesdPackets
TailQueue                 the macros of queue.h, on links
 |-- TailQueueProofs      TLAPS
 `-- AesdSocket           threads, queue and shutdown of the server
      |-- AesdSocketProofs   TLAPS, with the theorems of TailQueueProofs
      `-- MCAesdSocket
Systemcalls               do_system, do_exec, do_exec_redirect
 `-- SystemcallsProofs    TLAPS
Threading                 threads that share a mutex
 `-- ThreadingProofs      TLAPS
```

`A ==> B` means that A is shown to implement the abstract specification B.

**CircularBuffer.** A ring is a record with the fields of `struct
aesd_circular_buffer`. `nextPtr`, `find_entry`, `add_entry` (with
`removed_buffptr`, its result, and `rm_buf_size`), `adjust_file_offset` and
`cleanup` are the C functions; their loops are recursive functions over the
slot index. `AsInt` is the narrowing of a `size_t` to an `int` of `IntBits`
bits, in the lookup and in `rm_buf_size`; `cb_size` is an unsigned number of the
same width and wraps. `Count`, `SlotOf` and `Contents` say what a ring means.

**CircularBufferSpec.** Adds entries one after the other. Two history variables
(`start`, `total`) record where in the stream of all bytes ever written each
slot's entry begins. **BoundedLog** is the abstract ring: a sequence that drops
its head when it is full.

**AesdChar.** Threads call the device, each on a file of its own. A call is split
where other threads can see the difference: up to the request for `buf_lock`,
the critical section with its unlock, and what follows it. `Lock` and the
`...Interrupted` actions are the two results of `mutex_lock_interruptible`.
The heap is explicit (`allocated`, `mem`): reading past what a block holds
yields arbitrary bytes, a failing `__copy_from_user` leaves arbitrary bytes in
the block, and allocation failures are an outcome of the merge. Error returns
that change nothing (`-ENOMEM` of the first allocation, unknown `whence` or
command, failing `open` of the device number) are stuttering steps. Correspondence:

| Code | Actions |
|---|---|
| `aesd_init_module`, `aesd_cleanup_module`, `aesd_open`, `aesd_release` | the actions of the same names |
| `aesd_write` | `WriteStart`, then `Lock` or `WriteInterrupted`, then `WriteFull` and `WriteFree`, or `WritePartial` |
| `aesd_read` | `ReadStart`, `Lock` or `Interrupted`, then `ReadNothing`, or `ReadEntry`, `ReadLoad`, `ReadPrint` |
| `aesd_llseek` | `LlseekStart`, `Lock` or `Interrupted`, `LlseekSize`, `LlseekSet` |
| `aesd_ioctl` | `IoctlStart`, `Lock` or `Interrupted`, `IoctlSeek` |

**AesdDevice.** What a program may expect of the device: a log of the last
completed writes, the pending bytes, a position for each caller, and atomic
read, write, seek and ioctl. It promises what the code does: `SeekAccepted` is
wider than the header's description (`Within`) and `Complete` wider than the
comment of `is_data_partial` (section 6). The refinement mapping of `AesdChar` reads the log
through the ring and the heap, and takes a caller's position from the VFS copy
as soon as its critical section is over.

**TailQueue.** The macros as operators on a record of two functions, `next` and
`prev`. A `tqe_prev` or `tqh_last` is the address of a `next` link; the model
names the element, or `HEAD`, that contains the link. `Represents(q, s)` says
that the links are those of a queue with the elements `s`.

**AesdSocket.** `main`, one thread per connection, the queue with its links,
`queue_lock`, and the life of each entry and its two descriptors (`none`,
`live`/`open`, `freed`/`closed`). `e` is the variable of
`TAILQ_FOREACH_SAFE`, which has read the link to the next entry before the
entry is freed (and its links with it). What is sent is abstract: a packet is
served, or fails because the client has left or a signal cut the write short,
or raises SIGPIPE.

| Code | Actions |
|---|---|
| `main` | `Setup`, `LeaveLoop`, `AcceptNone`, `AcceptFails`, `Accept`, `Accepted` |
| `create_client_thread` | `CreateThread` or `CreateFails`, `InsertTail` |
| `check_for_finished_client_threads` | `CheckLock`, `ScanUnfinished`, `Reap`, `ScanDone` |
| `sig_handler` | `sig_handler` |
| `process_client_connection` | `ThreadStart`, `ReadData`, `ReadError`, `ReadEnd`, `Serve`, `SigPipe`, `FinishLock`, `FinishFlag`, `FinishUnlock`, `ThreadExit` |

Between `Accept` and `Accepted` main is inside `syslog` and holds the library's
lock. This one call stands for all of its calls: it shows what happens when the
handler, which runs in the main thread and calls `syslog` too, interrupts it
(`mainpc = "stuck"`), and that the threads wait for the lock meanwhile. The
handlers are installed with `signal`, which restarts an interrupted `read`, so
a signal does not show there.

**AesdPackets.** The bytes. Each connection has a client with a stream of bytes,
which `read` delivers in pieces of any length, and a thread with its receive
buffer. `Receive`, `ReceiveError`, `ReceiveEnd` and `ScanEnd` are the receive
loop; `WritePacket` and `Rewind` are `process_packet` up to its loop,
`SeekCommand` is `seek_and_read` up to its loop, and `ReadDevice`, `SendReply`,
`SendFails` and `AnswerEnd` are the loop that both end with. The steps on the
device are the actions of `AesdDevice`, which the driver is shown to implement:
the composition rests on the refinement that the driver runs check and
`DriverImplementsDevice` and `PacketsImplementDevice` prove. The buffer is the sequence of all bytes the scan covers: read or zeroed ones at first,
later also bytes that `realloc` left uninitialised, which are a choice from
`Junk`. Once a reply exceeds `write_back_pkt` the program's behaviour is
undefined and the model stops (`overrun`).

**Systemcalls.** A caller makes calls one after the other; a child process per
call has its own open files, standard output and status. Outcomes of `system`,
`open`, `fork`, `dup2`, `execv` and `waitpid` are choices. A child whose
`waitpid` was interrupted runs on during later calls.

**Threading.** Any number of threads of `threadfunc`, with failing `malloc`,
`pthread_create`, `usleep`, lock and unlock, and the joiner that frees what a
thread returns. A failing unlock, whose result one path tests and the other
ignores, leaves the mutex locked; the history variable `kept` records whose it
was.

## 3. Runs

| Run | What is checked |
|---|---|
| `ring` | `WindowIsTail`, `CbSizeExact`, `FindCorrect`, `SeekCorrect`, `CleanupFreesWindow` in every reachable ring, for every position and command, with a `cb_size` that wraps; `LogSpec` |
| `driver_packets` | newline-terminated writes, reads, lseek, the ioctl and signals by two threads, with loading and unloading: `OwnedIsAllocated`, `OneOwner`, `NoLeak`, and `DeviceSpec`: each call is atomic |
| `driver_partial` | writes with and without newline: the merge keeps sizes, bytes and ownership right, and `DeviceSpec` |
| `driver_faults` | failing allocations, user copies and interrupted waits: `OwnedIsAllocated`, and `CallsReturn`: every call returns, so no error path keeps `buf_lock` |
| `server` | `ThreadsUseLiveEntries`, `JoinNeverWaitsForLock`, `ExitLeavesNoThread`, `NothingLost`, `QueueIsConsistent`, with failing malloc, open, pthread_create and accept, SIGPIPE and signals at any time; `ThreadsReaped`, `ShutdownCompletes` |
| `packets` | two connections, packets and commands that share a read or are split by one, an overwriting device, failing writes: `AnswersAreContents`, `AnswersAreComplete`, `StoredAsSent`, `ThreadsComeToRest` |
| `systemcalls` | `ResultIsTruthful`, `CommandSeesOneFile`, `FileIsClosed`, `CallsComplete` |
| `threading` | any call may fail, the unlock too: `MutexIsHeldByOne`, `SuccessIsTruthful`, `ParmsHaveOneOwner`, `ThreadsEnd` |
| `driver_print`, `server_sigpipe`, `server_syslog`, `packets_chunks` | each shows that a statement of the source is not kept (section 6) |

Type invariants are part of `ring`, `driver_packets`, `server`, `packets` and
`systemcalls`.

### Bounds, and why they are enough

* *Ring*: 3 slots, sizes 1 and 8, up to `MaxTotal` = 26 bytes: between 5 and 26
  insertions, so both offsets wrap at least once and every mix of sizes is
  overwritten. With `IntBits` = 4 an `int` goes up to 7, so that a size of 8 is
  the largest for which the lookup is right (`EntryAssumption`) and the ring
  holds up to 24 bytes, more than an `int` can count and more than the 16
  values of `cb_size`: positions are narrowed on both sides of the boundary, and
  `cb_size` wraps and comes back. (With 10 slots and 32 bits that takes writes
  of 4 GiB together, more than `kmalloc` grants; the model does not rely on it.) The proofs remove the bounds on slots, sizes and
  insertions.
* *Driver*: one or two slots, so that the ring is full after two writes; two
  threads, since the hazards are between one call that is outside its critical
  section and another call; `MaxPos` bounds the positions from which a write
  may start; five or six blocks. `HeapHasRoom` keeps the bound on the heap from
  acting as an allocation failure: allocation failure is a choice of its own
  (`AllocMayFail`). The blocks that a merge forgets (section 6) use up the
  heap, so that a behaviour has a bounded number of merges; each run reaches
  several. `driver_faults` has one slot and four blocks: it is about the error
  paths, and `OwnedIsAllocated` is proved for all constants.
* *Server*: two connections, one packet each. Main handles one connection at a
  time; a second one is needed for the scan to have an unfinished neighbour,
  and two entries are enough to remove the first, the last and the only one of
  the queue; the theorems of `TailQueueProofs` cover the queues of any length.
  `server_sigpipe` and the driver's safety runs use the symmetry of connections
  and of threads; runs with liveness use none.
* *Packets*: `MAX_BUF_SIZE` = 3 with streams of three bytes, so that a read may
  take everything or stop before or after the first newline, and buffers grow
  once or more; a device of two packets, which the two connections fill and
  overwrite; of the uninitialised bytes only the newline (`Junk`), since it is
  the one that changes the control flow. `packets_chunks` has `MAX_BUF_SIZE` = 2
  and streams of one packet that fits: what it finds is not owed to a long
  packet. Only one connection has failing writes
  (`Failing`), so that the other shows what they do to its answers. The text of
  a seek command is one symbol.
* *Systemcalls*: two calls, so that a child left behind meets a later call.
  Exit codes 0, 1 and 127 (with which `do_system` compares) and one signal.
* *Threading*: three threads, so that two wait for the one that holds the mutex.

Two restrictions of the inputs: writes carry at least one byte, and a struct
file is used by one thread at a time, as in the server, so two calls never
share one `f_pos`.

### Deadlock

Checked in every run but that of the ring, in which adding stops at
`MaxTotal`. Where the program may end, `Done` is the ended process; in `server`
it is also main waiting in its own handler.

### Fairness

* Driver: weak fairness for the steps of a thread that is inside a call, and
  strong fairness for getting `buf_lock`: the kernel's mutex hands the lock to a
  waiter that has been passed over. Nothing is assumed about callers (no fair
  call, no fair signal).
* Server: weak fairness for `main`, for its requests of `queue_lock` and for
  each thread outside its own request. Main gets the lock in the end because a
  thread takes it once. That a thread gets it is not assumed: POSIX promises no
  order, and the scan loop of the shutdown, which spins, could starve a thread.
  Nor is anything assumed of clients, signals and faults. `ShutdownCompletes`
  therefore has two parts: after a signal main comes to the loop that waits for
  the threads, unless its handler is stuck in `syslog` (which is
  `server_syslog`); and from there it ends once every thread has reported.
  `ThreadsReaped` ends with `Halted`: a process that SIGPIPE has ended, or that
  waits in its handler (section 6), reaps nothing.
* Packets: weak fairness for each thread; the steps on the device return, which
  is `CallsReturn` of the driver. Clients need not leave; their streams are
  finite, and an answer could go on for as long as others write.
* Systemcalls: the caller and the children run, and commands end. Interrupted
  waits are not assumed.
* Threading: weak fairness for each thread, strong fairness for the mutex. No
  call is assumed to succeed: `ThreadsEnd` excepts the threads that wait for a
  mutex whose unlock has failed.

## 4. Proofs

TLAPS proves the following for every value of the constants that satisfies the
named assumptions; every invariant and every action property that a run checks
is stated by one of the theorems.

### The ring

In `RingLemmas` and `CircularBufferProofs`, with `MaxOps` and `IntBits` in
`Nat \ {0}`, what the provers need to know of powers of two
(`PowersAssumption`), and sizes up to `2^(IntBits - 1)`, which is where the
lookup stops being right (`EntryAssumption`):

* `RingInvariant`: `Spec => []RingInv`, with `TypeCorrect`, `WindowTheorem` and
  `CbSizeTheorem` as corollaries. `WindowIsTail` is not inductive by itself:
  the step that overwrites needs to know that a full ring has equal offsets
  (`FullMeansMet`), that every entry starts within the stream
  (`StartsInStream`), that sizes are those of entries (`EntriesAdded`), and that
  `cb_size` is right before the step. `CbSizeExact` is a statement modulo
  `2^IntBits`: `cb_size` wraps when the ring holds more, and the narrowing of
  the removed size to an `int` is congruent to it, so that the difference is
  right again after any number of wraps (`ModShift`, `ModOfDifference`). While
  the ring holds fewer than `2^IntBits` bytes it says that `cb_size` is exact. `RingInv` is
  the conjunction of these. The argument follows `add_entry`: in a ring with
  room the window grows by the slot at `in_offs`; in a full one the same slot
  is the oldest and the window moves by one. Lemmas about `nextPtr` and
  `SlotOf` do the modular arithmetic.
* `RingImplementsLog`: `Spec => LogSpec`. `Contents` after an insertion is
  `Append` of the contents before it (`ContentsAddToRoom`) or of their tail
  (`ContentsAddToFull`).
* `FindTheorem`, `SeekTheorem` and `CleanupTheorem`: what the three loops over
  the ring return. The loops are recursive functions, and the induction
  theorems of the library take a predicate, which the provers cannot
  instantiate; `InductiveSet` states induction for a set instead, and follows
  from the well-foundedness of `<` (`WFMin`). `TailRecursion` derives from it
  that a loop which makes progress satisfies its recursive equation. Each loop
  then has an invariant: after `k` rounds it is at slot `SlotOf(b, k)` with the
  first `k` sizes subtracted (`FindReaches`), added (`SeekReaches`), or the
  first `k` buffers freed (`CleanupResult`). `FindHit` and `FindMiss` compare
  the narrowed positions; `FindInRange` says what the lookup returns without
  any assumption on positions, which the driver's types need. `SeekTheorem`
  says nothing of the end of a write and of an empty ring, where the code
  accepts what the header does not describe (section 6).

### The driver

In `AesdCharProofs`, with finite sets of threads and blocks that do not contain
`NONE` and `NULL`, payloads that are sequences of bytes, `lseek` with one of its
three `whence` values and commands that are pairs of natural numbers. First
with allocation failures, failing user copies and signals all allowed:

* `OwnerInvariant`: `Spec => []OwnerInv`; its corollaries are
  `OwnedIsAllocatedTheorem` and `OneOwnerTheorem`: about the pointers of the
  ring, of the partial buffer and of writes under way, and not about the entry
  that `aesd_read` prints after its unlock (`driver_print`). Neither property is inductive by
  itself. `OwnerInv` adds: calls are under way only on open files of a loaded
  module (`CallsNeedModule`), so that unloading meets no call; a local pointer
  is set only between the steps that set and clear it (`LocalsLive`), so that a
  return forgets nothing; a full ring has equal offsets (`FullMeansMet`), so
  that the buffer `add_entry` hands back is that of the slot it overwrites;
  `buf_lock` is held exactly by the thread in a critical section
  (`LockDiscipline`), which justifies critical sections as single steps; and
  enough blocks are free for every write under way (`RoomToMerge`), so that the
  bound on the heap is never mistaken for a failing `kmalloc`. The central
  lemma, `HandlePartialData`, says that the merge returns `NULL`, the data it was
  given or a fresh block, and frees nothing but the old partial buffer; the
  steps then follow pointer by pointer.
* `DriverTypes`: `Spec => []TypeOK`. `cb_size` is the sum of the sizes in
  the window modulo `2^IntBits` (`CbExact`, part of `CallInv`), whatever sizes
  failed allocations have left in it, and positions stay natural numbers.
* `FillsInvariant`: until it is full the ring fills from slot 0 and the slots
  not used yet hold `NULL`, so that `cleanup`, which goes from `out_offs` to
  `in_offs`, meets every block of the ring.

Then under a condition on the constants, because the code does not keep the
property without it (section 6):

* `SizesMatchTheorem`, while `kmalloc` succeeds (`~AllocMayFail`). `StoredInv`
  adds which slots are in use; a merge has the length of its two parts
  (`MergedData`), also when a failing copy has left arbitrary bytes.
* `NoLeakTheorem`, when every write arrives with a newline (`PacketsOnly`);
  `kmalloc` may fail. `LeakInv` adds that nothing ever waits for a newline, and
  that each block is in a slot, window or not, or in a local of a call.
  Unloading frees all of them because `CleanupResult` lists what the loop frees
  and `Fills` puts all blocks of the ring into it.
* `DriverImplementsDevice`: `Spec /\ []FitsInt => DeviceSpec`, while `kmalloc`
  succeeds. `FitsInt` says that positions and the bytes of the ring are
  below `2^IntBits` and sizes up to `2^(IntBits - 1)`: beyond that the lookup
  confuses positions (section 6) and `cb_size`, from which `SEEK_END` counts,
  has wrapped. It
  holds in all states of `driver_packets` and `driver_partial`. The mapping is
  that of `AesdChar`. Each call has one step that maps to a step of the device,
  in its critical section (`WriteDevice`, `ReadDevice`, `SeekDevice`,
  `SeekToDevice`), a read has a second when its answer is taken
  (`ReadReturnsDevice`); all other steps leave the device as it is
  (`SilentStep`), which needs that the copy of the position agrees with `f_pos`
  and that nothing has been answered before the call takes effect
  (`EffectInv`). `LogOfRing` and `OffsetsOfRing` relate the offsets that the
  device adds up along its log to those the driver's loops compute.
* `PacketsImplementDevice`: `Spec => DeviceSpec`, with conditions on constants
  only: `kmalloc` succeeds, every write is a packet (`PacketsOnly`), and packets
  of up to `P` bytes, the ring and the bound `MaxPos` on where a write starts
  fit the int (`PacketsFit(P)`). `FitInv` is the invariant behind it: entries
  are at most `P` bytes, so the ring is at most `MaxOps * P` (`PrefixBound`), a
  read or a seek ends inside it, and a write ends a packet after its start.
  `driver_packets` is an instance (`P = 2`, reach 8 of 256).

### The server

In `TailQueueProofs`, for every set of elements and every queue of distinct
ones: `InitRepresents`, `InsertTailRepresents` and `RemoveRepresents` say that
the macros lead from the links of a queue to the links of the queue with the
element added at the end, or taken out at any place. The proofs follow the
links: only those of the neighbours and of the head change, and distinctness
keeps the neighbours apart from the other elements.

In `AesdSocketProofs`, for every set of connections, with `MAIN`, `HEAD` and `NONE`
outside it, and with all failures, SIGPIPE and signals allowed:
`ServerInvariant`, with `LiveEntriesTheorem`, `JoinTheorem`, `ExitTheorem`,
`NothingLostTheorem` and `QueueTheorem`. None of the properties is inductive.
`ServerInv` adds: who is in a critical section holds `queue_lock`
(`LockHolders`), and a raised flag means that the thread is at the end of its
own (`FlagMeansDone`), so a thread whose flag main sees does not need the lock;
main closes and frees only for a thread that has gone
(`ThreadsHaveResources`); what main knows of the connection it is setting up,
which is not in the queue (`SetupState`, needed for the insertion); the entries
of the queue are distinct (`QueueState`) and the scan is at one of them
(`ScanState`, needed for the removal). `ExitTheorem` rests on the second half
of `ScanState`: as long as the scan has counted nobody it has removed every
entry before the one it is at, so a count of zero at the end means an empty
queue.
`ServerTypes`, for finitely many connections, adds the counters: a
scan that is at position `i` of the queue has counted `i - 1` entries
(`ScanCounts`), and the queue, without repetitions, is no longer than there are
connections.

In `AesdPacketsProofs`, for every set of connections, every set of byte streams,
every buffer size and capacity, with `Newline`, `NUL` and the two forms of the
command distinct bytes: `PacketInvariant`, with `PacketTypes`, `AnswersTheorem`,
`CompleteTheorem` and `StoredTheorem`. `PacketInv` has two parts:

* `BufferInv` follows the bytes in. What is unread is the rest of the stream
  from some place on (`UnreadIsRest`), the buffer holds whole reads
  (`BufferShape`), and unless the client began with a command the first read is
  the beginning of the stream followed by zeroes (`FirstRead`). A newline
  within the first read cannot be among the zeroes, so what is written to the
  device up to it was sent: `StoredAsSent`. `CommandWasSent` is needed because
  `strtok` is the one thing that writes to the buffer afterwards.
* `AnswerInv` follows them out. What was sent together with the reply in hand
  is the piece of the contents between `from` and the position (`IsPiece`). A
  read of the device appends the next piece (`ReadFacts`, `PieceCat`); what
  another thread writes comes behind it (`PieceGrows`) or sets `overwritten`.
  When the device returns nothing the position is the end of the contents:
  `AnswersAreComplete`.

The device adds up offsets and the property flattens the log; `OffsetIsLength`,
`ContentsPieces` and `FlattenAppend` relate the two, by the same kind of
induction as for the ring.

### The examples

In `SystemcallsProofs`, for every number of calls, exit codes within a byte and
signals below 127: `CallsInvariant`, with `TypeTheorem`, `ResultTheorem`,
`OneFileTheorem` and `FileTheorem`. The invariant adds where the caller and the
child of each call are relative to each other (`CallState`), that only
`do_exec_redirect` opens a file (`FilesOfRedirects`), and what a child has done
on its way (`OnItsWay`): in particular that a status of zero can only come from
a command that ran.

In `ThreadingProofs`, for every finite set of threads: `ThreadingInvariant`, with
`MutexTheorem`, `SuccessTheorem` and `ParmsTheorem` as corollaries, with every
call failing at will, the unlock too.
`SuccessIsTruthful` needs two facts about the way to the end: a thread that has
passed its first assignment still has the flag set, and one that has not ended
is not yet among those that held the mutex (`FlagFollowsThread`); the
parameters need that a thread is started once (`CalledOnce`).

### Only model-checked

Liveness (`CallsReturn`, `ThreadsReaped`, `ShutdownCompletes`,
`ThreadsComeToRest`, `CallsComplete`, `ThreadsEnd`), which is out of the
prover's reach, and the four statements of section 6 that TLC refutes.
`DriverImplementsDevice` does not cover failing allocations, which TLC does not
show to be atomic either: the code stores an entry without a buffer then.

## 5. What is not modelled

* The file back end (`#ifndef USE_AESD_CHAR_DEVICE`: `file_lock`, the timer
  thread, the file's removal): `aesdsocket.c:24` defines the macro, so none of
  it is compiled; without the macro `create_client_thread` would not set the
  descriptor that `process_packet` uses, so there is no program to model.
* In the receive loop: a `realloc` that fails, whose result the code does not
  test (the program's behaviour is then undefined), and a command whose text is
  split by a read. In `process_packet`: a failing `read` of the device, which
  needs a user copy that faults.
* In the server: a failing lock or unlock of `queue_lock`, which is logged and
  ignored; a second signal. In `Systemcalls`: the arguments, and the stdio
  buffers that a child's `exit` flushes a second time.
* The other macros of `queue.h`, which nothing uses.
* Finder, writer, build and start scripts, test scaffolding: sequential
  commands without shared state.
* The reads of `task_finished`, of `run_connections` and the descriptors as data
  races in the sense of the C standard: the first is only read and written
  under `queue_lock`; the flag is an `int` written by a handler of the process
  and is modelled as atomic.

## 6. Disagreements between the code and its comments

Each is the counterexample of one run.

* `driver_print`: the last debug message of `aesd_read` dereferences an entry
  after the unlock; a concurrent overwrite may have freed it. `aesdchar.h:16`
  defines `AESD_DEBUG`, so the message is compiled in.
* `server_sigpipe`: the result of a write to a client that has left is tested
  (`aesdsocket.c:180`), but SIGPIPE is not ignored and ends the process.
* `server_syslog`: a signal that arrives while main is inside `syslog` leaves
  the handler waiting for the lock that main holds (`aesdsocket.c:297`), so
  main does not come to the place of which line 500 says "control comes when
  signal is detected and run_connections == 0".
* `packets_chunks`: "send data in 1024 chunks" (`aesdsocket.c:173`), but the
  driver returns the rest of an entry whatever the count is, and a packet of
  `MAX_BUF_SIZE` bytes that arrives in two reads is stored with the zeroed rest
  of the first one between its parts: the read that sends it back overruns
  `write_back_pkt`. (A long packet, or the second packet of a connection, which
  is stored with all that the buffer held before it, would do the same.)

Noticed, without a run:

* the lookup stores its `size_t` position in an `int`, so a position beyond the
  data that is congruent to a stored one is found, not `NULL`
  (`aesd-circular-buffer.c:52`, `:58`);
* unloading frees the ring, not `part_mem_ptr`, nor the blocks that merges
  forget (`main.c:365`); a merge whose allocation fails stores an entry with a
  `NULL` buffer and a non-zero size (`aesd-circular-buffer.h:28`);
* the seek accepts an offset equal to the size of the write
  (`aesd-circular-buffer.c:203`), while `aesd_ioctl.h:31` calls it "the zero
  referenced offset within the write"; and in an empty ring it accepts every
  command (`aesd-circular-buffer.c:194`, with the comment "return error ?"),
  while `aesd_ioctl.h:27` speaks of "the zero referenced write command to seek
  into". `SeekCorrect` and `SeekTheorem` claim neither the one nor the other;
* `is_data_partial` is documented as "check if the given string is '\n'
  terminated" (`main.c:132`) but tests whether a newline occurs anywhere, so
  that a write with more bytes behind its newline becomes an entry. In the
  runs, as in what the server writes, the last byte of a complete write is a
  newline, where the two agree;
* an answer has a gap when the device drops a packet while it is being sent,
  because the position then denotes later bytes (`aesdsocket.c:145` says "all
  the file contents"); `AnswersAreContents` is about the other answers;
* `do_system` returns true for a command that fails (`systemcalls.c:12`): it
  compares with 127 a status that has the exit code in its second byte; `do_exec_redirect` returns `-1`, which is true, when the
  file cannot be opened (`systemcalls.c:103`), and leaves it open when `fork`
  fails, against `systemcalls.c:79`. `ResultIsTruthful` and `FileIsClosed` are
  about the calls that have forked.

## 7. Plan

Done: the ring, its abstract log and proofs; the driver, its atomic device and
the proof that one implements the other; the threads of the server with the
links of their queue and the lock of `syslog`; the packet loops composed with
the device; the two examples. All invariants and action properties are proved.

Left:

1. A bound on the length of what a connection stores, as a function of what its
   client has sent, from `BufferShape`.

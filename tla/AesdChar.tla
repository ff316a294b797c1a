------------------------------ MODULE AesdChar ------------------------------
(***************************************************************************)
(* The character driver of main.c.  Threads call the file operations of    *)
(* the device; each has a file of its own, as the threads of aesdsocket    *)
(* do.  A call is a sequence of steps: up to the request for buf_lock, the *)
(* critical section with its unlock, and what the code still does after    *)
(* the unlock.                                                             *)
(*                                                                         *)
(* The kernel is external: kmalloc and kfree, the copies from and to user  *)
(* space, the mutex, fixed_size_llseek, and the VFS, which hands read and  *)
(* write a copy of f_pos and stores it back when they return.              *)
(***************************************************************************)
EXTENDS CircularBuffer, FiniteSets

CONSTANTS
  Threads,      \* the callers, each with its own struct file
  NONE,         \* no thread: buf_lock is free
  Blocks,       \* the memory kmalloc hands out (bounds the model)
  Byte,         \* the byte values that are told apart
  Newline,      \* '\n'
  Payloads,     \* what a write may carry
  Seeks,        \* the <<whence, offset>> arguments of llseek
  Commands,     \* the <<write_cmd, write_cmd_offset>> of AESDCHAR_IOCSEEKTO
  MaxPos,       \* no write is started beyond this position (bounds the model)
  AllocMayFail, \* may kmalloc return NULL?
  UserMayFault, \* may a copy from or to user space fail?
  Signals       \* may a signal arrive while a thread waits for buf_lock?

ASSUME AesdCharAssumption ==
  /\ IsFiniteSet(Blocks) /\ NULL \notin Blocks
  /\ IsFiniteSet(Threads) /\ NONE \notin Threads
  /\ Newline \in Byte
  /\ Payloads \subseteq Seq(Byte)
  /\ Seeks \subseteq (0 .. 2) \X Int    \* a whence that llseek accepts
  /\ Commands \subseteq Nat \X Nat      \* struct aesd_seekto: two uint32_t
  /\ MaxPos \in Nat
  /\ {AllocMayFail, UserMayFault, Signals} \subseteq BOOLEAN

VARIABLES
  loaded,         \* the module is in the kernel
  opened,         \* the threads whose file is open
  f_pos,          \* filp->f_pos of each thread's file
  buffer,         \* aesd_device.buffer
  part_mem_ptr,   \* aesd_device.part_mem_ptr
  part_buf_size,  \* aesd_device.part_buf_size
  buf_lock,       \* aesd_device.buf_lock: the thread that holds it
  allocated,      \* the blocks between their kmalloc and their kfree
  mem,            \* the contents of each block
  pc,             \* where each thread is
  arg,            \* the arguments of the llseek or ioctl in progress
  loff,           \* the VFS's copy of f_pos; cb_size in aesd_llseek
  buffptr,        \* aesd_write's buffptr
  rm_buffptr,     \* aesd_write's rm_buffptr
  rd_entry,       \* aesd_read's rd_entry, a slot of the ring
  rd_ptr,         \* rd_entry->buffptr as loaded for the last PDEBUG
  reply           \* the bytes the read in progress copied to the caller

device == << buffer, part_mem_ptr, part_buf_size >>
heap   == << allocated, mem >>
locals == << arg, loff, buffptr, rm_buffptr, rd_entry, rd_ptr, reply >>
vars   == << loaded, opened, f_pos, device, buf_lock, heap, pc, locals >>

Init ==
  /\ loaded = FALSE
  /\ opened = {}
  /\ f_pos = [t \in Threads |-> 0]
  /\ buffer = EmptyRing
  /\ part_mem_ptr = NULL
  /\ part_buf_size = 0
  /\ buf_lock = NONE
  /\ allocated = {}
  /\ mem = [b \in Blocks |-> << >>]
  /\ pc = [t \in Threads |-> "idle"]
  /\ arg = [t \in Threads |-> << 0, 0 >>]
  /\ loff = [t \in Threads |-> 0]
  /\ buffptr = [t \in Threads |-> NULL]
  /\ rm_buffptr = [t \in Threads |-> NULL]
  /\ rd_entry = [t \in Threads |-> 0]
  /\ rd_ptr = [t \in Threads |-> NULL]
  /\ reply = [t \in Threads |-> << >>]

-----------------------------------------------------------------------------
(***************************************************************************)
(* The kernel.                                                             *)
(***************************************************************************)

\* A block that is free.  Blocks are interchangeable, so it does not matter
\* which one.
kmalloc == CHOOSE b \in Blocks \ allocated : TRUE

Kfree(ptrs) ==
  /\ allocated' = allocated \ ptrs
  /\ mem' = [b \in Blocks |-> IF b \in ptrs THEN << >> ELSE mem[b]]

\* What reading n bytes at a block may find: its contents, then anything.
BytesAt(b, n) ==
  {s \in [1 .. n -> Byte] : \A k \in 1 .. n : k <= Len(mem[b]) => s[k] = mem[b][k]}

\* The block after __copy_from_user: a copy that fails leaves bytes that the
\* caller did not send.
CopiedFromUser(data) ==
  IF UserMayFault THEN [1 .. Len(data) -> Byte] ELSE {data}

SEEK_SET == 0
SEEK_CUR == 1
SEEK_END == 2

fixed_size_llseek(at, offset, whence, size) ==
  LET to == offset + CASE whence = SEEK_SET -> 0
                       [] whence = SEEK_CUR -> at
                       [] whence = SEEK_END -> size
  IN  IF to \in 0 .. size THEN to ELSE at

LockPoints == {"write_lock", "read_lock", "llseek_lock", "ioctl_lock"}

CriticalSection(p) ==
  CASE p = "write_lock"  -> "write_crit"
    [] p = "read_lock"   -> "read_crit"
    [] p = "llseek_lock" -> "llseek_crit"
    [] p = "ioctl_lock"  -> "ioctl_crit"

\* mutex_lock_interruptible returns 0.
Lock(t) ==
  /\ pc[t] \in LockPoints
  /\ buf_lock = NONE
  /\ buf_lock' = t
  /\ pc' = [pc EXCEPT ![t] = CriticalSection(@)]
  /\ UNCHANGED << loaded, opened, f_pos, device, heap, locals >>

Callable(t) == t \in opened /\ pc[t] = "idle"

Goto(t, p) == pc' = [pc EXCEPT ![t] = p]

\* The locals of a call die when it returns.
Return(t) ==
  /\ Goto(t, "idle")
  /\ arg' = [arg EXCEPT ![t] = << 0, 0 >>]
  /\ loff' = [loff EXCEPT ![t] = 0]
  /\ buffptr' = [buffptr EXCEPT ![t] = NULL]
  /\ rm_buffptr' = [rm_buffptr EXCEPT ![t] = NULL]
  /\ rd_entry' = [rd_entry EXCEPT ![t] = 0]
  /\ rd_ptr' = [rd_ptr EXCEPT ![t] = NULL]
  /\ reply' = [reply EXCEPT ![t] = << >>]

-----------------------------------------------------------------------------
(***************************************************************************)
(* Loading, unloading, open and release.  The kernel unloads the module    *)
(* only while no file is open.                                             *)
(***************************************************************************)

\* aesd_init_module: the memset; an error of alloc_chrdev_region or cdev_add
\* leaves the module out of the kernel, and nothing changed.
aesd_init_module ==
  /\ ~loaded
  /\ loaded' = TRUE
  /\ buffer' = EmptyRing
  /\ part_mem_ptr' = NULL
  /\ part_buf_size' = 0
  /\ buf_lock' = NONE
  /\ UNCHANGED << opened, f_pos, heap, pc, locals >>

\* aesd_cleanup_module frees the entries of the ring.  With no file open
\* the lock is free, so the call that asks for it cannot be interrupted.
aesd_cleanup_module ==
  /\ loaded
  /\ opened = {}
  /\ loaded' = FALSE
  /\ Kfree({cleanup(buffer)[k] : k \in DOMAIN cleanup(buffer)})
  /\ UNCHANGED << opened, f_pos, device, buf_lock, pc, locals >>

aesd_open(t) ==
  /\ loaded
  /\ t \notin opened
  /\ opened' = opened \union {t}
  /\ f_pos' = [f_pos EXCEPT ![t] = 0]
  /\ UNCHANGED << loaded, device, buf_lock, heap, pc, locals >>

aesd_release(t) ==
  /\ Callable(t)
  /\ opened' = opened \ {t}
  /\ UNCHANGED << loaded, f_pos, device, buf_lock, heap, pc, locals >>

-----------------------------------------------------------------------------
(***************************************************************************)
(* aesd_write.                                                             *)
(***************************************************************************)

is_data_partial_SkipsFirst(data) == \A n \in 2 .. Len(data) : data[n] # Newline

is_data_partial(data) == \A n \in DOMAIN data : data[n] # Newline

\* The pointer handle_partial_data returns and the heap it leaves.  A merge
\* frees the old partial buffer, not the new data it copied; when kmalloc
\* fails it frees neither.
handle_partial_data(partial_data_buf, partial_mem_size, new_data_ptr) ==
  IF partial_data_buf = NULL
  THEN {[ptr |-> new_data_ptr, allocated |-> allocated, mem |-> mem]}
  ELSE {[ptr       |-> kmalloc,
         allocated |-> (allocated \union {kmalloc}) \ {partial_data_buf},
         mem       |-> [mem EXCEPT ![kmalloc] = s \o mem[new_data_ptr],
                                   ![partial_data_buf] = << >>]]
          : s \in BytesAt(partial_data_buf, partial_mem_size)}
       \union
       IF AllocMayFail
       THEN {[ptr |-> NULL, allocated |-> allocated, mem |-> mem]}
       ELSE {}

\* Enough free blocks for this call and for the merges of those under way:
\* the bound on the heap never makes kmalloc fail.
HeapHasRoom ==
  Cardinality(Blocks \ allocated) >=
    2 + Cardinality({t \in Threads : pc[t] \in {"write_lock", "write_crit"}})

\* Up to the request for the lock.  Both branches of aesd_write request it
\* and no other thread knows the new block, so that the branch can be
\* decided later.  When kmalloc fails the call returns -ENOMEM and nothing
\* has changed.
WriteStart(t, data) ==
  /\ Callable(t)
  /\ f_pos[t] <= MaxPos
  /\ HeapHasRoom
  /\ \E copied \in CopiedFromUser(data) : mem' = [mem EXCEPT ![kmalloc] = copied]
  /\ allocated' = allocated \union {kmalloc}
  /\ buffptr' = [buffptr EXCEPT ![t] = kmalloc]
  /\ loff' = [loff EXCEPT ![t] = f_pos[t]]
  /\ Goto(t, "write_lock")
  /\ UNCHANGED << loaded, opened, f_pos, device, buf_lock, arg, rm_buffptr,
                  rd_entry, rd_ptr, reply >>

wr_entry_size_CountOnly(count) == count

\* The size of the entry: the bytes that waited for the newline included.
wr_entry_size(count) ==
  LET total_buf_size == IF part_mem_ptr # NULL THEN part_buf_size + count ELSE 0
  IN  IF total_buf_size # 0 THEN total_buf_size ELSE count

ResetPartial_KeepsPtr ==
  /\ part_buf_size' = IF part_mem_ptr # NULL THEN 0 ELSE part_buf_size
  /\ UNCHANGED part_mem_ptr

\* The waiting bytes have been merged: there are none any more.
ResetPartial ==
  /\ part_buf_size' = IF part_mem_ptr # NULL THEN 0 ELSE part_buf_size
  /\ part_mem_ptr' = NULL

\* The critical section of a write that has a newline.
WriteFull(t) ==
  LET size == wr_entry_size(Len(mem[buffptr[t]]))
  IN  /\ pc[t] = "write_crit"
      /\ ~is_data_partial(mem[buffptr[t]])
      /\ \E h \in handle_partial_data(part_mem_ptr, part_buf_size, buffptr[t]) :
           /\ allocated' = h.allocated
           /\ mem' = h.mem
           /\ buffer' = add_entry(buffer, [buffptr |-> h.ptr, size |-> size])
      /\ rm_buffptr' = [rm_buffptr EXCEPT ![t] = removed_buffptr(buffer)]
      /\ ResetPartial
      /\ buf_lock' = NONE
      /\ buffptr' = [buffptr EXCEPT ![t] = NULL]
      /\ loff' = [loff EXCEPT ![t] = @ + size]
      /\ Goto(t, "write_free")
      /\ UNCHANGED << loaded, opened, f_pos, arg, rd_entry, rd_ptr, reply >>

WriteFree_NoKfree(t) ==
  /\ pc[t] = "write_free"
  /\ f_pos' = [f_pos EXCEPT ![t] = loff[t]]
  /\ Return(t)
  /\ UNCHANGED << loaded, opened, device, buf_lock, heap >>

\* After the unlock: free the entry that was overwritten, and return.
WriteFree(t) ==
  /\ pc[t] = "write_free"
  /\ Kfree({rm_buffptr[t]})
  /\ f_pos' = [f_pos EXCEPT ![t] = loff[t]]
  /\ Return(t)
  /\ UNCHANGED << loaded, opened, device, buf_lock >>

\* The critical section of a write without a newline, and its return.
WritePartial(t) ==
  /\ pc[t] = "write_crit"
  /\ is_data_partial(mem[buffptr[t]])
  /\ \E h \in handle_partial_data(part_mem_ptr, part_buf_size, buffptr[t]) :
       /\ allocated' = h.allocated
       /\ mem' = h.mem
       /\ part_mem_ptr' = h.ptr
  /\ part_buf_size' = part_buf_size + Len(mem[buffptr[t]])
  /\ buf_lock' = NONE
  /\ Return(t)
  /\ UNCHANGED << loaded, opened, f_pos, buffer >>

WriteInterrupted_NoReturn(t) ==
  /\ Signals
  /\ pc[t] = "write_lock"
  /\ buf_lock # NONE
  /\ Kfree({buffptr[t]})
  /\ Goto(t, "write_crit")
  /\ UNCHANGED << loaded, opened, f_pos, device, buf_lock, locals >>

\* mutex_lock_interruptible fails, which it can only while another thread
\* holds the lock: only the branch with the newline frees its buffer.
WriteInterrupted(t) ==
  /\ Signals
  /\ pc[t] = "write_lock"
  /\ buf_lock # NONE
  /\ Kfree(IF is_data_partial(mem[buffptr[t]]) THEN {} ELSE {buffptr[t]})
  /\ Return(t)
  /\ UNCHANGED << loaded, opened, f_pos, device, buf_lock >>

-----------------------------------------------------------------------------
(***************************************************************************)
(* aesd_read.                                                              *)
(***************************************************************************)
ReadStart(t) ==
  /\ Callable(t)
  /\ loff' = [loff EXCEPT ![t] = f_pos[t]]
  /\ Goto(t, "read_lock")
  /\ UNCHANGED << loaded, opened, f_pos, device, buf_lock, heap, arg, buffptr,
                  rm_buffptr, rd_entry, rd_ptr, reply >>

ReadNothing_NoUnlock(t) ==
  /\ pc[t] = "read_crit"
  /\ ~find_entry(buffer, loff[t]).found
  /\ Return(t)
  /\ UNCHANGED << loaded, opened, f_pos, device, buf_lock, heap >>

\* The lookup finds nothing: unlock and return 0.
ReadNothing(t) ==
  /\ pc[t] = "read_crit"
  /\ ~find_entry(buffer, loff[t]).found
  /\ buf_lock' = NONE
  /\ Return(t)
  /\ UNCHANGED << loaded, opened, f_pos, device, heap >>

\* The lookup finds an entry: copy the rest of it, whatever count the caller
\* asked for, and unlock.  A copy that fails leaves the position alone and
\* the call returns 0.
ReadEntry(t) ==
  LET r == find_entry(buffer, loff[t])
      e == buffer.entry[r.slot]
  IN  /\ pc[t] = "read_crit"
      /\ r.found
      /\ \/ /\ e.buffptr # NULL
            /\ \E s \in BytesAt(e.buffptr, e.size) :
                 reply' = [reply EXCEPT ![t] = SubSeq(s, r.rel + 1, e.size)]
            /\ loff' = [loff EXCEPT ![t] = @ + (e.size - r.rel)]
         \/ /\ UserMayFault \/ e.buffptr = NULL
            /\ UNCHANGED << reply, loff >>
      /\ rd_entry' = [rd_entry EXCEPT ![t] = r.slot]
      /\ buf_lock' = NONE
      /\ Goto(t, "read_load")
      /\ UNCHANGED << loaded, opened, f_pos, device, heap, arg, buffptr,
                      rm_buffptr, rd_ptr >>

\* The PDEBUG after the unlock loads rd_entry->buffptr from the ring ...
ReadLoad(t) ==
  /\ pc[t] = "read_load"
  /\ rd_ptr' = [rd_ptr EXCEPT ![t] = buffer.entry[rd_entry[t]].buffptr]
  /\ Goto(t, "read_print")
  /\ UNCHANGED << loaded, opened, f_pos, device, buf_lock, heap, arg, loff,
                  buffptr, rm_buffptr, rd_entry, reply >>

\* ... and prints the string it points to; then the call returns.
ReadPrint(t) ==
  /\ pc[t] = "read_print"
  /\ f_pos' = [f_pos EXCEPT ![t] = loff[t]]
  /\ Return(t)
  /\ UNCHANGED << loaded, opened, device, buf_lock, heap >>

-----------------------------------------------------------------------------
(***************************************************************************)
(* aesd_llseek and aesd_ioctl.                                             *)
(***************************************************************************)

\* A whence that is none of the three returns -EINVAL and changes nothing.
LlseekStart(t, whence, offset) ==
  /\ Callable(t)
  /\ arg' = [arg EXCEPT ![t] = << whence, offset >>]
  /\ Goto(t, "llseek_lock")
  /\ UNCHANGED << loaded, opened, f_pos, device, buf_lock, heap, loff, buffptr,
                  rm_buffptr, rd_entry, rd_ptr, reply >>

LlseekSize(t) ==
  /\ pc[t] = "llseek_crit"
  /\ loff' = [loff EXCEPT ![t] = buffer.cb_size]
  /\ buf_lock' = NONE
  /\ Goto(t, "llseek_set")
  /\ UNCHANGED << loaded, opened, f_pos, device, heap, arg, buffptr,
                  rm_buffptr, rd_entry, rd_ptr, reply >>

\* After the unlock: the position is set from the size read under the lock.
LlseekSet(t) ==
  /\ pc[t] = "llseek_set"
  /\ f_pos' = [f_pos EXCEPT ![t] = fixed_size_llseek(@, arg[t][2], arg[t][1], loff[t])]
  /\ Return(t)
  /\ UNCHANGED << loaded, opened, device, buf_lock, heap >>

\* Another command returns -1, and a failing copy_from_user returns EFAULT:
\* neither changes anything.
IoctlStart(t, write_cmd, write_cmd_offset) ==
  /\ Callable(t)
  /\ arg' = [arg EXCEPT ![t] = << write_cmd, write_cmd_offset >>]
  /\ Goto(t, "ioctl_lock")
  /\ UNCHANGED << loaded, opened, f_pos, device, buf_lock, heap, loff, buffptr,
                  rm_buffptr, rd_entry, rd_ptr, reply >>

IoctlSeek(t) ==
  LET r == adjust_file_offset(buffer, arg[t][1], arg[t][2])
  IN  /\ pc[t] = "ioctl_crit"
      /\ f_pos' = [f_pos EXCEPT ![t] = IF r.ok THEN r.fpos ELSE @]
      /\ buf_lock' = NONE
      /\ Return(t)
      /\ UNCHANGED << loaded, opened, device, heap >>

\* The other calls return -ERESTARTSYS when the wait is interrupted.
Interrupted(t) ==
  /\ Signals
  /\ pc[t] \in LockPoints \ {"write_lock"}
  /\ buf_lock # NONE
  /\ Return(t)
  /\ UNCHANGED << loaded, opened, f_pos, device, buf_lock, heap >>

-----------------------------------------------------------------------------
Call(t) ==
  \/ aesd_open(t) \/ aesd_release(t)
  \/ \E data \in Payloads : WriteStart(t, data)
  \/ ReadStart(t)
  \/ \E s \in Seeks : LlseekStart(t, s[1], s[2])
  \/ \E c \in Commands : IoctlStart(t, c[1], c[2])

\* A step of a call in progress, other than getting the lock.
Run(t) ==
  \/ WriteFull(t) \/ WriteFree(t) \/ WritePartial(t)
  \/ ReadNothing(t) \/ ReadEntry(t) \/ ReadLoad(t) \/ ReadPrint(t)
  \/ LlseekSize(t) \/ LlseekSet(t)
  \/ IoctlSeek(t)

Signal(t) == WriteInterrupted(t) \/ Interrupted(t)

Next ==
  \/ aesd_init_module \/ aesd_cleanup_module
  \/ \E t \in Threads : Call(t) \/ Lock(t) \/ Run(t) \/ Signal(t)

Spec == Init /\ [][Next]_vars

\* The scheduler runs every thread that can run, and the mutex hands the
\* lock to a thread that keeps asking for it (the kernel's mutex does: a
\* waiter that has waited too long is given the lock at the next unlock).
Fairness == \A t \in Threads : WF_vars(Run(t)) /\ SF_vars(Lock(t))

FairSpec == Spec /\ Fairness

-----------------------------------------------------------------------------
PCs == {"idle", "write_lock", "write_crit", "write_free", "read_lock",
        "read_crit", "read_load", "read_print", "llseek_lock", "llseek_crit",
        "llseek_set", "ioctl_lock", "ioctl_crit"}

Ptr == Blocks \union {NULL}

\* The fields of struct aesd_dev and the locals of the calls stay in range.
TypeOK ==
  /\ loaded \in BOOLEAN
  /\ opened \subseteq Threads
  /\ f_pos \in [Threads -> Nat]
  /\ buffer \in [entry : [Slots -> [buffptr : Ptr, size : Nat]],
                 in_offs : Slots, out_offs : Slots, full : BOOLEAN,
                 cb_size : 0 .. 2^IntBits - 1]
  /\ part_mem_ptr \in Ptr
  /\ part_buf_size \in Nat
  /\ buf_lock \in Threads \union {NONE}
  /\ allocated \subseteq Blocks
  /\ mem \in [Blocks -> Seq(Byte)]
  /\ pc \in [Threads -> PCs]
  /\ arg \in [Threads -> Int \X Int]
  /\ loff \in [Threads -> Nat]
  /\ buffptr \in [Threads -> Ptr]
  /\ rm_buffptr \in [Threads -> Ptr]
  /\ rd_entry \in [Threads -> Slots]
  /\ rd_ptr \in [Threads -> Ptr]
  /\ reply \in [Threads -> Seq(Byte)]

\* The pointers that the ring holds, empty slots aside.
RingPtrs == IF loaded THEN {buffer.entry[i].buffptr : i \in Slots} \ {NULL} ELSE {}

\* What the driver owns is allocated: the blocks of the ring, from which
\* aesd_read copies to its callers, of the partial write, and those that a
\* write under way has still to store or to free.  The pointer that aesd_read
\* prints after the unlock is not owned: PrintsLiveMemory is about it.
OwnedIsAllocated ==
  /\ RingPtrs \subseteq allocated
  /\ loaded => part_mem_ptr \in allocated \union {NULL}
  /\ \A t \in Threads : /\ buffptr[t] \in allocated \union {NULL}
                        /\ rm_buffptr[t] \in allocated \union {NULL}

\* A block has at most one owner, who will free it: a slot of the ring, the
\* partial write, or a call that has not stored it yet or has taken it out
\* of the ring.  So no block is freed twice, and none is freed while the ring
\* or the partial write still holds it.
OneOwner ==
  /\ loaded =>
       /\ \A i, j \in Slots :
            i # j /\ buffer.entry[i].buffptr = buffer.entry[j].buffptr
              => buffer.entry[i].buffptr = NULL
       /\ part_mem_ptr \notin RingPtrs
  /\ \A t, u \in Threads :
       /\ buffptr[t] \notin RingPtrs /\ rm_buffptr[t] \notin RingPtrs
       /\ loaded /\ part_mem_ptr # NULL =>
            buffptr[t] # part_mem_ptr /\ rm_buffptr[t] # part_mem_ptr
       /\ buffptr[t] # NULL => buffptr[t] # rm_buffptr[u]
       /\ t # u /\ buffptr[t] = buffptr[u] => buffptr[t] = NULL
       /\ t # u /\ rm_buffptr[t] = rm_buffptr[u] => rm_buffptr[t] = NULL

\* What has not been freed is still owned: no allocation is forgotten by an
\* overwrite, an interrupted call or the unloading of the module.
NoLeak ==
  allocated \subseteq
    RingPtrs \union (IF loaded THEN {part_mem_ptr} ELSE {})
      \union {buffptr[t] : t \in Threads} \union {rm_buffptr[t] : t \in Threads}

\* aesd-circular-buffer.h: an entry's size is the "Number of bytes stored in
\* buffptr", which aesd_read relies on when it copies them to the caller.
EntrySizeIsStored ==
  loaded => \A k \in 1 .. Count(buffer) :
              LET e == Contents(buffer)[k]
              IN  e.buffptr # NULL /\ Len(mem[e.buffptr]) = e.size

\* The same of the bytes that wait for a newline, which become part of the
\* next entry: handle_partial_data copies as many as part_buf_size says.
PartialSizeIsStored ==
  loaded =>
    part_buf_size = IF part_mem_ptr = NULL THEN 0 ELSE Len(mem[part_mem_ptr])

SizesMatch == EntrySizeIsStored /\ PartialSizeIsStored

\* Every call to the driver returns, whatever the others do, also when
\* signals end some of the waits for buf_lock.
CallsReturn == \A t \in Threads : pc[t] # "idle" ~> pc[t] = "idle"

\* The position a caller has as soon as its call has taken effect.
Position(t) ==
  CASE pc[t] \in {"write_free", "read_load", "read_print"} -> loff[t]
    [] pc[t] = "llseek_set" -> fixed_size_llseek(f_pos[t], arg[t][2], arg[t][1], loff[t])
    [] OTHER -> f_pos[t]

\* What the driver's state means to its callers.
DeviceLog ==
  IF loaded
  THEN [k \in 1 .. Count(buffer) |-> mem[Contents(buffer)[k].buffptr]]
  ELSE << >>

DevicePending == IF loaded /\ part_mem_ptr # NULL THEN mem[part_mem_ptr] ELSE << >>

DevicePos == [t \in Threads |-> Position(t)]

DeviceData == UNION {CopiedFromUser(data) : data \in Payloads}

\* The driver implements the device whose calls take effect at one instant:
\* that of the critical section of the call.
Device == INSTANCE AesdDevice
            WITH Callers  <- Threads,
                 Capacity <- MaxOps,
                 Data     <- DeviceData,
                 log      <- DeviceLog,
                 pending  <- DevicePending,
                 pos      <- DevicePos

DeviceSpec == Device!Spec

-----------------------------------------------------------------------------
(***************************************************************************)
(* Claims of the source that the code does not keep.                       *)
(***************************************************************************)

\* main.c takes the lock "before reading the data into circular buffer", and
\* the ring leaves "any necessary locking" to its caller: what aesd_read
\* still prints of an entry is memory that has not been freed.
PrintsLiveMemory ==
  \A t \in Threads : pc[t] = "read_print" => rd_ptr[t] \in allocated \union {NULL}

=============================================================================

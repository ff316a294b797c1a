--------------------------- MODULE AesdCharProofs ---------------------------
(***************************************************************************)
(* Proofs about the driver, for every number of threads, slots and blocks  *)
(* and every payload:                                                      *)
(*                                                                         *)
(*   - the memory that the driver uses is allocated and has one owner, and *)
(*     its offsets, sizes and positions are in range, whatever fails;      *)
(*   - every block holds as many bytes as its size says, while kmalloc     *)
(*     succeeds;                                                           *)
(*   - no block is forgotten, when every write carries a newline;          *)
(*   - every call has the effect of one instant, that is, the driver       *)
(*     implements AesdDevice, while kmalloc succeeds and the numbers fit.  *)
(***************************************************************************)
EXTENDS AesdChar, FiniteSetTheorems, RingLemmas

Writing == {"write_lock", "write_crit"}
Critical == {"write_crit", "read_crit", "llseek_crit", "ioctl_crit"}

Rings == [entry : [Slots -> [buffptr : Ptr, size : Nat]],
          in_offs : Slots, out_offs : Slots, full : BOOLEAN, cb_size : Int]

OwnerTypes ==
  /\ loaded \in BOOLEAN
  /\ opened \subseteq Threads
  /\ buffer \in Rings
  /\ part_mem_ptr \in Ptr
  /\ part_buf_size \in Nat
  /\ buf_lock \in Threads \union {NONE}
  /\ allocated \subseteq Blocks
  /\ mem \in [Blocks -> Seq(Byte)]
  /\ pc \in [Threads -> PCs]
  /\ buffptr \in [Threads -> Ptr]
  /\ rm_buffptr \in [Threads -> Ptr]

\* Calls are under way only on open files, and the module cannot be unloaded
\* while a file is open.
CallsNeedModule ==
  /\ \A t \in Threads : pc[t] # "idle" => t \in opened
  /\ opened # {} => loaded

\* buf_lock is held by the one thread in a critical section, so that the
\* critical sections may be taken as single steps.
LockDiscipline == \A t \in Threads : pc[t] \in Critical <=> buf_lock = t

\* A local pointer is set only between the steps that set and clear it.
LocalsLive ==
  \A t \in Threads :
    /\ pc[t] \in Writing <=> buffptr[t] # NULL
    /\ rm_buffptr[t] # NULL => pc[t] = "write_free"

FullMeansMet == buffer.full => buffer.in_offs = buffer.out_offs

\* Every write under way can still merge: the bound on the heap never makes
\* kmalloc fail.
RoomToMerge ==
  Cardinality({t \in Threads : pc[t] \in Writing}) <= Cardinality(Blocks \ allocated)

EntryPtr(i) == buffer.entry[i].buffptr

\* OwnedIsAllocated and OneOwner, pointer by pointer.
Allocated ==
  /\ loaded => \A i \in Slots : EntryPtr(i) # NULL => EntryPtr(i) \in allocated
  /\ loaded /\ part_mem_ptr # NULL => part_mem_ptr \in allocated
  /\ \A t \in Threads : /\ buffptr[t] # NULL => buffptr[t] \in allocated
                        /\ rm_buffptr[t] # NULL => rm_buffptr[t] \in allocated

Distinct ==
  /\ loaded => \A i, j \in Slots :
                 i # j /\ EntryPtr(i) # NULL => EntryPtr(i) # EntryPtr(j)
  /\ loaded => \A i \in Slots : EntryPtr(i) # NULL => EntryPtr(i) # part_mem_ptr
  /\ loaded => \A i \in Slots, t \in Threads :
                 EntryPtr(i) # NULL => EntryPtr(i) # buffptr[t] /\ EntryPtr(i) # rm_buffptr[t]
  /\ loaded /\ part_mem_ptr # NULL =>
       \A t \in Threads : part_mem_ptr # buffptr[t] /\ part_mem_ptr # rm_buffptr[t]
  /\ \A t, u \in Threads :
       /\ buffptr[t] # NULL => buffptr[t] # rm_buffptr[u]
       /\ t # u /\ buffptr[t] # NULL => buffptr[t] # buffptr[u]
       /\ t # u /\ rm_buffptr[t] # NULL => rm_buffptr[t] # rm_buffptr[u]

\* The inductive invariant.
OwnerInv ==
  /\ OwnerTypes
  /\ CallsNeedModule
  /\ LockDiscipline
  /\ LocalsLive
  /\ FullMeansMet
  /\ RoomToMerge
  /\ Allocated
  /\ Distinct

-----------------------------------------------------------------------------
(***************************************************************************)
(* Lemmas about the heap.                                                  *)
(***************************************************************************)

\* kmalloc returns a block that nobody owns, when there is one.
LEMMA KmallocFresh ==
  ASSUME Blocks \ allocated # {}
  PROVE  kmalloc \in Blocks /\ kmalloc \notin allocated
  BY DEF kmalloc

\* OwnerInv is what the two properties of the runs say.
LEMMA OwnerInvSuffices ==
  ASSUME OwnerInv
  PROVE  OwnedIsAllocated /\ OneOwner
  <1> USE DEF OwnerInv, OwnerTypes, Rings, EntryPtr, Ptr
  <1>1. OwnedIsAllocated
    BY DEF Allocated, OwnedIsAllocated, RingPtrs
  <1>2. OneOwner
    BY DEF Distinct, OneOwner, RingPtrs
  <1> QED
    BY <1>1, <1>2

\* The initial state has no memory and no call.
LEMMA InitOwner == Init => OwnerInv
  <1> SUFFICES ASSUME Init PROVE OwnerInv
    OBVIOUS
  <1> USE AesdCharAssumption, MaxOpsAssumption DEF Init
  <1>1. OwnerTypes
    <2>1. EmptyRing \in Rings
      BY DEF Rings, EmptyRing, NoEntry, Ptr, Slots
    <2>2. << >> \in Seq(Byte)
      BY EmptySeq
    <2> QED
      BY <2>1, <2>2 DEF OwnerTypes, Ptr, PCs
  <1>2. CallsNeedModule /\ LockDiscipline /\ LocalsLive /\ FullMeansMet
    BY DEF CallsNeedModule, LockDiscipline, LocalsLive, FullMeansMet, EmptyRing,
           Critical, Writing
  <1>3. RoomToMerge
    <2>1. {t \in Threads : pc[t] \in Writing} = {}
      BY DEF Writing
    <2>2. IsFiniteSet(Blocks \ allocated)
      BY FS_Subset
    <2>3. Cardinality(Blocks \ allocated) \in Nat
      BY <2>2, FS_CardinalityType
    <2>4. Cardinality({t \in Threads : pc[t] \in Writing}) = 0
      BY ONLY <2>1, FS_EmptySet
    <2> QED
      BY ONLY <2>3, <2>4 DEF RoomToMerge
  <1>4. Allocated /\ Distinct
    BY DEF Allocated, Distinct
  <1> QED
    BY <1>1, <1>2, <1>3, <1>4 DEF OwnerInv

-----------------------------------------------------------------------------
(***************************************************************************)
(* The steps.                                                              *)
(***************************************************************************)

\* A step of a call that only moves on, taking, keeping or releasing the
\* lock.
LEMMA QuietStep ==
  ASSUME OwnerInv, NEW t \in Threads, NEW p \in PCs, t \in opened,
         UNCHANGED << loaded, opened, buffer, part_mem_ptr, part_buf_size,
                      allocated, mem, buffptr, rm_buffptr >>,
         pc' = [pc EXCEPT ![t] = p],
         rm_buffptr[t] = NULL,
         p \in Writing <=> pc[t] \in Writing,
         \/ buf_lock = NONE /\ buf_lock' = t /\ p \in Critical
         \/ pc[t] \in Critical /\ p \notin Critical /\ buf_lock' = NONE
         \/ pc[t] \notin Critical /\ p \notin Critical /\ buf_lock' = buf_lock
  PROVE  OwnerInv'
  <1> USE AesdCharAssumption DEF OwnerInv
  <1>1. OwnerTypes'
    BY DEF OwnerTypes
  <1>2. CallsNeedModule'
    BY DEF OwnerTypes, CallsNeedModule
  <1>3. LockDiscipline'
    BY DEF OwnerTypes, LockDiscipline
  <1>4. LocalsLive'
    BY DEF OwnerTypes, LocalsLive
  <1>5. FullMeansMet' /\ Allocated' /\ Distinct'
    BY DEF FullMeansMet, Allocated, Distinct, EntryPtr
  <1>6. RoomToMerge'
    <2>1. {u \in Threads : pc'[u] \in Writing} = {u \in Threads : pc[u] \in Writing}
      BY DEF OwnerTypes
    <2> QED
      BY <2>1 DEF RoomToMerge
  <1> QED
    BY <1>1, <1>2, <1>3, <1>4, <1>5, <1>6

\* Clearing a local pointer that is NULL changes nothing.
LEMMA ReturnKeepsNull ==
  ASSUME OwnerInv, NEW t \in Threads, Return(t),
         pc[t] \notin Writing, pc[t] # "write_free"
  PROVE  buffptr' = buffptr /\ rm_buffptr' = rm_buffptr /\ rm_buffptr[t] = NULL
  <1>1. buffptr[t] = NULL /\ rm_buffptr[t] = NULL
    BY DEF OwnerInv, LocalsLive
  <1> QED
    BY <1>1 DEF Return, OwnerInv, OwnerTypes

LEMMA QuietActions ==
  ASSUME OwnerInv, NEW t \in Threads,
         \/ Lock(t) \/ ReadStart(t) \/ ReadNothing(t) \/ ReadEntry(t) \/ ReadLoad(t)
         \/ ReadPrint(t) \/ LlseekSize(t) \/ LlseekSet(t) \/ IoctlSeek(t)
         \/ Interrupted(t)
         \/ \E s \in Seeks : LlseekStart(t, s[1], s[2])
         \/ \E c \in Commands : IoctlStart(t, c[1], c[2])
  PROVE  OwnerInv'
  <1> USE DEF Writing, Critical, PCs, device, heap, locals
  <1>1. /\ pc[t] # "idle" => t \in opened
        /\ pc[t] # "write_free" => rm_buffptr[t] = NULL
        /\ pc[t] \in PCs
    BY DEF OwnerInv, CallsNeedModule, LocalsLive, OwnerTypes
  <1>2. CASE Lock(t)
    <2>1. CriticalSection(pc[t]) \in Critical
          /\ (CriticalSection(pc[t]) \in Writing <=> pc[t] \in Writing)
      BY <1>2 DEF Lock, LockPoints, CriticalSection
    <2> QED
      BY <1>1, <1>2, <2>1, QuietStep DEF Lock, LockPoints, OwnerInv, OwnerTypes
  <1>3. CASE \/ ReadStart(t)
             \/ \E s \in Seeks : LlseekStart(t, s[1], s[2])
             \/ \E c \in Commands : IoctlStart(t, c[1], c[2])
    <2>1. PICK p \in {"read_lock", "llseek_lock", "ioctl_lock"} :
            pc' = [pc EXCEPT ![t] = p]
      BY <1>3 DEF ReadStart, LlseekStart, IoctlStart, Goto
    <2>2. /\ pc[t] = "idle" /\ t \in opened
          /\ UNCHANGED << loaded, opened, buffer, part_mem_ptr, part_buf_size,
                          buf_lock, allocated, mem, buffptr, rm_buffptr >>
      BY <1>3 DEF ReadStart, LlseekStart, IoctlStart, Callable
    <2> QED
      BY <1>1, <2>1, <2>2, QuietStep
  <1>4. CASE ReadEntry(t)
    BY <1>1, <1>4, QuietStep DEF ReadEntry, Goto
  <1>5. CASE ReadLoad(t)
    BY <1>1, <1>5, QuietStep DEF ReadLoad, Goto
  <1>6. CASE LlseekSize(t)
    BY <1>1, <1>6, QuietStep DEF LlseekSize, Goto
  <1>7. CASE ReadNothing(t) \/ IoctlSeek(t)
    <2>1. /\ pc[t] \in {"read_crit", "ioctl_crit"} /\ Return(t) /\ buf_lock' = NONE
          /\ UNCHANGED << loaded, opened, buffer, part_mem_ptr, part_buf_size,
                          allocated, mem >>
      BY <1>7 DEF ReadNothing, IoctlSeek
    <2>2. buffptr' = buffptr /\ rm_buffptr' = rm_buffptr
      BY <2>1, ReturnKeepsNull
    <2>3. pc' = [pc EXCEPT ![t] = "idle"]
      BY <2>1 DEF Return, Goto
    <2> QED
      BY <1>1, <2>1, <2>2, <2>3, QuietStep
  <1>8. CASE ReadPrint(t) \/ LlseekSet(t) \/ Interrupted(t)
    <2>1. /\ pc[t] \in {"read_print", "llseek_set", "read_lock", "llseek_lock", "ioctl_lock"}
          /\ Return(t)
          /\ UNCHANGED << loaded, opened, buffer, part_mem_ptr, part_buf_size,
                          buf_lock, allocated, mem >>
      BY <1>8 DEF ReadPrint, LlseekSet, Interrupted, LockPoints
    <2>2. buffptr' = buffptr /\ rm_buffptr' = rm_buffptr
      BY <2>1, ReturnKeepsNull
    <2>3. pc' = [pc EXCEPT ![t] = "idle"]
      BY <2>1 DEF Return, Goto
    <2> QED
      BY <1>1, <2>1, <2>2, <2>3, QuietStep
  <1> QED
    BY <1>2, <1>3, <1>4, <1>5, <1>6, <1>7, <1>8

\* Blocks that are free stay free for the merges to come when one more is
\* allocated and one more is freed, or fewer writes need one.
LEMMA FreeBlocks ==
  ASSUME OwnerInv
  PROVE  /\ IsFiniteSet(Blocks \ allocated)
         /\ IsFiniteSet({t \in Threads : pc[t] \in Writing})
         /\ Cardinality(Blocks \ allocated) \in Nat
         /\ Cardinality({t \in Threads : pc[t] \in Writing}) \in Nat
  <1>1. (Blocks \ allocated) \in SUBSET Blocks
        /\ {t \in Threads : pc[t] \in Writing} \in SUBSET Threads
    OBVIOUS
  <1>2. /\ IsFiniteSet(Blocks \ allocated)
        /\ IsFiniteSet({t \in Threads : pc[t] \in Writing})
    BY <1>1, FS_Subset, AesdCharAssumption
  <1> QED
    BY <1>2, FS_CardinalityType

\* A write that starts finds a free block.
LEMMA KmallocInWrite ==
  ASSUME OwnerInv, HeapHasRoom
  PROVE  kmalloc \in Blocks /\ kmalloc \notin allocated
  <1> DEFINE W == {u \in Threads : pc[u] \in Writing}
  <1>1. Cardinality(Blocks \ allocated) >= 2 + Cardinality(W)
    BY DEF HeapHasRoom, Writing
  <1>2. Cardinality(W) \in Nat /\ Cardinality(Blocks \ allocated) \in Nat
    BY FreeBlocks
  <1>3. Cardinality(Blocks \ allocated) # 0
    <2> HIDE DEF W
    <2> QED
      BY <1>1, <1>2
  <1>4. Blocks \ allocated # {}
    BY <1>3, FreeBlocks, FS_EmptySet
  <1> QED
    BY <1>4, KmallocFresh

\* So does a merge.
LEMMA KmallocInMerge ==
  ASSUME OwnerInv, NEW t \in Threads, pc[t] \in Writing
  PROVE  kmalloc \in Blocks /\ kmalloc \notin allocated
  <1> DEFINE W == {u \in Threads : pc[u] \in Writing}
  <1>1. W # {}
    OBVIOUS
  <1>2. Cardinality(W) # 0
    BY <1>1, FreeBlocks, FS_EmptySet
  <1>3. Cardinality(Blocks \ allocated) # 0
    BY <1>2, FreeBlocks DEF OwnerInv, RoomToMerge
  <1>4. Blocks \ allocated # {}
    BY <1>3, FreeBlocks, FS_EmptySet
  <1> QED
    BY <1>4, KmallocFresh

\* Freeing memory leaves room.
LEMMA RoomAfterFree ==
  ASSUME OwnerInv, allocated' \subseteq allocated,
         {u \in Threads : pc'[u] \in Writing} \subseteq {u \in Threads : pc[u] \in Writing}
  PROVE  RoomToMerge'
  <1>1. (Blocks \ allocated) \in SUBSET (Blocks \ allocated')
    OBVIOUS
  <1>2. IsFiniteSet(Blocks \ allocated')
    <2>1. (Blocks \ allocated') \in SUBSET Blocks
      OBVIOUS
    <2> QED
      BY <2>1, FS_Subset, AesdCharAssumption
  <1>3. /\ Cardinality(Blocks \ allocated) <= Cardinality(Blocks \ allocated')
        /\ Cardinality(Blocks \ allocated') \in Nat
    BY <1>1, <1>2, FS_Subset, FS_CardinalityType
  <1>4. /\ Cardinality({u \in Threads : pc'[u] \in Writing})
             <= Cardinality({u \in Threads : pc[u] \in Writing})
        /\ Cardinality({u \in Threads : pc'[u] \in Writing}) \in Nat
    BY FreeBlocks, FS_Subset, FS_CardinalityType
  <1> QED
    BY <1>3, <1>4, FreeBlocks DEF RoomToMerge, OwnerInv

\* Loading the module, unloading it, and opening and closing a file.
LEMMA ModuleStep ==
  ASSUME OwnerInv,
         \/ aesd_init_module \/ aesd_cleanup_module
         \/ \E t \in Threads : aesd_open(t) \/ aesd_release(t)
  PROVE  OwnerInv'
  <1> USE AesdCharAssumption DEF OwnerInv, device, heap, locals
  <1>1. CASE aesd_init_module
    <2> USE <1>1 DEF aesd_init_module
    <2>1. \A t \in Threads : pc[t] = "idle"
      BY DEF CallsNeedModule
    <2>2. buffer' \in Rings
      BY MaxOpsAssumption DEF Rings, EmptyRing, NoEntry, Ptr, Slots
    <2>3. OwnerTypes'
      BY <2>2 DEF OwnerTypes, Ptr
    <2>4. CallsNeedModule' /\ LockDiscipline' /\ LocalsLive' /\ FullMeansMet'
      BY <2>1 DEF CallsNeedModule, LockDiscipline, LocalsLive, FullMeansMet,
                  EmptyRing, Critical, Writing
    <2>5. RoomToMerge'
      BY RoomAfterFree
    <2>6. Allocated' /\ Distinct'
      BY DEF Allocated, Distinct, EntryPtr, EmptyRing, NoEntry
    <2> QED
      BY <2>3, <2>4, <2>5, <2>6
  <1>2. CASE aesd_cleanup_module
    <2>1. /\ loaded' = FALSE /\ opened = {}
          /\ UNCHANGED << opened, buffer, part_mem_ptr, part_buf_size, buf_lock,
                          pc, buffptr, rm_buffptr >>
          /\ allocated' \subseteq allocated
      BY <1>2 DEF aesd_cleanup_module, Kfree
    <2>2. mem' \in [Blocks -> Seq(Byte)]
      <3>1. << >> \in Seq(Byte)
        BY EmptySeq
      <3> QED
        BY <1>2, <3>1 DEF aesd_cleanup_module, Kfree, OwnerTypes
    <2>3. \A t \in Threads : pc[t] = "idle"
      BY <2>1 DEF CallsNeedModule
    <2>4. \A t \in Threads : buffptr[t] = NULL /\ rm_buffptr[t] = NULL
      BY <2>3 DEF LocalsLive, Writing
    <2>5. OwnerTypes'
      BY <2>1, <2>2 DEF OwnerTypes
    <2>6. CallsNeedModule' /\ LockDiscipline' /\ LocalsLive' /\ FullMeansMet'
      BY <2>1, <2>3 DEF CallsNeedModule, LockDiscipline, LocalsLive, FullMeansMet
    <2>7. RoomToMerge'
      BY <2>1, RoomAfterFree
    <2>8. Allocated' /\ Distinct'
      BY <2>1, <2>4 DEF Allocated, Distinct
    <2> QED
      BY <2>5, <2>6, <2>7, <2>8
  <1>3. CASE \E t \in Threads : aesd_open(t) \/ aesd_release(t)
    <2>1. PICK t \in Threads : aesd_open(t) \/ aesd_release(t)
      BY <1>3
    <2>2. UNCHANGED << loaded, buffer, part_mem_ptr, part_buf_size, buf_lock,
                       allocated, mem, pc, buffptr, rm_buffptr >>
      BY <2>1 DEF aesd_open, aesd_release
    <2>3. OwnerTypes' /\ CallsNeedModule'
      BY <2>1, <2>2 DEF aesd_open, aesd_release, Callable, OwnerTypes, CallsNeedModule
    <2>4. /\ LockDiscipline' /\ LocalsLive' /\ FullMeansMet' /\ RoomToMerge'
          /\ Allocated' /\ Distinct'
      BY <2>2 DEF LockDiscipline, LocalsLive, FullMeansMet, RoomToMerge, Allocated,
                  Distinct, EntryPtr
    <2> QED
      BY <2>3, <2>4
  <1> QED
    BY <1>1, <1>2, <1>3

\* aesd_write up to the request for the lock: one more block, owned by the
\* call.
LEMMA WriteStartStep ==
  ASSUME OwnerInv, NEW t \in Threads, NEW data \in Payloads, WriteStart(t, data)
  PROVE  OwnerInv'
  <1> USE AesdCharAssumption DEF OwnerInv, device
  <1> DEFINE free == Blocks \ allocated
             W == {u \in Threads : pc[u] \in Writing}
  <1>1. /\ pc[t] = "idle" /\ t \in opened
        /\ Cardinality(free) >= 2 + Cardinality(W)
        /\ allocated' = allocated \union {kmalloc}
        /\ buffptr' = [buffptr EXCEPT ![t] = kmalloc]
        /\ pc' = [pc EXCEPT ![t] = "write_lock"]
        /\ UNCHANGED << loaded, opened, buffer, part_mem_ptr, part_buf_size,
                        buf_lock, rm_buffptr >>
    BY DEF WriteStart, Callable, HeapHasRoom, Goto, Writing
  <1>2. kmalloc \in Blocks /\ kmalloc \notin allocated /\ kmalloc # NULL
    BY KmallocInWrite DEF WriteStart
  <1>3. mem' \in [Blocks -> Seq(Byte)]
    <2>1. PICK copied \in CopiedFromUser(data) : mem' = [mem EXCEPT ![kmalloc] = copied]
      BY DEF WriteStart
    <2>2. data \in Seq(Byte) /\ Len(data) \in Nat
      BY LenProperties
    <2>3. copied \in Seq(Byte)
      BY <2>1, <2>2, SeqDef DEF CopiedFromUser
    <2> QED
      BY <2>1, <2>3 DEF OwnerTypes
  <1>4. OwnerTypes'
    BY <1>1, <1>2, <1>3 DEF OwnerTypes, PCs, Ptr
  <1>5. CallsNeedModule' /\ LockDiscipline' /\ LocalsLive' /\ FullMeansMet'
    BY <1>1, <1>2 DEF OwnerTypes, CallsNeedModule, LockDiscipline, LocalsLive,
                      FullMeansMet, Critical, Writing
  <1>6. RoomToMerge'
    <2>1. {u \in Threads : pc'[u] \in Writing} = W \union {t} /\ t \notin W
      BY <1>1 DEF OwnerTypes, Writing
    <2>2. Blocks \ allocated' = free \ {kmalloc} /\ kmalloc \in free
      BY <1>1, <1>2
    <2>3. Cardinality(W \union {t}) = Cardinality(W) + 1
      BY <2>1, FreeBlocks, FS_AddElement
    <2>4. Cardinality(free \ {kmalloc}) = Cardinality(free) - 1
      BY <2>2, FreeBlocks, FS_RemoveElement
    <2>5. Cardinality(W) \in Nat /\ Cardinality(free) \in Nat
      BY FreeBlocks
    <2>6. Cardinality(W \union {t}) <= Cardinality(free \ {kmalloc})
      <3> HIDE DEF W, free
      <3> QED
        BY <1>1, <2>3, <2>4, <2>5
    <2> QED
      BY ONLY <2>1, <2>2, <2>6, Zenon DEF RoomToMerge
  <1>7. Allocated'
    BY <1>1, <1>2 DEF OwnerTypes, Allocated, EntryPtr
  <1>8. Distinct'
    <2> USE <1>1, <1>2 DEF OwnerTypes, Allocated, Distinct, EntryPtr
    <2>1. \A u \in Threads : rm_buffptr[u] # kmalloc /\ buffptr[u] # kmalloc
      OBVIOUS
    <2>2. loaded => part_mem_ptr # kmalloc /\ \A i \in Slots : EntryPtr(i) # kmalloc
      OBVIOUS
    <2>3. \A u \in Threads : buffptr'[u] = IF u = t THEN kmalloc ELSE buffptr[u]
      OBVIOUS
    <2> QED
      BY <2>1, <2>2, <2>3
  <1> QED
    BY <1>4, <1>5, <1>6, <1>7, <1>8

\* What handle_partial_data does to the heap: it returns NULL, the data it
\* was given, or a new block, and frees nothing but the old partial buffer.
LEMMA HandlePartialData ==
  ASSUME OwnerInv, NEW t \in Threads, pc[t] = "write_crit",
         NEW h \in handle_partial_data(part_mem_ptr, part_buf_size, buffptr[t])
  PROVE  /\ h.ptr \in Ptr
         /\ h.ptr = NULL \/ h.ptr = buffptr[t] \/ h.ptr \notin allocated
         /\ h.ptr # NULL => h.ptr \in h.allocated
         /\ h.allocated \subseteq Blocks
         /\ allocated \ {part_mem_ptr} \subseteq h.allocated
         /\ h.mem \in [Blocks -> Seq(Byte)]
         /\ Cardinality(Blocks \ h.allocated) = Cardinality(Blocks \ allocated)
  <1> USE AesdCharAssumption DEF OwnerInv
  <1>1. buffptr[t] \in allocated /\ buffptr[t] # NULL
    BY DEF LocalsLive, Writing, Allocated
  <1>2. loaded
    BY DEF CallsNeedModule
  <1>3. CASE h = [ptr |-> buffptr[t], allocated |-> allocated, mem |-> mem]
    BY <1>1, <1>3 DEF OwnerTypes
  <1>4. CASE h = [ptr |-> NULL, allocated |-> allocated, mem |-> mem]
    BY <1>4 DEF OwnerTypes, Ptr
  <1>5. CASE /\ part_mem_ptr # NULL
             /\ \E s \in BytesAt(part_mem_ptr, part_buf_size) :
                  h = [ptr       |-> kmalloc,
                       allocated |-> (allocated \union {kmalloc}) \ {part_mem_ptr},
                       mem       |-> [mem EXCEPT ![kmalloc] = s \o mem[buffptr[t]],
                                                 ![part_mem_ptr] = << >>]]
    <2>1. PICK s \in BytesAt(part_mem_ptr, part_buf_size) :
            h = [ptr       |-> kmalloc,
                 allocated |-> (allocated \union {kmalloc}) \ {part_mem_ptr},
                 mem       |-> [mem EXCEPT ![kmalloc] = s \o mem[buffptr[t]],
                                           ![part_mem_ptr] = << >>]]
      BY <1>5
    <2>2. kmalloc \in Blocks /\ kmalloc \notin allocated
      BY KmallocInMerge DEF Writing
    <2>3. part_mem_ptr \in allocated
      BY <1>2, <1>5 DEF Allocated
    <2>4. h.mem \in [Blocks -> Seq(Byte)]
      <3>1. s \in Seq(Byte)
        BY SeqDef DEF BytesAt, OwnerTypes
      <3>2. mem[buffptr[t]] \in Seq(Byte)
        BY <1>1 DEF OwnerTypes
      <3>3. s \o mem[buffptr[t]] \in Seq(Byte)
        BY <3>1, <3>2, ConcatProperties
      <3>4. << >> \in Seq(Byte)
        BY EmptySeq
      <3> QED
        BY <2>1, <3>3, <3>4 DEF OwnerTypes
    <2>5. Cardinality(Blocks \ h.allocated) = Cardinality(Blocks \ allocated)
      <3> DEFINE free == Blocks \ allocated
      <3>1. Blocks \ h.allocated = (free \ {kmalloc}) \union {part_mem_ptr}
        BY <2>1, <2>2, <2>3 DEF OwnerTypes
      <3>2. /\ IsFiniteSet(free \ {kmalloc})
            /\ Cardinality(free \ {kmalloc}) = Cardinality(free) - 1
        BY <2>2, FreeBlocks, FS_RemoveElement
      <3>3. part_mem_ptr \notin free \ {kmalloc}
        BY <2>3
      <3>4. Cardinality((free \ {kmalloc}) \union {part_mem_ptr})
              = Cardinality(free \ {kmalloc}) + 1
        BY <3>2, <3>3, FS_AddElement
      <3>5. Cardinality(free) \in Nat
        BY FreeBlocks
      <3>6. Cardinality((free \ {kmalloc}) \union {part_mem_ptr}) = Cardinality(free)
        <4> HIDE DEF free
        <4> QED
          BY ONLY <3>2, <3>4, <3>5
      <3> QED
        BY ONLY <3>1, <3>6, Zenon
    <2>6. /\ h.ptr = kmalloc
          /\ h.allocated = (allocated \union {kmalloc}) \ {part_mem_ptr}
      BY <2>1
    <2> QED
      BY <2>2, <2>3, <2>4, <2>5, <2>6 DEF OwnerTypes, Ptr
  <1> QED
    BY <1>3, <1>4, <1>5 DEF handle_partial_data

\* A write that has ended, and merged or not, leaves room for the others.
LEMMA RoomAfterMerge ==
  ASSUME OwnerInv,
         {u \in Threads : pc'[u] \in Writing} \subseteq {u \in Threads : pc[u] \in Writing},
         Cardinality(Blocks \ allocated') = Cardinality(Blocks \ allocated)
  PROVE  RoomToMerge'
  <1> DEFINE W == {u \in Threads : pc[u] \in Writing}
             V == {u \in Threads : pc'[u] \in Writing}
             n == Cardinality(Blocks \ allocated)
  <1>1. Cardinality(W) <= n /\ Cardinality(W) \in Nat /\ n \in Nat
    BY FreeBlocks DEF OwnerInv, RoomToMerge
  <1>2. Cardinality(V) <= Cardinality(W) /\ Cardinality(V) \in Nat
    BY FreeBlocks, FS_Subset, FS_CardinalityType
  <1>3. Cardinality(V) <= n
    <2> HIDE DEF V, W, n
    <2> QED
      BY ONLY <1>1, <1>2
  <1> QED
    BY <1>3, Zenon DEF RoomToMerge

\* The critical section of a write with a newline: the merged buffer goes
\* into the ring, and what add_entry takes out of it goes to the call.
LEMMA WriteFullStep ==
  ASSUME OwnerInv, NEW t \in Threads, WriteFull(t)
  PROVE  OwnerInv'
  <1> USE AesdCharAssumption DEF OwnerInv
  <1> DEFINE count == Len(mem[buffptr[t]])
             size == wr_entry_size(count)
             in == buffer.in_offs
             out == buffer.out_offs
             removed == removed_buffptr(buffer)
  <1>1. PICK h \in handle_partial_data(part_mem_ptr, part_buf_size, buffptr[t]) :
          /\ allocated' = h.allocated
          /\ mem' = h.mem
          /\ buffer' = add_entry(buffer, [buffptr |-> h.ptr, size |-> size])
    BY DEF WriteFull
  <1> DEFINE e == [buffptr |-> h.ptr, size |-> size]
  <1>2. /\ pc[t] = "write_crit"
        /\ pc' = [pc EXCEPT ![t] = "write_free"]
        /\ rm_buffptr' = [rm_buffptr EXCEPT ![t] = removed]
        /\ buffptr' = [buffptr EXCEPT ![t] = NULL]
        /\ part_mem_ptr' = NULL
        /\ part_buf_size' = IF part_mem_ptr # NULL THEN 0 ELSE part_buf_size
        /\ buf_lock' = NONE
        /\ UNCHANGED << loaded, opened >>
    BY DEF WriteFull, ResetPartial, Goto
  <1>3. /\ buffptr[t] \in allocated /\ buffptr[t] # NULL
        /\ rm_buffptr[t] = NULL
        /\ loaded /\ t \in opened
        /\ buf_lock = t
    BY <1>2 DEF LocalsLive, Writing, Allocated, CallsNeedModule, LockDiscipline, Critical
  <1>4. /\ h.ptr \in Ptr
        /\ h.ptr = NULL \/ h.ptr = buffptr[t] \/ h.ptr \notin allocated
        /\ h.ptr # NULL => h.ptr \in h.allocated
        /\ h.allocated \subseteq Blocks
        /\ allocated \ {part_mem_ptr} \subseteq h.allocated
        /\ h.mem \in [Blocks -> Seq(Byte)]
        /\ Cardinality(Blocks \ h.allocated) = Cardinality(Blocks \ allocated)
    BY <1>2, HandlePartialData
  <1>5. size \in Nat
    <2>1. mem[buffptr[t]] \in Seq(Byte)
      BY <1>3 DEF OwnerTypes
    <2>2. count \in Nat
      BY <2>1, LenProperties
    <2> QED
      BY <2>2 DEF wr_entry_size, OwnerTypes
  <1>6. e \in [buffptr : Ptr, size : Nat]
    BY <1>4, <1>5
  <1>7. /\ buffer'.entry = [buffer.entry EXCEPT ![in] = e]
        /\ buffer'.in_offs = nextPtr(in)
        /\ buffer'.out_offs = IF buffer.full THEN nextPtr(in) ELSE out
        /\ buffer'.full = (buffer.full \/ nextPtr(in) = out)
        /\ buffer' \in Rings
    <2>1. in \in Slots /\ out \in Slots /\ nextPtr(in) \in Slots /\ buffer.full \in BOOLEAN
      BY MaxOpsAssumption DEF OwnerTypes, Rings, Slots, nextPtr
    <2>2. /\ buffer.entry \in [Slots -> [buffptr : Ptr, size : Nat]]
          /\ buffer.cb_size \in Int
      BY DEF OwnerTypes, Rings
    <2>3. (buffer.cb_size + (e.size - rm_buf_size(buffer))) % 2^IntBits \in Int
      <3> DEFINE x == buffer.cb_size + (e.size - rm_buf_size(buffer))
      <3>1. rm_buf_size(buffer) \in Int
        BY <2>1, <2>2, AsIntIsInt DEF rm_buf_size
      <3>2. x \in Int /\ 2^IntBits \in Nat \ {0}
        BY <1>5, <2>2, <3>1, PowersAssumption
      <3> HIDE DEF x
      <3>3. x % 2^IntBits \in Int
        BY <3>2, ModBasic
      <3> QED
        BY <3>3 DEF x
    <2>4. [buffer.entry EXCEPT ![in] = e] \in [Slots -> [buffptr : Ptr, size : Nat]]
      <3> HIDE DEF e
      <3> QED
        BY <1>6, <2>1, <2>2
    <2> HIDE DEF e
    <2> QED
      BY <1>1, <2>1, <2>3, <2>4 DEF add_entry, Rings, e
  <1> HIDE DEF size, count
  <1>8. OwnerTypes'
    <2>1. removed \in Ptr
      BY DEF removed_buffptr, OwnerTypes, Rings, Ptr
    <2> QED
      BY <1>1, <1>2, <1>4, <1>7, <2>1 DEF OwnerTypes, PCs, Ptr
  <1>9. CallsNeedModule' /\ LockDiscipline' /\ LocalsLive'
    BY <1>2, <1>3 DEF OwnerTypes, CallsNeedModule, LockDiscipline, LocalsLive, Critical,
                      Writing
  <1>10. FullMeansMet'
    BY <1>7 DEF FullMeansMet, OwnerTypes, Rings
  <1>11. RoomToMerge'
    <2>1. {u \in Threads : pc'[u] \in Writing} \subseteq {u \in Threads : pc[u] \in Writing}
      BY <1>2 DEF OwnerTypes, Writing
    <2> QED
      BY <1>1, <1>4, <2>1, RoomAfterMerge
  <1>12. /\ \A i \in Slots : EntryPtr(i)' = IF i = in THEN h.ptr ELSE EntryPtr(i)
         /\ \A u \in Threads : buffptr'[u] = IF u = t THEN NULL ELSE buffptr[u]
         /\ \A u \in Threads : rm_buffptr'[u] = IF u = t THEN removed ELSE rm_buffptr[u]
    BY <1>2, <1>7 DEF EntryPtr, OwnerTypes, Rings
  <1>13. removed = NULL \/ (in \in Slots /\ removed = EntryPtr(in))
    BY DEF removed_buffptr, EntryPtr, FullMeansMet, OwnerTypes, Rings
  <1> HIDE DEF in, out, removed, e
  <1>14. Allocated'
    BY <1>1, <1>2, <1>3, <1>4, <1>12, <1>13 DEF Allocated, Distinct
  <1>15. Distinct'
    <2>1. h.ptr # NULL =>
            /\ \A i \in Slots : EntryPtr(i) # h.ptr
            /\ \A u \in Threads : rm_buffptr[u] # h.ptr /\ (u # t => buffptr[u] # h.ptr)
      BY <1>3, <1>4 DEF Allocated, Distinct
    <2> QED
      BY <1>2, <1>3, <1>12, <1>13, <2>1 DEF Distinct
  <1> QED
    BY <1>8, <1>9, <1>10, <1>11, <1>14, <1>15

\* The critical section of a write without a newline: the merged buffer
\* waits in part_mem_ptr.
LEMMA WritePartialStep ==
  ASSUME OwnerInv, NEW t \in Threads, WritePartial(t)
  PROVE  OwnerInv'
  <1> USE AesdCharAssumption DEF OwnerInv
  <1>1. PICK h \in handle_partial_data(part_mem_ptr, part_buf_size, buffptr[t]) :
          /\ allocated' = h.allocated
          /\ mem' = h.mem
          /\ part_mem_ptr' = h.ptr
    BY DEF WritePartial
  <1>2. /\ pc[t] = "write_crit"
        /\ pc' = [pc EXCEPT ![t] = "idle"]
        /\ rm_buffptr' = [rm_buffptr EXCEPT ![t] = NULL]
        /\ buffptr' = [buffptr EXCEPT ![t] = NULL]
        /\ part_buf_size' = part_buf_size + Len(mem[buffptr[t]])
        /\ buf_lock' = NONE
        /\ UNCHANGED << loaded, opened, buffer >>
    BY DEF WritePartial, Return, Goto
  <1>3. /\ buffptr[t] \in allocated /\ buffptr[t] # NULL
        /\ rm_buffptr[t] = NULL
        /\ loaded /\ t \in opened
        /\ buf_lock = t
    BY <1>2 DEF LocalsLive, Writing, Allocated, CallsNeedModule, LockDiscipline, Critical
  <1>4. /\ h.ptr \in Ptr
        /\ h.ptr = NULL \/ h.ptr = buffptr[t] \/ h.ptr \notin allocated
        /\ h.ptr # NULL => h.ptr \in h.allocated
        /\ h.allocated \subseteq Blocks
        /\ allocated \ {part_mem_ptr} \subseteq h.allocated
        /\ h.mem \in [Blocks -> Seq(Byte)]
        /\ Cardinality(Blocks \ h.allocated) = Cardinality(Blocks \ allocated)
    BY <1>2, HandlePartialData
  <1>5. part_buf_size' \in Nat
    <2>1. mem[buffptr[t]] \in Seq(Byte)
      BY <1>3 DEF OwnerTypes
    <2>2. Len(mem[buffptr[t]]) \in Nat
      BY <2>1, LenProperties
    <2> QED
      BY <1>2, <2>2 DEF OwnerTypes
  <1>6. OwnerTypes'
    BY <1>1, <1>2, <1>4, <1>5 DEF OwnerTypes, PCs, Ptr
  <1>7. CallsNeedModule' /\ LockDiscipline' /\ LocalsLive' /\ FullMeansMet'
    BY <1>2, <1>3 DEF OwnerTypes, CallsNeedModule, LockDiscipline, LocalsLive, Critical,
                      Writing, FullMeansMet
  <1>8. RoomToMerge'
    <2>1. {u \in Threads : pc'[u] \in Writing} \subseteq {u \in Threads : pc[u] \in Writing}
      BY <1>2 DEF OwnerTypes, Writing
    <2> QED
      BY <1>1, <1>4, <2>1, RoomAfterMerge
  <1>9. /\ \A u \in Threads : buffptr'[u] = IF u = t THEN NULL ELSE buffptr[u]
        /\ \A u \in Threads : rm_buffptr'[u] = rm_buffptr[u]
        /\ \A i \in Slots : EntryPtr(i)' = EntryPtr(i)
    BY <1>2, <1>3 DEF OwnerTypes, EntryPtr
  <1>10. Allocated'
    BY <1>1, <1>2, <1>3, <1>4, <1>9 DEF Allocated, Distinct
  <1>11. Distinct'
    <2>1. h.ptr # NULL =>
            /\ \A i \in Slots : EntryPtr(i) # h.ptr
            /\ \A u \in Threads : rm_buffptr[u] # h.ptr /\ (u # t => buffptr[u] # h.ptr)
      BY <1>3, <1>4 DEF Allocated, Distinct
    <2> QED
      BY <1>1, <1>2, <1>3, <1>9, <2>1 DEF Distinct
  <1> QED
    BY <1>6, <1>7, <1>8, <1>10, <1>11

\* A call that returns and frees at most the block it owns itself.
LEMMA FreeOwnStep ==
  ASSUME OwnerInv, NEW t \in Threads, NEW ptrs \in SUBSET {buffptr[t], rm_buffptr[t]},
         pc[t] \in {"write_lock", "write_free"},
         Kfree(ptrs), Return(t),
         UNCHANGED << loaded, opened, buffer, part_mem_ptr, part_buf_size, buf_lock >>
  PROVE  OwnerInv'
  <1> USE AesdCharAssumption DEF OwnerInv
  <1>1. /\ pc' = [pc EXCEPT ![t] = "idle"]
        /\ rm_buffptr' = [rm_buffptr EXCEPT ![t] = NULL]
        /\ buffptr' = [buffptr EXCEPT ![t] = NULL]
        /\ allocated' = allocated \ ptrs
        /\ mem' = [b \in Blocks |-> IF b \in ptrs THEN << >> ELSE mem[b]]
    BY DEF Return, Goto, Kfree
  <1>2. OwnerTypes'
    <2>1. << >> \in Seq(Byte)
      BY EmptySeq
    <2> QED
      BY <1>1, <2>1 DEF OwnerTypes, PCs, Ptr
  <1>3. CallsNeedModule' /\ LockDiscipline' /\ LocalsLive' /\ FullMeansMet'
    BY <1>1 DEF OwnerTypes, CallsNeedModule, LockDiscipline, LocalsLive, Critical,
                Writing, FullMeansMet
  <1>4. RoomToMerge'
    <2>1. {u \in Threads : pc'[u] \in Writing} \subseteq {u \in Threads : pc[u] \in Writing}
      BY <1>1 DEF OwnerTypes, Writing
    <2> QED
      BY <1>1, <2>1, RoomAfterFree
  <1>5. /\ \A u \in Threads : buffptr'[u] = IF u = t THEN NULL ELSE buffptr[u]
        /\ \A u \in Threads : rm_buffptr'[u] = IF u = t THEN NULL ELSE rm_buffptr[u]
        /\ \A i \in Slots : EntryPtr(i)' = EntryPtr(i)
    BY <1>1 DEF OwnerTypes, EntryPtr
  <1>6. Allocated'
    BY <1>1, <1>5 DEF Allocated, Distinct
  <1>7. Distinct'
    BY <1>1, <1>5 DEF Distinct
  <1> QED
    BY <1>2, <1>3, <1>4, <1>6, <1>7

LEMMA FreeingActions ==
  ASSUME OwnerInv, NEW t \in Threads, WriteFree(t) \/ WriteInterrupted(t)
  PROVE  OwnerInv'
  <1>1. CASE WriteFree(t)
    BY <1>1, FreeOwnStep DEF WriteFree, device
  <1>2. CASE WriteInterrupted(t)
    BY <1>2, FreeOwnStep DEF WriteInterrupted, device
  <1> QED
    BY <1>1, <1>2

-----------------------------------------------------------------------------
\* Every step of the driver preserves the invariant.
LEMMA NextOwner == OwnerInv /\ [Next]_vars => OwnerInv'
  <1> SUFFICES ASSUME OwnerInv, [Next]_vars PROVE OwnerInv'
    OBVIOUS
  <1>1. CASE aesd_init_module \/ aesd_cleanup_module
    BY <1>1, ModuleStep
  <1>2. ASSUME NEW t \in Threads, Call(t) PROVE OwnerInv'
    BY <1>2, ModuleStep, WriteStartStep, QuietActions DEF Call
  <1>3. ASSUME NEW t \in Threads, Lock(t) \/ Run(t) PROVE OwnerInv'
    BY <1>3, QuietActions, WriteFullStep, WritePartialStep, FreeingActions DEF Run
  <1>4. ASSUME NEW t \in Threads, Signal(t) PROVE OwnerInv'
    BY <1>4, QuietActions, FreeingActions DEF Signal
  <1>5. CASE UNCHANGED vars
    BY <1>5 DEF vars, device, heap, locals, OwnerInv, OwnerTypes, CallsNeedModule,
                LockDiscipline, LocalsLive, FullMeansMet, RoomToMerge, Allocated,
                Distinct, EntryPtr
  <1> QED
    BY <1>1, <1>2, <1>3, <1>4, <1>5 DEF Next

\* The invariant holds in every state of the driver.
THEOREM OwnerInvariant == Spec => []OwnerInv
  BY InitOwner, NextOwner, PTL DEF Spec

\* Every block of the ring, of the partial write and of the writes under way
\* is allocated, whatever fails and however calls interleave: what aesd_read
\* copies to its caller and what the driver still frees is live memory.
THEOREM OwnedIsAllocatedTheorem == Spec => []OwnedIsAllocated
  BY OwnerInvariant, OwnerInvSuffices, PTL

\* No block has two owners, so that it is freed at most once.
THEOREM OneOwnerTheorem == Spec => []OneOwner
  BY OwnerInvariant, OwnerInvSuffices, PTL

-----------------------------------------------------------------------------
(***************************************************************************)
(* What the calls compute: positions, slots, and the bytes of a reply.     *)
(***************************************************************************)

Positions == f_pos \in [Threads -> Nat]

Locals ==
  /\ arg \in [Threads -> Int \X Int]
  /\ loff \in [Threads -> Nat]
  /\ rd_entry \in [Threads -> Slots]
  /\ rd_ptr \in [Threads -> Ptr]
  /\ reply \in [Threads -> Seq(Byte)]

\* The two numbers of an ioctl under way are unsigned.
SeekArgs ==
  \A t \in Threads : pc[t] \in {"ioctl_lock", "ioctl_crit"} => arg[t] \in Nat \X Nat

\* With OwnerInv, inductive: cb_size is the sum of the sizes of the entries,
\* modulo 2^IntBits.
CallInv == Positions /\ Locals /\ SeekArgs /\ CbExact(buffer)

\* The two invariants imply the type invariant of the runs.
LEMMA RingOfDriver ==
  ASSUME OwnerInv
  PROVE  /\ Offsets(buffer) /\ Sized(buffer) /\ DOMAIN buffer.entry = Slots
         /\ \A i \in Slots : buffer.entry[i].buffptr \in Ptr /\ buffer.entry[i].size \in Nat
  BY DEF OwnerInv, OwnerTypes, Rings, FullMeansMet, Offsets, Sized

LEMMA CallInvSuffices ==
  ASSUME OwnerInv, CallInv
  PROVE  TypeOK
  <1>1. buffer.cb_size \in 0 .. 2^IntBits - 1
    <2>1. PICK pre : Prefix(buffer, pre) /\ buffer.cb_size = pre[Count(buffer)] % 2^IntBits
      BY DEF CallInv, CbExact
    <2>2. Count(buffer) \in 0 .. Count(buffer)
      BY RingOfDriver, CountInRange
    <2>3. pre[Count(buffer)] \in Nat /\ 2^IntBits \in Nat \ {0}
      BY <2>1, <2>2, PowersAssumption DEF Prefix
    <2> QED
      BY <2>1, <2>3, ModAtMost
  <1>2. buffer \in [entry : [Slots -> [buffptr : Ptr, size : Nat]],
                    in_offs : Slots, out_offs : Slots, full : BOOLEAN,
                    cb_size : 0 .. 2^IntBits - 1]
    BY <1>1 DEF OwnerInv, OwnerTypes, Rings
  <1> QED
    BY <1>2 DEF TypeOK, OwnerInv, OwnerTypes, CallInv, Positions, Locals

\* The size of the empty ring is that of its entries.
LEMMA EmptyRingExact == CbExact(EmptyRing)
  <1>1. EmptyRing.in_offs = 0 /\ EmptyRing.out_offs = 0 /\ EmptyRing.full = FALSE
        /\ EmptyRing.cb_size = 0
    BY DEF EmptyRing
  <1>2. 0 \in Slots
    BY MaxOpsAssumption DEF Slots
  <1>3. Offsets(EmptyRing)
    BY <1>1, <1>2, Zenon DEF Offsets
  <1>4. IsEmpty(EmptyRing)
    BY <1>1, Zenon DEF IsEmpty
  <1> QED
    BY <1>1, <1>3, <1>4, CbExactOfEmpty

LEMMA InitCall == Init => CallInv
  <1> SUFFICES ASSUME Init PROVE CallInv
    OBVIOUS
  <1> USE DEF Init
  <1>1. Positions
    BY DEF Positions
  <1>2. Locals
    <2>1. << >> \in Seq(Byte)
      BY EmptySeq
    <2> QED
      BY <2>1, MaxOpsAssumption DEF Locals, Slots, Ptr
  <1>3. SeekArgs
    BY DEF SeekArgs
  <1>4. CbExact(buffer)
    BY EmptyRingExact
  <1> QED
    BY <1>1, <1>2, <1>3, <1>4 DEF CallInv

\* A call that returns forgets its locals.
LEMMA ReturnLocals ==
  ASSUME OwnerInv, CallInv, NEW t \in Threads, Return(t)
  PROVE  Locals' /\ SeekArgs'
  <1>1. << >> \in Seq(Byte) /\ 0 \in Slots /\ NULL \in Ptr
    BY EmptySeq, MaxOpsAssumption DEF Slots, Ptr
  <1>2. Locals'
    BY <1>1 DEF Return, CallInv, Locals
  <1>3. SeekArgs'
    BY DEF Return, Goto, CallInv, SeekArgs, Locals, OwnerInv, OwnerTypes
  <1> QED
    BY <1>2, <1>3

\* The lookup that aesd_read makes.
LEMMA ReadLookup ==
  ASSUME OwnerInv, CallInv, NEW t \in Threads, find_entry(buffer, loff[t]).found
  PROVE  LET r == find_entry(buffer, loff[t])
         IN  /\ r.slot \in Slots
             /\ buffer.entry[r.slot].size \in Nat
             /\ r.rel \in 0 .. buffer.entry[r.slot].size - 1
  <1>1. loff[t] \in Int
    BY DEF CallInv, Locals
  <1> QED
    BY <1>1, FindInRange, RingOfDriver

LEMMA ReadEntryCall ==
  ASSUME OwnerInv, CallInv, NEW t \in Threads, ReadEntry(t)
  PROVE  CallInv'
  <1> DEFINE r == find_entry(buffer, loff[t])
             e == buffer.entry[r.slot]
  <1>1. /\ r.found
        /\ \/ /\ \E s \in BytesAt(e.buffptr, e.size) :
                   reply' = [reply EXCEPT ![t] = SubSeq(s, r.rel + 1, e.size)]
              /\ loff' = [loff EXCEPT ![t] = @ + (e.size - r.rel)]
           \/ UNCHANGED << reply, loff >>
        /\ rd_entry' = [rd_entry EXCEPT ![t] = r.slot]
        /\ pc' = [pc EXCEPT ![t] = "read_load"]
        /\ UNCHANGED << f_pos, buffer, arg, rd_ptr >>
    BY DEF ReadEntry, Goto, device
  <1>2. r.slot \in Slots /\ e.size \in Nat /\ r.rel \in 0 .. e.size - 1
    BY <1>1, ReadLookup
  <1> HIDE DEF r, e
  <1>3. loff' \in [Threads -> Nat]
    <2>1. e.size - r.rel \in Nat
      BY <1>2
    <2>2. loff \in [Threads -> Nat]
      BY DEF CallInv, Locals
    <2>3. loff[t] + (e.size - r.rel) \in Nat
      BY <2>1, <2>2
    <2> QED
      BY <1>1, <2>2, <2>3
  <1>4. reply' \in [Threads -> Seq(Byte)]
    <2>1. ASSUME NEW s \in BytesAt(e.buffptr, e.size)
          PROVE  SubSeq(s, r.rel + 1, e.size) \in Seq(Byte)
      <3>1. s \in Seq(Byte)
        BY <1>2, SeqDef DEF BytesAt
      <3>2. Len(s) = e.size
        BY <1>2, <3>1, LenProperties DEF BytesAt
      <3> QED
        BY <1>2, <3>1, <3>2, SubSeqProperties
    <2> QED
      BY <1>1, <2>1 DEF CallInv, Locals
  <1>5. Locals'
    BY <1>1, <1>2, <1>3, <1>4 DEF CallInv, Locals
  <1>6. SeekArgs'
    BY <1>1 DEF CallInv, SeekArgs, OwnerInv, OwnerTypes
  <1> QED
    BY <1>1, <1>5, <1>6 DEF CallInv, Positions

\* The position that an accepted ioctl sets.
LEMMA IoctlSeekCall ==
  ASSUME OwnerInv, CallInv, NEW t \in Threads, IoctlSeek(t)
  PROVE  CallInv'
  <1> DEFINE r == adjust_file_offset(buffer, arg[t][1], arg[t][2])
  <1>1. /\ pc[t] = "ioctl_crit" /\ Return(t) /\ buffer' = buffer
        /\ f_pos' = [f_pos EXCEPT ![t] = IF r.ok THEN r.fpos ELSE @]
    BY DEF IoctlSeek, device
  <1>2. arg[t][1] \in Nat /\ arg[t][2] \in Nat
    BY <1>1 DEF CallInv, SeekArgs
  <1>3. r.fpos \in Nat
    <2>1. PICK pre : Prefix(buffer, pre)
      BY RingOfDriver, PrefixExists
    <2> DEFINE c == arg[t][1]
               o == arg[t][2]
    <2> HIDE DEF c, o
    <2>2. c \in Nat /\ o \in Nat
      BY <1>2 DEF c, o
    <2>3. adjust_file_offset(buffer, c, o) =
           IF IsEmpty(buffer) THEN [ok |-> TRUE, fpos |-> 0]
           ELSE IF c < Count(buffer) /\ buffer.entry[SlotOf(buffer, c)].size >= o
                THEN [ok |-> TRUE, fpos |-> pre[c] + o]
                ELSE SeekFailed
      BY <2>1, <2>2, RingOfDriver, SeekResult
    <2>4. c < Count(buffer) => pre[c] \in Nat
      <3>1. Count(buffer) \in Nat
        BY RingOfDriver, CountInRange
      <3> QED
        BY <2>1, <2>2, <3>1 DEF Prefix
    <2>5. adjust_file_offset(buffer, c, o).fpos \in Nat
      BY <2>2, <2>3, <2>4 DEF SeekFailed
    <2> QED
      BY <2>5 DEF c, o
  <1> HIDE DEF r
  <1>4. Positions'
    BY <1>1, <1>3 DEF CallInv, Positions
  <1> QED
    BY <1>1, <1>4, ReturnLocals DEF CallInv

\* A write adds an entry whose size is a natural number.
LEMMA WriteFullCall ==
  ASSUME OwnerInv, CallInv, NEW t \in Threads, WriteFull(t)
  PROVE  CallInv'
  <1> DEFINE count == Len(mem[buffptr[t]])
             size == wr_entry_size(count)
  <1>1. PICK h \in handle_partial_data(part_mem_ptr, part_buf_size, buffptr[t]) :
          buffer' = add_entry(buffer, [buffptr |-> h.ptr, size |-> size])
    BY DEF WriteFull
  <1>2. /\ pc[t] = "write_crit"
        /\ pc' = [pc EXCEPT ![t] = "write_free"]
        /\ loff' = [loff EXCEPT ![t] = @ + size]
        /\ UNCHANGED << f_pos, arg, rd_entry, rd_ptr, reply >>
    BY DEF WriteFull, Goto
  <1>3. size \in Nat
    <2>1. mem[buffptr[t]] \in Seq(Byte)
      BY <1>2 DEF OwnerInv, OwnerTypes, LocalsLive, Writing, Allocated
    <2>2. count \in Nat
      BY <2>1, LenProperties
    <2> QED
      BY <2>2 DEF wr_entry_size, OwnerInv, OwnerTypes
  <1> HIDE DEF size
  <1> DEFINE e == [buffptr |-> h.ptr, size |-> size]
  <1>4. CbExact(buffer')
    <2>1. e.size \in Nat
      BY <1>3
    <2> HIDE DEF e
    <2>2. CbExact(add_entry(buffer, e))
      BY <2>1, RingOfDriver, CbExactAdd DEF CallInv
    <2> QED
      BY <1>1, <2>2 DEF e
  <1>5. Locals'
    BY <1>2, <1>3 DEF CallInv, Locals
  <1>6. SeekArgs'
    BY <1>2 DEF CallInv, SeekArgs, OwnerInv, OwnerTypes
  <1> QED
    BY <1>2, <1>4, <1>5, <1>6 DEF CallInv, Positions

\* The steps that start a call, move one on or make it return.
LEMMA OtherCalls ==
  ASSUME OwnerInv, CallInv, NEW t \in Threads,
         \/ aesd_open(t) \/ aesd_release(t)
         \/ \E data \in Payloads : WriteStart(t, data)
         \/ ReadStart(t)
         \/ \E s \in Seeks : LlseekStart(t, s[1], s[2])
         \/ \E c \in Commands : IoctlStart(t, c[1], c[2])
         \/ Lock(t)
         \/ WriteFree(t) \/ WritePartial(t) \/ WriteInterrupted(t)
         \/ ReadNothing(t) \/ ReadLoad(t) \/ ReadPrint(t)
         \/ LlseekSize(t) \/ LlseekSet(t) \/ Interrupted(t)
  PROVE  CallInv'
  <1> USE DEF device, heap, locals
  <1>0. /\ f_pos \in [Threads -> Nat] /\ loff \in [Threads -> Nat]
        /\ pc \in [Threads -> PCs] /\ arg \in [Threads -> Int \X Int]
    BY DEF CallInv, Positions, Locals, OwnerInv, OwnerTypes
  <1>1. CASE aesd_open(t) \/ aesd_release(t)
    <2>1. UNCHANGED << buffer, pc, arg, loff, rd_entry, rd_ptr, reply >>
      BY <1>1 DEF aesd_open, aesd_release
    <2>2. f_pos' \in [Threads -> Nat]
      BY <1>0, <1>1 DEF aesd_open, aesd_release
    <2> QED
      BY <2>1, <2>2 DEF CallInv, Positions, Locals, SeekArgs
  <1>2. CASE ReadStart(t) \/ \E data \in Payloads : WriteStart(t, data)
    <2>1. /\ loff' = [loff EXCEPT ![t] = f_pos[t]]
          /\ pc'[t] \in {"read_lock", "write_lock"}
          /\ \A u \in Threads \ {t} : pc'[u] = pc[u]
          /\ UNCHANGED << f_pos, buffer, arg, rd_entry, rd_ptr, reply >>
      BY <1>0, <1>2 DEF ReadStart, WriteStart, Goto
    <2> QED
      BY <1>0, <2>1 DEF CallInv, Positions, Locals, SeekArgs
  <1>3. CASE \E s \in Seeks : LlseekStart(t, s[1], s[2])
    <2>1. PICK s \in Seeks : LlseekStart(t, s[1], s[2])
      BY <1>3
    <2>2. s[1] \in Int /\ s[2] \in Int
      BY AesdCharAssumption
    <2>3. /\ arg' = [arg EXCEPT ![t] = << s[1], s[2] >>]
          /\ pc' = [pc EXCEPT ![t] = "llseek_lock"]
          /\ UNCHANGED << f_pos, buffer, loff, rd_entry, rd_ptr, reply >>
      BY <2>1 DEF LlseekStart, Goto
    <2>4. arg' \in [Threads -> Int \X Int]
      BY <1>0, <2>2, <2>3
    <2> QED
      BY <1>0, <2>3, <2>4 DEF CallInv, Positions, Locals, SeekArgs
  <1>4. CASE \E c \in Commands : IoctlStart(t, c[1], c[2])
    <2>1. PICK c \in Commands : IoctlStart(t, c[1], c[2])
      BY <1>4
    <2>2. c[1] \in Nat /\ c[2] \in Nat
      BY AesdCharAssumption
    <2>3. /\ arg' = [arg EXCEPT ![t] = << c[1], c[2] >>]
          /\ pc' = [pc EXCEPT ![t] = "ioctl_lock"]
          /\ UNCHANGED << f_pos, buffer, loff, rd_entry, rd_ptr, reply >>
      BY <2>1 DEF IoctlStart, Goto
    <2>4. arg' \in [Threads -> Int \X Int] /\ arg'[t] \in Nat \X Nat
      BY <1>0, <2>2, <2>3
    <2> QED
      BY <1>0, <2>3, <2>4 DEF CallInv, Positions, Locals, SeekArgs
  <1>5. CASE Lock(t)
    <2>1. /\ pc[t] \in LockPoints /\ pc' = [pc EXCEPT ![t] = CriticalSection(pc[t])]
          /\ UNCHANGED << f_pos, buffer, arg, loff, rd_entry, rd_ptr, reply >>
      BY <1>5 DEF Lock
    <2>2. CriticalSection(pc[t]) = "ioctl_crit" => pc[t] = "ioctl_lock"
      BY <2>1 DEF LockPoints, CriticalSection
    <2>3. SeekArgs'
      BY <1>0, <2>1, <2>2 DEF CallInv, SeekArgs, LockPoints, CriticalSection
    <2> QED
      BY <2>1, <2>3 DEF CallInv, Positions, Locals
  <1>6. CASE WriteFree(t) \/ ReadPrint(t)
    <2>1. Return(t) /\ f_pos' = [f_pos EXCEPT ![t] = loff[t]] /\ buffer' = buffer
      BY <1>6 DEF WriteFree, ReadPrint
    <2> QED
      BY <1>0, <2>1, ReturnLocals DEF CallInv, Positions
  <1>7. CASE WritePartial(t) \/ WriteInterrupted(t) \/ ReadNothing(t) \/ Interrupted(t)
    <2>1. Return(t) /\ f_pos' = f_pos /\ buffer' = buffer
      BY <1>7 DEF WritePartial, WriteInterrupted, ReadNothing, Interrupted
    <2> QED
      BY <2>1, ReturnLocals DEF CallInv, Positions
  <1>8. CASE ReadLoad(t)
    <2>1. /\ rd_ptr' = [rd_ptr EXCEPT ![t] = buffer.entry[rd_entry[t]].buffptr]
          /\ pc' = [pc EXCEPT ![t] = "read_print"]
          /\ UNCHANGED << f_pos, buffer, arg, loff, rd_entry, reply >>
      BY <1>8 DEF ReadLoad, Goto
    <2>2. buffer.entry[rd_entry[t]].buffptr \in Ptr
      BY RingOfDriver DEF CallInv, Locals
    <2> QED
      BY <1>0, <2>1, <2>2 DEF CallInv, Positions, Locals, SeekArgs
  <1>9. CASE LlseekSize(t)
    <2>1. /\ loff' = [loff EXCEPT ![t] = buffer.cb_size]
          /\ pc' = [pc EXCEPT ![t] = "llseek_set"]
          /\ UNCHANGED << f_pos, buffer, arg, rd_entry, rd_ptr, reply >>
      BY <1>9 DEF LlseekSize, Goto
    <2>2. buffer.cb_size \in Nat
      BY CallInvSuffices, PowersAssumption DEF TypeOK
    <2> QED
      BY <1>0, <2>1, <2>2 DEF CallInv, Positions, Locals, SeekArgs
  <1>10. CASE LlseekSet(t)
    <2> DEFINE to == fixed_size_llseek(f_pos[t], arg[t][2], arg[t][1], loff[t])
    <2>1. Return(t) /\ f_pos' = [f_pos EXCEPT ![t] = to] /\ buffer' = buffer
      BY <1>10 DEF LlseekSet
    <2>2. to \in 0 .. loff[t] \/ to = f_pos[t]
      BY DEF fixed_size_llseek
    <2>3. to \in Nat
      BY <1>0, <2>2
    <2> HIDE DEF to
    <2> QED
      BY <1>0, <2>1, <2>3, ReturnLocals DEF CallInv, Positions
  <1> QED
    BY <1>1, <1>2, <1>3, <1>4, <1>5, <1>6, <1>7, <1>8, <1>9, <1>10

\* Loading the module empties the ring; unloading it leaves the ring alone.
LEMMA ModuleCall ==
  ASSUME CallInv, aesd_init_module \/ aesd_cleanup_module
  PROVE  CallInv'
  <1>1. UNCHANGED << f_pos, pc, arg, loff, rd_entry, rd_ptr, reply >>
    BY DEF aesd_init_module, aesd_cleanup_module, locals
  <1>2. CbExact(buffer')
    <2>1. CASE aesd_init_module
      BY <2>1, EmptyRingExact DEF aesd_init_module
    <2>2. CASE aesd_cleanup_module
      BY <2>2 DEF aesd_cleanup_module, device, CallInv
    <2> QED
      BY <2>1, <2>2
  <1> QED
    BY <1>1, <1>2 DEF CallInv, Positions, Locals, SeekArgs

LEMMA NextCall == OwnerInv /\ CallInv /\ [Next]_vars => CallInv'
  <1> SUFFICES ASSUME OwnerInv, CallInv, [Next]_vars PROVE CallInv'
    OBVIOUS
  <1>1. CASE aesd_init_module \/ aesd_cleanup_module
    BY <1>1, ModuleCall
  <1>2. ASSUME NEW t \in Threads, Call(t) PROVE CallInv'
    BY <1>2, OtherCalls DEF Call
  <1>3. ASSUME NEW t \in Threads, Lock(t) \/ Run(t) PROVE CallInv'
    BY <1>3, OtherCalls, WriteFullCall, ReadEntryCall, IoctlSeekCall DEF Run
  <1>4. ASSUME NEW t \in Threads, Signal(t) PROVE CallInv'
    BY <1>4, OtherCalls DEF Signal
  <1>5. CASE UNCHANGED vars
    BY <1>5 DEF vars, device, locals, CallInv, Positions, Locals, SeekArgs
  <1> QED
    BY <1>1, <1>2, <1>3, <1>4, <1>5 DEF Next

\* The invariant of the calls holds in every state of the driver.
THEOREM CallInvariant == Spec => []CallInv
  <1>1. Init => CallInv
    BY InitCall
  <1>2. OwnerInv /\ CallInv /\ [Next]_vars => CallInv'
    BY NextCall
  <1> QED
    BY <1>1, <1>2, OwnerInvariant, PTL DEF Spec

\* The offsets of the ring index the entry array, cb_size is a uint32_t, the
\* positions never go below zero, and every pointer is a block or NULL.
THEOREM DriverTypes == Spec => []TypeOK
  BY OwnerInvariant, CallInvariant, CallInvSuffices, PTL

-----------------------------------------------------------------------------
(***************************************************************************)
(* What the blocks hold.                                                   *)
(***************************************************************************)

\* Until it is full the ring fills from slot 0, and the slots it has not
\* used yet hold NULL.
Fills(b) ==
  ~b.full => /\ b.out_offs = 0
             /\ \A i \in Slots : i >= b.in_offs => b.entry[i].buffptr = NULL

Used(i) == buffer.full \/ i < buffer.in_offs

SlotsStored ==
  loaded => \A i \in Slots :
              Used(i) => EntryPtr(i) # NULL /\ Len(mem[EntryPtr(i)]) = buffer.entry[i].size

\* SizesMatch slot by slot; with OwnerInv, inductive while kmalloc succeeds.
StoredInv == SlotsStored /\ PartialSizeIsStored

LEMMA FillsEmpty == Fills(EmptyRing)
  <1>1. /\ EmptyRing.in_offs = 0 /\ EmptyRing.out_offs = 0
        /\ \A i \in Slots : EmptyRing.entry[i].buffptr = NULL
    BY DEF EmptyRing, NoEntry
  <1> QED
    BY <1>1 DEF Fills

LEMMA FillsAdd ==
  ASSUME NEW b, NEW e, Offsets(b), DOMAIN b.entry = Slots, Fills(b)
  PROVE  Fills(add_entry(b, e))
  <1> DEFINE c == add_entry(b, e)
  <1>1. /\ c.in_offs = nextPtr(b.in_offs)
        /\ b.full => c.full
        /\ ~b.full => c.out_offs = b.out_offs /\ (c.full <=> nextPtr(b.in_offs) = b.out_offs)
        /\ c.entry = [b.entry EXCEPT ![b.in_offs] = e]
    BY AddOffsets
  <1> HIDE DEF c
  <1>2. SUFFICES ASSUME ~c.full
                 PROVE  /\ c.out_offs = 0
                        /\ \A i \in Slots : i >= c.in_offs => c.entry[i].buffptr = NULL
    BY <1>2 DEF Fills, c
  <1>3. /\ ~b.full /\ b.out_offs = 0 /\ nextPtr(b.in_offs) # 0
        /\ \A i \in Slots : i >= b.in_offs => b.entry[i].buffptr = NULL
    BY <1>1, <1>2 DEF Fills
  <1>4. b.in_offs \in Slots /\ c.in_offs = b.in_offs + 1
    BY <1>1, <1>3 DEF Offsets, nextPtr
  <1>5. ASSUME NEW i \in Slots, i >= c.in_offs PROVE c.entry[i].buffptr = NULL
    <2>1. i >= b.in_offs /\ i # b.in_offs
      BY <1>4, <1>5 DEF Slots
    <2> QED
      BY <1>1, <1>3, <2>1
  <1> QED
    BY <1>1, <1>3, <1>5

\* The live slots are the used ones.
LEMMA LiveIsUsed ==
  ASSUME NEW b, Offsets(b), Fills(b)
  PROVE  /\ \A k \in 0 .. Count(b) - 1 :
              SlotOf(b, k) \in Slots /\ (b.full \/ SlotOf(b, k) < b.in_offs)
         /\ \A i \in Slots : (b.full \/ i < b.in_offs) =>
              \E k \in 0 .. Count(b) - 1 : SlotOf(b, k) = i
  <1>1. CASE b.full
    <2>1. Count(b) = MaxOps
      BY <1>1 DEF Count
    <2>2. ASSUME NEW i \in Slots PROVE \E k \in 0 .. MaxOps - 1 : SlotOf(b, k) = i
      <3> DEFINE k == IF i >= b.out_offs THEN i - b.out_offs ELSE i - b.out_offs + MaxOps
      <3>1. k \in 0 .. MaxOps - 1 /\ SlotOf(b, k) = i
        BY MaxOpsAssumption DEF SlotOf, Slots, Offsets
      <3> QED
        BY <3>1
    <2> QED
      BY <1>1, <2>1, <2>2, CountInRange
  <1>2. CASE ~b.full
    <2>1. b.out_offs = 0 /\ Count(b) = b.in_offs
      BY <1>2, MaxOpsAssumption DEF Fills, Count, Offsets, Slots
    <2>2. \A k \in Slots : SlotOf(b, k) = k
      BY <2>1, MaxOpsAssumption DEF SlotOf, Slots
    <2> QED
      BY <1>2, <2>1, <2>2, MaxOpsAssumption DEF Offsets, Slots
  <1> QED
    BY <1>1, <1>2

\* The two facts imply the invariant of the run.
LEMMA StoredSuffices ==
  ASSUME OwnerInv, Fills(buffer), StoredInv
  PROVE  SizesMatch
  <1> SUFFICES ASSUME loaded, NEW k \in 1 .. Count(buffer)
               PROVE  /\ Contents(buffer)[k].buffptr # NULL
                      /\ Len(mem[Contents(buffer)[k].buffptr]) = Contents(buffer)[k].size
    BY DEF SizesMatch, EntrySizeIsStored, StoredInv
  <1> DEFINE i == SlotOf(buffer, k - 1)
  <1>1. Count(buffer) \in Nat
    BY RingOfDriver, CountInRange
  <1>2. k - 1 \in 0 .. Count(buffer) - 1
    BY <1>1
  <1>3. i \in Slots /\ Used(i)
    BY <1>2, RingOfDriver, LiveIsUsed DEF Used
  <1>4. Contents(buffer)[k] = buffer.entry[i]
    BY DEF Contents
  <1> QED
    BY <1>3, <1>4 DEF StoredInv, SlotsStored, EntryPtr

\* The bytes that wait for a newline.
Waiting == IF part_mem_ptr = NULL THEN << >> ELSE mem[part_mem_ptr]

\* What handle_partial_data returns while kmalloc succeeds: the waiting bytes
\* followed by the new ones.  It touches no other block that is in use.
LEMMA MergedData ==
  ASSUME OwnerInv, ~AllocMayFail, PartialSizeIsStored, NEW t \in Threads, pc[t] = "write_crit",
         NEW h \in handle_partial_data(part_mem_ptr, part_buf_size, buffptr[t])
  PROVE  /\ h.ptr # NULL
         /\ h.mem[h.ptr] = Waiting \o mem[buffptr[t]]
         /\ \A b \in allocated \ {part_mem_ptr} : h.mem[b] = mem[b]
         /\ Waiting \in Seq(Byte) /\ Len(Waiting) = part_buf_size
         /\ mem[buffptr[t]] \in Seq(Byte)
  <1> USE AesdCharAssumption DEF OwnerInv
  <1>1. buffptr[t] \in allocated /\ buffptr[t] # NULL /\ loaded
    BY DEF LocalsLive, Writing, Allocated, CallsNeedModule
  <1>2. mem[buffptr[t]] \in Seq(Byte)
    BY <1>1 DEF OwnerTypes
  <1>3. Waiting \in Seq(Byte) /\ Len(Waiting) = part_buf_size
    <2>1. CASE part_mem_ptr = NULL
      <3>1. Waiting = << >> /\ part_buf_size = 0
        BY <1>1, <2>1 DEF Waiting, PartialSizeIsStored
      <3> QED
        BY <3>1, EmptySeq
    <2>2. CASE part_mem_ptr # NULL
      BY <1>1, <2>2 DEF Waiting, PartialSizeIsStored, OwnerTypes, Ptr
    <2> QED
      BY <2>1, <2>2
  <1>4. CASE part_mem_ptr = NULL
    <2>1. h = [ptr |-> buffptr[t], allocated |-> allocated, mem |-> mem]
      BY <1>4 DEF handle_partial_data
    <2>2. Waiting \o mem[buffptr[t]] = mem[buffptr[t]]
      BY <1>2, <1>4, ConcatEmptySeq DEF Waiting
    <2> QED
      BY <1>1, <1>2, <1>3, <2>1, <2>2
  <1>5. CASE part_mem_ptr # NULL
    <2>1. PICK s \in BytesAt(part_mem_ptr, part_buf_size) :
            h = [ptr       |-> kmalloc,
                 allocated |-> (allocated \union {kmalloc}) \ {part_mem_ptr},
                 mem       |-> [mem EXCEPT ![kmalloc] = s \o mem[buffptr[t]],
                                           ![part_mem_ptr] = << >>]]
      BY <1>5 DEF handle_partial_data
    <2>2. part_mem_ptr \in allocated /\ part_mem_ptr \in Blocks
      BY <1>1, <1>5 DEF Allocated, OwnerTypes
    <2>3. kmalloc \in Blocks /\ kmalloc \notin allocated
      BY KmallocInMerge DEF Writing
    <2>4. s = mem[part_mem_ptr]
      <3>1. /\ part_buf_size \in Nat /\ part_buf_size = Len(mem[part_mem_ptr])
            /\ mem[part_mem_ptr] \in Seq(Byte)
        BY <1>1, <1>5, <2>2 DEF PartialSizeIsStored, OwnerTypes
      <3>2. s \in [1 .. part_buf_size -> Byte]
            /\ \A k \in 1 .. part_buf_size : s[k] = mem[part_mem_ptr][k]
        BY <3>1 DEF BytesAt
      <3>3. s \in Seq(Byte) /\ Len(s) = part_buf_size
        BY <3>1, <3>2, SeqDef, LenProperties
      <3> QED
        BY <3>1, <3>2, <3>3, SeqEqual
    <2>5. h.mem[kmalloc] = s \o mem[buffptr[t]]
      BY <2>1, <2>2, <2>3 DEF OwnerTypes
    <2>6. \A b \in allocated \ {part_mem_ptr} : h.mem[b] = mem[b]
      BY <2>1, <2>2, <2>3 DEF OwnerTypes
    <2>7. h.ptr = kmalloc /\ kmalloc # NULL
      BY <2>1, <2>3
    <2> QED
      BY <1>2, <1>3, <1>5, <2>4, <2>5, <2>6, <2>7 DEF Waiting
  <1> QED
    BY <1>4, <1>5

\* A step that leaves the device and the blocks it refers to alone.
LEMMA StoredKept ==
  ASSUME OwnerInv, StoredInv,
         UNCHANGED << loaded, buffer, part_mem_ptr, part_buf_size >>,
         loaded => \A i \in Slots : EntryPtr(i) # NULL => mem'[EntryPtr(i)] = mem[EntryPtr(i)],
         loaded /\ part_mem_ptr # NULL => mem'[part_mem_ptr] = mem[part_mem_ptr]
  PROVE  StoredInv'
  <1>1. SlotsStored'
    BY DEF StoredInv, SlotsStored, Used, EntryPtr
  <1>2. PartialSizeIsStored'
    BY DEF StoredInv, PartialSizeIsStored
  <1> QED
    BY <1>1, <1>2 DEF StoredInv

\* The steps that allocate or free memory of a call, not of the device.
LEMMA OwnMemory ==
  ASSUME OwnerInv, NEW t \in Threads,
         \/ \E data \in Payloads : WriteStart(t, data)
         \/ WriteFree(t) \/ WriteInterrupted(t)
  PROVE  \A b \in allocated : b # buffptr[t] /\ b # rm_buffptr[t] => mem'[b] = mem[b]
  <1>1. CASE \E data \in Payloads : WriteStart(t, data)
    <2>1. PICK data \in Payloads : WriteStart(t, data)
      BY <1>1
    <2>2. PICK copied \in CopiedFromUser(data) : mem' = [mem EXCEPT ![kmalloc] = copied]
      BY <2>1 DEF WriteStart
    <2>3. kmalloc \notin allocated
      BY <2>1, KmallocInWrite DEF WriteStart
    <2> QED
      BY <2>2, <2>3 DEF OwnerInv, OwnerTypes
  <1>2. CASE WriteFree(t) \/ WriteInterrupted(t)
    <2>1. \E ptrs \in SUBSET {buffptr[t], rm_buffptr[t]} : Kfree(ptrs)
      BY <1>2 DEF WriteFree, WriteInterrupted
    <2> QED
      BY <2>1 DEF Kfree, OwnerInv, OwnerTypes
  <1> QED
    BY <1>1, <1>2

LEMMA OwnMemoryStored ==
  ASSUME OwnerInv, StoredInv, NEW t \in Threads,
         \/ \E data \in Payloads : WriteStart(t, data)
         \/ WriteFree(t) \/ WriteInterrupted(t)
  PROVE  StoredInv'
  <1>1. UNCHANGED << loaded, buffer, part_mem_ptr, part_buf_size >>
    BY DEF WriteStart, WriteFree, WriteInterrupted, device
  <1>2. \A b \in allocated : b # buffptr[t] /\ b # rm_buffptr[t] => mem'[b] = mem[b]
    BY OwnMemory
  <1>3. loaded => \A i \in Slots : EntryPtr(i) # NULL => mem'[EntryPtr(i)] = mem[EntryPtr(i)]
    BY <1>2 DEF OwnerInv, Allocated, Distinct
  <1>4. loaded /\ part_mem_ptr # NULL => mem'[part_mem_ptr] = mem[part_mem_ptr]
    BY <1>2 DEF OwnerInv, Allocated, Distinct
  <1> QED
    BY <1>1, <1>3, <1>4, StoredKept

LEMMA ConcatLength ==
  ASSUME NEW S, NEW s \in Seq(S), NEW u \in Seq(S)
  PROVE  s \o u \in Seq(S) /\ Len(s \o u) = Len(s) + Len(u)
  BY ConcatProperties

\* The new entry is as long as the data it points to.
LEMMA WriteFullStored ==
  ASSUME OwnerInv, Fills(buffer), StoredInv, ~AllocMayFail, NEW t \in Threads, WriteFull(t)
  PROVE  StoredInv'
  <1> DEFINE count == Len(mem[buffptr[t]])
             size == wr_entry_size(count)
             in == buffer.in_offs
  <1>1. PICK h \in handle_partial_data(part_mem_ptr, part_buf_size, buffptr[t]) :
          /\ mem' = h.mem
          /\ buffer' = add_entry(buffer, [buffptr |-> h.ptr, size |-> size])
    BY DEF WriteFull
  <1> DEFINE e == [buffptr |-> h.ptr, size |-> size]
  <1>2. /\ pc[t] = "write_crit"
        /\ part_mem_ptr' = NULL
        /\ part_buf_size' = IF part_mem_ptr # NULL THEN 0 ELSE part_buf_size
        /\ loaded' = loaded /\ loaded
    BY DEF WriteFull, ResetPartial, OwnerInv, CallsNeedModule
  <1>3. /\ h.ptr # NULL
        /\ h.mem[h.ptr] = Waiting \o mem[buffptr[t]]
        /\ \A b \in allocated \ {part_mem_ptr} : h.mem[b] = mem[b]
        /\ Waiting \in Seq(Byte) /\ Len(Waiting) = part_buf_size
        /\ mem[buffptr[t]] \in Seq(Byte)
    BY <1>2, MergedData DEF StoredInv
  <1>4. Len(h.mem[h.ptr]) = size
    <2>1. count \in Nat /\ part_buf_size \in Nat
      BY <1>3, LenProperties DEF OwnerInv, OwnerTypes
    <2>2. Len(h.mem[h.ptr]) = part_buf_size + count
      BY <1>3, ConcatLength
    <2>3. part_mem_ptr = NULL => part_buf_size = 0
      BY <1>2 DEF StoredInv, PartialSizeIsStored
    <2> HIDE DEF count
    <2> QED
      BY <2>1, <2>2, <2>3 DEF wr_entry_size
  <1> HIDE DEF size
  <1>5. /\ in \in Slots
        /\ buffer'.entry = [buffer.entry EXCEPT ![in] = e]
        /\ buffer'.in_offs = nextPtr(in)
        /\ buffer'.full <=> (buffer.full \/ nextPtr(in) = buffer.out_offs)
    BY <1>1, RingOfDriver DEF add_entry, Offsets
  <1>6. /\ buffer'.entry[in] = e
        /\ \A i \in Slots \ {in} : buffer'.entry[i] = buffer.entry[i]
    <2> HIDE DEF e
    <2> QED
      BY <1>5, RingOfDriver
  <1>7. e.buffptr = h.ptr /\ e.size = size
    OBVIOUS
  <1> HIDE DEF e
  <1>8. ASSUME NEW i \in Slots, Used(i)', i # in
        PROVE  Used(i)
    <2>1. CASE buffer.full
      BY <2>1 DEF Used
    <2>2. CASE ~buffer.full /\ nextPtr(in) = buffer.out_offs
      <3>1. in = MaxOps - 1
        <4>1. nextPtr(in) = 0 /\ in \in Slots
          BY <1>5, <2>2 DEF Fills
        <4> HIDE DEF in
        <4> QED
          BY <4>1, MaxOpsAssumption DEF nextPtr, Slots
      <3> QED
        BY <1>8, <3>1, MaxOpsAssumption DEF Used, Slots
    <2>3. CASE ~buffer.full /\ nextPtr(in) # buffer.out_offs
      <3>1. i < nextPtr(in)
        BY <1>5, <1>8, <2>3 DEF Used
      <3> QED
        BY <1>5, <1>8, <3>1 DEF Used, Slots, nextPtr
    <2> QED
      BY <2>1, <2>2, <2>3
  <1>9. SlotsStored'
    <2> SUFFICES ASSUME NEW i \in Slots, Used(i)'
                 PROVE  /\ buffer'.entry[i].buffptr # NULL
                        /\ Len(mem'[buffer'.entry[i].buffptr]) = buffer'.entry[i].size
      BY DEF SlotsStored, EntryPtr
    <2>1. CASE i = in
      BY <1>1, <1>3, <1>4, <1>6, <1>7, <2>1
    <2>2. CASE i # in
      <3>1. /\ EntryPtr(i) # NULL /\ Len(mem[EntryPtr(i)]) = buffer.entry[i].size
        BY <1>2, <1>8, <2>2 DEF StoredInv, SlotsStored
      <3>2. EntryPtr(i) \in allocated /\ EntryPtr(i) # part_mem_ptr
        BY <1>2, <3>1 DEF OwnerInv, Allocated, Distinct
      <3>3. mem'[EntryPtr(i)] = mem[EntryPtr(i)]
        BY <1>1, <1>3, <3>2
      <3>4. buffer'.entry[i] = buffer.entry[i]
        BY <1>6, <2>2
      <3> QED
        BY <3>1, <3>3, <3>4 DEF EntryPtr
    <2> QED
      BY <2>1, <2>2
  <1>10. PartialSizeIsStored'
    BY <1>2 DEF StoredInv, PartialSizeIsStored
  <1> QED
    BY <1>9, <1>10 DEF StoredInv

\* part_buf_size counts the bytes that wait, those of this write included.
LEMMA WritePartialStored ==
  ASSUME OwnerInv, StoredInv, ~AllocMayFail, NEW t \in Threads, WritePartial(t)
  PROVE  StoredInv'
  <1>1. PICK h \in handle_partial_data(part_mem_ptr, part_buf_size, buffptr[t]) :
          /\ mem' = h.mem
          /\ part_mem_ptr' = h.ptr
    BY DEF WritePartial
  <1>2. /\ pc[t] = "write_crit"
        /\ part_buf_size' = part_buf_size + Len(mem[buffptr[t]])
        /\ loaded' = loaded /\ loaded
        /\ buffer' = buffer
    BY DEF WritePartial, OwnerInv, CallsNeedModule
  <1>3. /\ h.ptr # NULL
        /\ h.mem[h.ptr] = Waiting \o mem[buffptr[t]]
        /\ \A b \in allocated \ {part_mem_ptr} : h.mem[b] = mem[b]
        /\ Waiting \in Seq(Byte) /\ Len(Waiting) = part_buf_size
        /\ mem[buffptr[t]] \in Seq(Byte)
    BY <1>2, MergedData DEF StoredInv
  <1>4. Len(h.mem[h.ptr]) = part_buf_size + Len(mem[buffptr[t]])
    BY <1>3, ConcatLength
  <1>5. SlotsStored'
    <2> SUFFICES ASSUME NEW i \in Slots, Used(i)
                 PROVE  EntryPtr(i) # NULL /\ Len(mem'[EntryPtr(i)]) = buffer.entry[i].size
      BY <1>2 DEF SlotsStored, Used, EntryPtr
    <2>1. EntryPtr(i) # NULL /\ Len(mem[EntryPtr(i)]) = buffer.entry[i].size
      BY <1>2 DEF StoredInv, SlotsStored
    <2>2. EntryPtr(i) \in allocated /\ EntryPtr(i) # part_mem_ptr
      BY <1>2, <2>1 DEF OwnerInv, Allocated, Distinct
    <2> QED
      BY <1>1, <1>3, <2>1, <2>2
  <1>6. PartialSizeIsStored'
    BY <1>1, <1>2, <1>3, <1>4 DEF PartialSizeIsStored
  <1> QED
    BY <1>5, <1>6 DEF StoredInv

\* The ring fills in order, whatever is added to it.
LEMMA NextFills == OwnerInv /\ Fills(buffer) /\ [Next]_vars => Fills(buffer)'
  <1> SUFFICES ASSUME OwnerInv, Fills(buffer), [Next]_vars PROVE Fills(buffer')
    OBVIOUS
  <1>1. CASE aesd_init_module
    BY <1>1, FillsEmpty DEF aesd_init_module
  <1>2. CASE \E t \in Threads : WriteFull(t)
    BY <1>2, RingOfDriver, FillsAdd DEF WriteFull
  <1>3. CASE buffer' = buffer
    BY <1>3
  <1>4. CASE UNCHANGED vars
    BY <1>4 DEF vars, device
  <1>5. CASE aesd_cleanup_module
    BY <1>5 DEF aesd_cleanup_module, device
  <1>6. ASSUME NEW t \in Threads, Call(t) \/ Lock(t) \/ Signal(t)
        PROVE  buffer' = buffer
    BY <1>6 DEF Call, Lock, Signal, aesd_open, aesd_release, WriteStart, ReadStart,
                LlseekStart, IoctlStart, WriteInterrupted, Interrupted, device
  <1>7. ASSUME NEW t \in Threads, Run(t), ~WriteFull(t)
        PROVE  buffer' = buffer
    BY <1>7 DEF Run, WriteFree, WritePartial, ReadNothing, ReadEntry, ReadLoad, ReadPrint,
                LlseekSize, LlseekSet, IoctlSeek, device
  <1> QED
    BY <1>1, <1>2, <1>3, <1>4, <1>5, <1>6, <1>7 DEF Next

\* The steps that leave the device and the heap alone.
LEMMA QuietLeavesHeap ==
  ASSUME NEW t \in Threads,
         \/ aesd_open(t) \/ aesd_release(t) \/ Lock(t) \/ ReadStart(t)
         \/ \E s \in Seeks : LlseekStart(t, s[1], s[2])
         \/ \E c \in Commands : IoctlStart(t, c[1], c[2])
         \/ ReadNothing(t) \/ ReadEntry(t) \/ ReadLoad(t) \/ ReadPrint(t)
         \/ LlseekSize(t) \/ LlseekSet(t) \/ IoctlSeek(t) \/ Interrupted(t)
  PROVE  UNCHANGED << loaded, buffer, part_mem_ptr, part_buf_size, allocated, mem >>
  BY DEF aesd_open, aesd_release, Lock, ReadStart, LlseekStart, IoctlStart, ReadNothing,
         ReadEntry, ReadLoad, ReadPrint, LlseekSize, LlseekSet, IoctlSeek, Interrupted,
         device, heap

LEMMA NextStored ==
  ASSUME OwnerInv, Fills(buffer), StoredInv, ~AllocMayFail, [Next]_vars
  PROVE  StoredInv'
  <1>1. CASE aesd_init_module
    <2>1. /\ buffer'.in_offs = 0 /\ buffer'.full = FALSE
          /\ part_mem_ptr' = NULL /\ part_buf_size' = 0
      BY <1>1 DEF aesd_init_module, EmptyRing
    <2>2. \A i \in Slots : ~Used(i)'
      BY <2>1, MaxOpsAssumption DEF Used, Slots
    <2> QED
      BY <2>1, <2>2 DEF StoredInv, SlotsStored, PartialSizeIsStored
  <1>2. CASE aesd_cleanup_module
    BY <1>2 DEF aesd_cleanup_module, StoredInv, SlotsStored, PartialSizeIsStored
  <1>3. CASE UNCHANGED << loaded, buffer, part_mem_ptr, part_buf_size, allocated, mem >>
    BY <1>3, StoredKept
  <1>4. CASE UNCHANGED vars
    BY <1>3, <1>4 DEF vars, device, heap
  <1>5. ASSUME NEW t \in Threads, Call(t) \/ Lock(t) \/ Run(t) \/ Signal(t) PROVE StoredInv'
    BY <1>3, <1>5, QuietLeavesHeap, OwnMemoryStored, WriteFullStored, WritePartialStored
      DEF Call, Run, Signal
  <1> QED
    BY <1>1, <1>2, <1>4, <1>5 DEF Next

\* The ring fills from slot 0 in every state of the driver.
THEOREM FillsInvariant == Spec => []Fills(buffer)
  <1>1. Init => Fills(buffer)
    BY FillsEmpty DEF Init
  <1> QED
    BY <1>1, NextFills, OwnerInvariant, PTL DEF Spec

\* While kmalloc succeeds, every entry is as long as its size says, and so
\* are the bytes that wait for a newline: aesd_read never copies more than
\* was written, even when copies from user space fail.
THEOREM SizesMatchTheorem ==
  ASSUME ~AllocMayFail
  PROVE  Spec => []SizesMatch
  <1>1. Init => StoredInv
    BY DEF Init, StoredInv, SlotsStored, PartialSizeIsStored
  <1>2. OwnerInv /\ Fills(buffer) /\ StoredInv /\ [Next]_vars => StoredInv'
    BY NextStored
  <1>3. OwnerInv /\ Fills(buffer) /\ StoredInv => SizesMatch
    BY StoredSuffices
  <1> QED
    BY <1>1, <1>2, <1>3, OwnerInvariant, FillsInvariant, PTL DEF Spec

-----------------------------------------------------------------------------
(***************************************************************************)
(* No block is forgotten, as long as every write carries a newline, as the *)
(* packets of aesdsocket do.  (A write without one leaks: the merge frees  *)
(* the old partial buffer but not the new data.)                           *)
(***************************************************************************)

PacketsOnly == ~UserMayFault /\ \A data \in Payloads : ~is_data_partial(data)

NoneWaits == loaded => part_mem_ptr = NULL

NewlineInHand ==
  \A t \in Threads : pc[t] \in Writing => ~is_data_partial(mem[buffptr[t]])

Owned ==
  \A b \in allocated :
    \/ loaded /\ \E i \in Slots : EntryPtr(i) = b
    \/ \E t \in Threads : buffptr[t] = b \/ rm_buffptr[t] = b

\* With OwnerInv and Fills(buffer), inductive.
LeakInv == NoneWaits /\ NewlineInHand /\ Owned

LEMMA LeakInvSuffices ==
  ASSUME OwnerInv, LeakInv
  PROVE  NoLeak
  <1> SUFFICES ASSUME NEW b \in allocated
               PROVE  \/ b \in RingPtrs
                      \/ \E t \in Threads : buffptr[t] = b \/ rm_buffptr[t] = b
    BY DEF NoLeak
  <1>1. b # NULL
    BY AesdCharAssumption DEF OwnerInv, OwnerTypes
  <1>2. CASE loaded /\ \E i \in Slots : EntryPtr(i) = b
    BY <1>1, <1>2 DEF RingPtrs, EntryPtr
  <1>3. CASE \E t \in Threads : buffptr[t] = b \/ rm_buffptr[t] = b
    BY <1>3
  <1> QED
    BY <1>2, <1>3 DEF LeakInv, Owned

\* Unloading the module frees every entry of the ring.
LEMMA CleanupFreesRing ==
  ASSUME OwnerInv, Fills(buffer), NEW i \in Slots, EntryPtr(i) # NULL
  PROVE  EntryPtr(i) \in {cleanup(buffer)[k] : k \in DOMAIN cleanup(buffer)}
  <1>1. buffer.full \/ i < buffer.in_offs
    <2>1. i \in Int /\ buffer.in_offs \in Int
      BY RingOfDriver DEF Slots, Offsets
    <2> QED
      BY <2>1 DEF Fills, EntryPtr
  <1>2. PICK k \in 0 .. Count(buffer) - 1 : SlotOf(buffer, k) = i
    BY <1>1, RingOfDriver, LiveIsUsed
  <1>3. Count(buffer) \in Nat
    BY RingOfDriver, CountInRange
  <1>4. k + 1 \in 1 .. Count(buffer) /\ (k + 1) - 1 = k
    BY <1>3
  <1>5. cleanup(buffer) = FirstPtrs(buffer, Count(buffer))
    BY RingOfDriver, CleanupResult
  <1>6. /\ k + 1 \in DOMAIN FirstPtrs(buffer, Count(buffer))
        /\ FirstPtrs(buffer, Count(buffer))[k + 1] = EntryPtr(i)
    BY <1>2, <1>4 DEF FirstPtrs, EntryPtr
  <1> QED
    BY <1>5, <1>6

\* The steps of the module as a whole.
LEMMA ModuleLeak ==
  ASSUME OwnerInv, Fills(buffer), LeakInv, aesd_init_module \/ aesd_cleanup_module
  PROVE  LeakInv'
  <1>1. \A t \in Threads : pc[t] = "idle" /\ buffptr[t] = NULL /\ rm_buffptr[t] = NULL
    <2>1. \A t \in Threads : pc[t] = "idle"
      BY DEF OwnerInv, CallsNeedModule, aesd_init_module, aesd_cleanup_module
    <2> QED
      BY <2>1 DEF OwnerInv, LocalsLive, Writing
  <1>2. UNCHANGED << pc, buffptr, rm_buffptr >>
    BY DEF aesd_init_module, aesd_cleanup_module, locals
  <1>3. \A b \in allocated : loaded /\ \E i \in Slots : EntryPtr(i) = b
    BY <1>1, AesdCharAssumption DEF LeakInv, Owned, OwnerInv, OwnerTypes
  <1>4. allocated' = {}
    <2>1. CASE aesd_init_module
      BY <1>3, <2>1 DEF aesd_init_module, heap
    <2>2. CASE aesd_cleanup_module
      <3>1. allocated' = allocated \ {cleanup(buffer)[k] : k \in DOMAIN cleanup(buffer)}
        BY <2>2 DEF aesd_cleanup_module, Kfree
      <3>2. ASSUME NEW b \in allocated
            PROVE  b \in {cleanup(buffer)[k] : k \in DOMAIN cleanup(buffer)}
        <4>1. PICK i \in Slots : EntryPtr(i) = b
          BY <1>3
        <4>2. b # NULL
          BY AesdCharAssumption DEF OwnerInv, OwnerTypes
        <4> QED
          BY <4>1, <4>2, CleanupFreesRing
      <3> QED
        BY <3>1, <3>2
    <2> QED
      BY <2>1, <2>2
  <1>5. NoneWaits'
    BY DEF aesd_init_module, aesd_cleanup_module, NoneWaits
  <1>6. NewlineInHand'
    BY <1>1, <1>2 DEF NewlineInHand, Writing
  <1> QED
    BY <1>4, <1>5, <1>6 DEF LeakInv, Owned

\* A new block belongs to the call, and carries the caller's newline.
LEMMA WriteStartLeak ==
  ASSUME OwnerInv, LeakInv, PacketsOnly, NEW t \in Threads, NEW data \in Payloads,
         WriteStart(t, data)
  PROVE  LeakInv'
  <1>1. /\ pc[t] = "idle" /\ pc' = [pc EXCEPT ![t] = "write_lock"]
        /\ allocated' = allocated \union {kmalloc}
        /\ mem' = [mem EXCEPT ![kmalloc] = data]
        /\ buffptr' = [buffptr EXCEPT ![t] = kmalloc]
        /\ UNCHANGED << loaded, buffer, part_mem_ptr, rm_buffptr >>
    BY DEF WriteStart, Callable, Goto, CopiedFromUser, PacketsOnly, device
  <1>2. buffptr[t] = NULL /\ pc \in [Threads -> PCs] /\ buffptr \in [Threads -> Ptr]
    BY <1>1 DEF OwnerInv, OwnerTypes, LocalsLive, Writing
  <1>3. kmalloc \in Blocks /\ kmalloc \notin allocated
    BY KmallocInWrite DEF WriteStart
  <1>4. NoneWaits'
    BY <1>1 DEF LeakInv, NoneWaits
  <1>5. NewlineInHand'
    <2> SUFFICES ASSUME NEW u \in Threads, pc'[u] \in Writing
                 PROVE  ~is_data_partial(mem'[buffptr'[u]])
      BY DEF NewlineInHand, is_data_partial
    <2>1. CASE u = t
      <3>1. mem'[buffptr'[u]] = data
        BY <1>1, <1>2, <1>3, <2>1 DEF OwnerInv, OwnerTypes
      <3> QED
        BY <3>1 DEF PacketsOnly
    <2>2. CASE u # t
      <3>1. pc[u] \in Writing /\ buffptr'[u] = buffptr[u]
        BY <1>1, <1>2, <2>2
      <3>2. buffptr[u] \in allocated
        BY <3>1 DEF OwnerInv, LocalsLive, Allocated
      <3>3. mem'[buffptr[u]] = mem[buffptr[u]]
        BY <1>1, <1>3, <3>2 DEF OwnerInv, OwnerTypes
      <3> QED
        BY <3>1, <3>3 DEF LeakInv, NewlineInHand
    <2> QED
      BY <2>1, <2>2
  <1>6. Owned'
    <2> SUFFICES ASSUME NEW b \in allocated'
                 PROVE  \/ loaded /\ \E i \in Slots : EntryPtr(i) = b
                        \/ \E u \in Threads : buffptr'[u] = b \/ rm_buffptr[u] = b
      BY <1>1 DEF Owned, EntryPtr
    <2>1. CASE b = kmalloc
      BY <1>1, <1>2, <2>1
    <2>2. CASE b \in allocated
      <3>1. b # NULL
        BY <2>2, AesdCharAssumption DEF OwnerInv, OwnerTypes
      <3> QED
        BY <1>1, <1>2, <2>2, <3>1 DEF LeakInv, Owned
    <2> QED
      BY <1>1, <2>1, <2>2
  <1> QED
    BY <1>4, <1>5, <1>6 DEF LeakInv

\* The block of the call goes into the ring; the block it replaces, if the
\* slot held one, goes to the call.
LEMMA WriteFullLeak ==
  ASSUME OwnerInv, Fills(buffer), LeakInv, NEW t \in Threads, WriteFull(t)
  PROVE  LeakInv'
  <1> DEFINE size == wr_entry_size(Len(mem[buffptr[t]]))
             in == buffer.in_offs
             removed == removed_buffptr(buffer)
  <1>1. PICK h \in handle_partial_data(part_mem_ptr, part_buf_size, buffptr[t]) :
          /\ allocated' = h.allocated
          /\ mem' = h.mem
          /\ buffer' = add_entry(buffer, [buffptr |-> h.ptr, size |-> size])
    BY DEF WriteFull
  <1>2. /\ pc[t] = "write_crit"
        /\ pc' = [pc EXCEPT ![t] = "write_free"]
        /\ rm_buffptr' = [rm_buffptr EXCEPT ![t] = removed]
        /\ buffptr' = [buffptr EXCEPT ![t] = NULL]
        /\ part_mem_ptr' = NULL
        /\ loaded' = loaded /\ loaded
        /\ rm_buffptr[t] = NULL
    BY DEF WriteFull, ResetPartial, Goto, OwnerInv, CallsNeedModule, LocalsLive
  <1>3. h.ptr = buffptr[t] /\ h.allocated = allocated /\ h.mem = mem
    <2>1. part_mem_ptr = NULL
      BY <1>2 DEF LeakInv, NoneWaits
    <2> QED
      BY <2>1 DEF handle_partial_data
  <1> DEFINE e == [buffptr |-> h.ptr, size |-> size]
  <1>4. /\ in \in Slots
        /\ buffer'.entry = [buffer.entry EXCEPT ![in] = e]
    BY <1>1, RingOfDriver DEF add_entry, Offsets
  <1>5. /\ buffer'.entry[in] = e
        /\ \A i \in Slots \ {in} : buffer'.entry[i] = buffer.entry[i]
    <2> HIDE DEF e
    <2> QED
      BY <1>4, RingOfDriver
  <1>6. buffer'.entry[in].buffptr = buffptr[t]
    BY <1>3, <1>5
  <1>7. removed = EntryPtr(in)
    <2>1. CASE buffer.full
      BY <2>1, RingOfDriver DEF removed_buffptr, EntryPtr, Offsets
    <2>2. CASE ~buffer.full
      <3>1. in >= in
        BY <1>4 DEF Slots
      <3> QED
        BY <1>4, <2>2, <3>1 DEF removed_buffptr, EntryPtr, Fills
    <2> QED
      BY <2>1, <2>2
  <1> HIDE DEF size, in, removed, e
  <1>8. NoneWaits'
    BY <1>2 DEF NoneWaits
  <1>9. NewlineInHand'
    <2> SUFFICES ASSUME NEW u \in Threads, pc'[u] \in Writing
                 PROVE  ~is_data_partial(mem[buffptr'[u]])
      BY <1>1, <1>3 DEF NewlineInHand, is_data_partial
    <2>1. u # t
      BY <1>2 DEF Writing, OwnerInv, OwnerTypes
    <2>2. pc[u] \in Writing /\ buffptr'[u] = buffptr[u]
      BY <1>2, <2>1 DEF OwnerInv, OwnerTypes
    <2> QED
      BY <2>2 DEF LeakInv, NewlineInHand
  <1>10. Owned'
    <2> SUFFICES ASSUME NEW b \in allocated
                 PROVE  \/ \E i \in Slots : buffer'.entry[i].buffptr = b
                        \/ \E u \in Threads : buffptr'[u] = b \/ rm_buffptr'[u] = b
      BY <1>1, <1>2, <1>3 DEF Owned, EntryPtr
    <2>1. b # NULL
      BY AesdCharAssumption DEF OwnerInv, OwnerTypes
    <2>2. CASE \E i \in Slots : EntryPtr(i) = b
      <3>1. PICK i \in Slots : EntryPtr(i) = b
        BY <2>2
      <3>2. CASE i = in
        BY <1>2, <1>7, <3>1, <3>2 DEF OwnerInv, OwnerTypes
      <3>3. CASE i # in
        BY <1>5, <3>1, <3>3 DEF EntryPtr
      <3> QED
        BY <3>2, <3>3
    <2>3. CASE \E u \in Threads : buffptr[u] = b \/ rm_buffptr[u] = b
      <3>1. PICK u \in Threads : buffptr[u] = b \/ rm_buffptr[u] = b
        BY <2>3
      <3>2. CASE u = t
        BY <1>2, <1>4, <1>6, <2>1, <3>1, <3>2
      <3>3. CASE u # t
        BY <1>2, <3>1, <3>3 DEF OwnerInv, OwnerTypes
      <3> QED
        BY <3>2, <3>3
    <2> QED
      BY <2>2, <2>3 DEF LeakInv, Owned
  <1> QED
    BY <1>8, <1>9, <1>10 DEF LeakInv

\* A call that returns has freed the block it owned.
LEMMA ReturnLeak ==
  ASSUME OwnerInv, LeakInv, NEW t \in Threads, WriteFree(t) \/ WriteInterrupted(t)
  PROVE  LeakInv'
  <1>1. /\ pc' = [pc EXCEPT ![t] = "idle"]
        /\ rm_buffptr' = [rm_buffptr EXCEPT ![t] = NULL]
        /\ buffptr' = [buffptr EXCEPT ![t] = NULL]
        /\ UNCHANGED << loaded, buffer, part_mem_ptr >>
    BY DEF WriteFree, WriteInterrupted, Return, Goto, device
  <1>2. /\ allocated' \subseteq allocated
        /\ \A b \in allocated' : b # NULL => b # buffptr[t] /\ b # rm_buffptr[t]
    <2>1. CASE WriteFree(t)
      <3>1. buffptr[t] = NULL
        BY <2>1 DEF WriteFree, OwnerInv, LocalsLive, Writing
      <3> QED
        BY <2>1, <3>1 DEF WriteFree, Kfree
    <2>2. CASE WriteInterrupted(t)
      <3>1. rm_buffptr[t] = NULL /\ ~is_data_partial(mem[buffptr[t]])
        BY <2>2 DEF WriteInterrupted, OwnerInv, LocalsLive, Writing, LeakInv, NewlineInHand
      <3> QED
        BY <2>2, <3>1 DEF WriteInterrupted, Kfree
    <2> QED
      BY <2>1, <2>2
  <1>3. NoneWaits'
    BY <1>1 DEF LeakInv, NoneWaits
  <1>4. NewlineInHand'
    <2> SUFFICES ASSUME NEW u \in Threads, pc'[u] \in Writing
                 PROVE  ~is_data_partial(mem'[buffptr'[u]])
      BY DEF NewlineInHand, is_data_partial
    <2>1. u # t
      BY <1>1 DEF Writing, OwnerInv, OwnerTypes
    <2>2. pc[u] \in Writing /\ buffptr'[u] = buffptr[u]
      BY <1>1, <2>1 DEF OwnerInv, OwnerTypes
    <2>3. /\ buffptr[u] \in allocated
          /\ buffptr[u] # buffptr[t] /\ buffptr[u] # rm_buffptr[t]
      BY <2>1, <2>2 DEF OwnerInv, LocalsLive, Allocated, Distinct
    <2>4. mem'[buffptr[u]] = mem[buffptr[u]]
      BY <2>3, OwnMemory
    <2> QED
      BY <2>2, <2>4 DEF LeakInv, NewlineInHand
  <1>5. Owned'
    <2> SUFFICES ASSUME NEW b \in allocated'
                 PROVE  \/ loaded /\ \E i \in Slots : EntryPtr(i) = b
                        \/ \E u \in Threads : buffptr'[u] = b \/ rm_buffptr'[u] = b
      BY <1>1 DEF Owned, EntryPtr
    <2>1. b # NULL /\ b \in allocated /\ b # buffptr[t] /\ b # rm_buffptr[t]
      BY <1>2, AesdCharAssumption DEF OwnerInv, OwnerTypes
    <2>2. \A u \in Threads \ {t} : buffptr'[u] = buffptr[u] /\ rm_buffptr'[u] = rm_buffptr[u]
      BY <1>1 DEF OwnerInv, OwnerTypes
    <2> QED
      BY <2>1, <2>2 DEF LeakInv, Owned
  <1> QED
    BY <1>3, <1>4, <1>5 DEF LeakInv

\* The other steps of a call touch neither the heap nor the pointers to it.
LEMMA QuietLeak ==
  ASSUME OwnerInv, LeakInv, NEW t \in Threads,
         \/ aesd_open(t) \/ aesd_release(t) \/ Lock(t) \/ ReadStart(t)
         \/ \E s \in Seeks : LlseekStart(t, s[1], s[2])
         \/ \E c \in Commands : IoctlStart(t, c[1], c[2])
         \/ ReadNothing(t) \/ ReadEntry(t) \/ ReadLoad(t) \/ ReadPrint(t)
         \/ LlseekSize(t) \/ LlseekSet(t) \/ IoctlSeek(t) \/ Interrupted(t)
  PROVE  LeakInv'
  <1>1. UNCHANGED << loaded, buffer, part_mem_ptr, part_buf_size, allocated, mem >>
    BY QuietLeavesHeap
  <1>2. UNCHANGED << buffptr, rm_buffptr >>
    <2>1. CASE \/ ReadNothing(t) \/ ReadPrint(t) \/ LlseekSet(t) \/ IoctlSeek(t)
               \/ Interrupted(t)
      <3>1. Return(t) /\ pc[t] \notin Writing /\ pc[t] # "write_free"
        BY <2>1 DEF ReadNothing, ReadPrint, LlseekSet, IoctlSeek, Interrupted, LockPoints,
                    Writing
      <3> QED
        BY <3>1, ReturnKeepsNull
    <2>2. CASE \/ aesd_open(t) \/ aesd_release(t) \/ Lock(t) \/ ReadStart(t)
               \/ \E s \in Seeks : LlseekStart(t, s[1], s[2])
               \/ \E c \in Commands : IoctlStart(t, c[1], c[2])
               \/ ReadEntry(t) \/ ReadLoad(t) \/ LlseekSize(t)
      BY <2>2 DEF aesd_open, aesd_release, Lock, ReadStart, LlseekStart, IoctlStart,
                  ReadEntry, ReadLoad, LlseekSize, locals
    <2> QED
      BY <2>1, <2>2
  <1>3. OwnerInv'
    BY ModuleStep, QuietActions
  <1>4. NewlineInHand'
    <2> SUFFICES ASSUME NEW u \in Threads, pc'[u] \in Writing
                 PROVE  ~is_data_partial(mem[buffptr[u]])
      BY <1>1, <1>2 DEF NewlineInHand, is_data_partial
    <2>1. buffptr'[u] # NULL
      BY <1>3 DEF OwnerInv, LocalsLive
    <2>2. pc[u] \in Writing
      BY <1>2, <2>1 DEF OwnerInv, LocalsLive
    <2> QED
      BY <2>2 DEF LeakInv, NewlineInHand
  <1> QED
    BY <1>1, <1>2, <1>4 DEF LeakInv, NoneWaits, Owned, EntryPtr

\* A write without a newline never happens.
LEMMA NoPartialWrite ==
  ASSUME LeakInv, NEW t \in Threads
  PROVE  ~WritePartial(t)
  BY DEF LeakInv, NewlineInHand, Writing, WritePartial

LEMMA NextLeak ==
  ASSUME OwnerInv, Fills(buffer), LeakInv, PacketsOnly, [Next]_vars
  PROVE  LeakInv'
  <1>1. CASE aesd_init_module \/ aesd_cleanup_module
    BY <1>1, ModuleLeak
  <1>2. CASE UNCHANGED vars
    BY <1>2 DEF vars, device, heap, locals, LeakInv, NoneWaits, NewlineInHand, Owned,
                EntryPtr, is_data_partial
  <1>3. ASSUME NEW t \in Threads, Call(t) \/ Lock(t) \/ Signal(t) PROVE LeakInv'
    BY <1>3, QuietLeak, WriteStartLeak, ReturnLeak DEF Call, Signal
  <1>4. ASSUME NEW t \in Threads, Run(t) PROVE LeakInv'
    BY <1>4, QuietLeak, WriteFullLeak, ReturnLeak, NoPartialWrite DEF Run
  <1> QED
    BY <1>1, <1>2, <1>3, <1>4 DEF Next

\* When every write arrives with a newline, no allocation is ever forgotten:
\* not by an overwrite, an interrupted call or the unloading of the module,
\* and also when kmalloc fails.
THEOREM NoLeakTheorem ==
  ASSUME PacketsOnly
  PROVE  Spec => []NoLeak
  <1>1. Init => LeakInv
    BY DEF Init, LeakInv, NoneWaits, NewlineInHand, Owned, Writing
  <1>2. OwnerInv /\ Fills(buffer) /\ LeakInv /\ [Next]_vars => LeakInv'
    BY NextLeak
  <1>3. OwnerInv /\ LeakInv => NoLeak
    BY LeakInvSuffices
  <1> QED
    BY <1>1, <1>2, <1>3, OwnerInvariant, FillsInvariant, PTL DEF Spec

-----------------------------------------------------------------------------
(***************************************************************************)
(* The driver implements the device whose calls take effect at one         *)
(* instant.                                                                *)
(***************************************************************************)

\* Before a call takes effect: the VFS's copy of the position is f_pos,
\* nothing has been copied to the caller, and the arguments are its own.
BeforeEffect(t) ==
  /\ pc[t] \in Writing \union {"read_lock", "read_crit"} => loff[t] = f_pos[t]
  /\ pc[t] \notin {"read_load", "read_print"} => reply[t] = << >>
  /\ pc[t] \in {"llseek_lock", "llseek_crit"} => arg[t] \in Seeks
  /\ pc[t] \in {"ioctl_lock", "ioctl_crit"} => arg[t] \in Commands

\* A write under way holds what its caller may have sent.
DataInHand == \A t \in Threads : pc[t] \in Writing => mem[buffptr[t]] \in DeviceData

EffectInv == DataInHand /\ \A t \in Threads : BeforeEffect(t)

\* A step of one thread leaves the locals and the position of the others
\* alone.
Alone(t) ==
  \A u \in Threads \ {t} :
    /\ pc'[u] = pc[u] /\ f_pos'[u] = f_pos[u] /\ loff'[u] = loff[u]
    /\ arg'[u] = arg[u] /\ reply'[u] = reply[u] /\ buffptr'[u] = buffptr[u]

\* The types of what the threads own, and what holds of it after a return.
LEMMA ThreadState ==
  ASSUME OwnerInv, CallInv
  PROVE  /\ pc \in [Threads -> PCs] /\ f_pos \in [Threads -> Nat]
         /\ loff \in [Threads -> Nat] /\ arg \in [Threads -> Int \X Int]
         /\ reply \in [Threads -> Seq(Byte)] /\ buffptr \in [Threads -> Ptr]
         /\ rd_entry \in [Threads -> Slots]
  BY DEF OwnerInv, OwnerTypes, CallInv, Positions, Locals

LEMMA ReturnAlone ==
  ASSUME OwnerInv, CallInv, NEW t \in Threads, Return(t)
  PROVE  /\ pc'[t] = "idle" /\ reply'[t] = << >>
         /\ reply' = [reply EXCEPT ![t] = << >>]
         /\ \A u \in Threads \ {t} :
              /\ pc'[u] = pc[u] /\ loff'[u] = loff[u]
              /\ arg'[u] = arg[u] /\ reply'[u] = reply[u] /\ buffptr'[u] = buffptr[u]
  BY ThreadState DEF Return, Goto

LEMMA StepAlone ==
  ASSUME OwnerInv, CallInv, NEW t \in Threads, Call(t) \/ Lock(t) \/ Run(t) \/ Signal(t)
  PROVE  Alone(t)
  <1> USE ThreadState DEF Alone, Goto, locals
  <1>1. CASE aesd_open(t) \/ aesd_release(t)
    BY <1>1 DEF aesd_open, aesd_release
  <1>2. CASE ReadStart(t) \/ Lock(t) \/ ReadLoad(t) \/ LlseekSize(t)
    BY <1>2 DEF ReadStart, Lock, ReadLoad, LlseekSize
  <1>3. CASE \E data \in Payloads : WriteStart(t, data)
    BY <1>3 DEF WriteStart
  <1>4. CASE \E s \in Seeks : LlseekStart(t, s[1], s[2])
    BY <1>4 DEF LlseekStart
  <1>5. CASE \E c \in Commands : IoctlStart(t, c[1], c[2])
    BY <1>5 DEF IoctlStart
  <1>6. CASE WriteFull(t)
    BY <1>6 DEF WriteFull
  <1>7. CASE ReadEntry(t)
    BY <1>7 DEF ReadEntry
  <1>8. CASE \/ WriteFree(t) \/ ReadPrint(t) \/ LlseekSet(t) \/ IoctlSeek(t)
             \/ WritePartial(t) \/ WriteInterrupted(t) \/ ReadNothing(t) \/ Interrupted(t)
    <2>1. Return(t)
      BY <1>8 DEF WriteFree, ReadPrint, LlseekSet, IoctlSeek, WritePartial,
                  WriteInterrupted, ReadNothing, Interrupted
    <2>2. \A u \in Threads \ {t} : f_pos'[u] = f_pos[u]
      BY <1>8 DEF WriteFree, ReadPrint, LlseekSet, IoctlSeek, WritePartial,
                  WriteInterrupted, ReadNothing, Interrupted
    <2> QED
      BY <2>1, <2>2, ReturnAlone
  <1> QED
    BY <1>1, <1>2, <1>3, <1>4, <1>5, <1>6, <1>7, <1>8 DEF Call, Run, Signal

\* The step of a thread keeps BeforeEffect of that thread.
LEMMA StepEffect ==
  ASSUME OwnerInv, CallInv, NEW t \in Threads, BeforeEffect(t),
         Call(t) \/ Lock(t) \/ Run(t) \/ Signal(t)
  PROVE  BeforeEffect(t)'
  <1> USE ThreadState DEF Goto, locals, Writing
  <1>1. CASE aesd_open(t) \/ aesd_release(t)
    <2>1. /\ pc[t] = "idle"
          /\ UNCHANGED << pc, loff, arg, reply >>
      BY <1>1 DEF aesd_open, aesd_release, Callable, OwnerInv, CallsNeedModule
    <2> QED
      BY <2>1 DEF BeforeEffect
  <1>2. CASE ReadStart(t) \/ \E data \in Payloads : WriteStart(t, data)
    <2>1. /\ pc[t] = "idle" /\ pc'[t] \in {"read_lock", "write_lock"}
          /\ loff'[t] = f_pos[t] /\ f_pos' = f_pos
          /\ UNCHANGED << arg, reply >>
      BY <1>2 DEF ReadStart, WriteStart, Callable
    <2> QED
      BY <2>1 DEF BeforeEffect
  <1>3. CASE \E s \in Seeks : LlseekStart(t, s[1], s[2])
    <2>1. PICK s \in Seeks : LlseekStart(t, s[1], s[2])
      BY <1>3
    <2>2. s \in (0 .. 2) \X Int
      BY AesdCharAssumption
    <2>3. s = << s[1], s[2] >>
      BY <2>2
    <2>4. /\ pc[t] = "idle" /\ pc'[t] = "llseek_lock" /\ arg'[t] = << s[1], s[2] >>
          /\ UNCHANGED << f_pos, loff, reply >>
      BY <2>1 DEF LlseekStart, Callable
    <2>5. arg'[t] \in Seeks
      BY <2>3, <2>4
    <2> QED
      BY <2>4, <2>5 DEF BeforeEffect
  <1>4. CASE \E c \in Commands : IoctlStart(t, c[1], c[2])
    <2>1. PICK c \in Commands : IoctlStart(t, c[1], c[2])
      BY <1>4
    <2>2. c \in Nat \X Nat
      BY AesdCharAssumption
    <2>3. c = << c[1], c[2] >>
      BY <2>2
    <2>4. /\ pc[t] = "idle" /\ pc'[t] = "ioctl_lock" /\ arg'[t] = << c[1], c[2] >>
          /\ UNCHANGED << f_pos, loff, reply >>
      BY <2>1 DEF IoctlStart, Callable
    <2>5. arg'[t] \in Commands
      BY <2>3, <2>4
    <2> QED
      BY <2>4, <2>5 DEF BeforeEffect
  <1>5. CASE Lock(t)
    <2>1. /\ pc[t] \in LockPoints /\ pc'[t] = CriticalSection(pc[t])
          /\ UNCHANGED << f_pos, loff, arg, reply >>
      BY <1>5 DEF Lock
    <2> QED
      BY <2>1 DEF BeforeEffect, LockPoints, CriticalSection
  <1>6. CASE WriteFull(t)
    <2>1. pc[t] = "write_crit" /\ pc'[t] = "write_free" /\ reply' = reply
      BY <1>6 DEF WriteFull
    <2> QED
      BY <2>1 DEF BeforeEffect
  <1>7. CASE ReadEntry(t)
    <2>1. pc'[t] = "read_load"
      BY <1>7 DEF ReadEntry
    <2> QED
      BY <2>1 DEF BeforeEffect
  <1>8. CASE ReadLoad(t)
    <2>1. pc'[t] = "read_print"
      BY <1>8 DEF ReadLoad
    <2> QED
      BY <2>1 DEF BeforeEffect
  <1>9. CASE LlseekSize(t)
    <2>1. pc[t] = "llseek_crit" /\ pc'[t] = "llseek_set" /\ reply' = reply
      BY <1>9 DEF LlseekSize
    <2> QED
      BY <2>1 DEF BeforeEffect
  <1>10. CASE \/ WriteFree(t) \/ ReadPrint(t) \/ LlseekSet(t) \/ IoctlSeek(t)
              \/ WritePartial(t) \/ WriteInterrupted(t) \/ ReadNothing(t) \/ Interrupted(t)
    <2>1. Return(t)
      BY <1>10 DEF WriteFree, ReadPrint, LlseekSet, IoctlSeek, WritePartial,
                   WriteInterrupted, ReadNothing, Interrupted
    <2>2. pc'[t] = "idle" /\ reply'[t] = << >>
      BY <2>1, ReturnAlone
    <2> QED
      BY <2>2 DEF BeforeEffect
  <1> QED
    BY <1>1, <1>2, <1>3, <1>4, <1>5, <1>6, <1>7, <1>8, <1>9, <1>10 DEF Call, Run, Signal

\* The merge of one write leaves the data of the others alone.
LEMMA OthersData ==
  ASSUME OwnerInv, StoredInv, ~AllocMayFail, NEW t \in Threads,
         WriteFull(t) \/ WritePartial(t), NEW u \in Threads, u # t, pc[u] \in Writing
  PROVE  mem'[buffptr[u]] = mem[buffptr[u]]
  <1>1. PICK h \in handle_partial_data(part_mem_ptr, part_buf_size, buffptr[t]) : mem' = h.mem
    BY DEF WriteFull, WritePartial
  <1>2. pc[t] = "write_crit" /\ loaded
    BY DEF WriteFull, WritePartial, OwnerInv, CallsNeedModule
  <1>3. buffptr[u] \in allocated \ {part_mem_ptr}
    BY <1>2 DEF OwnerInv, LocalsLive, Allocated, Distinct
  <1>4. \A b \in allocated \ {part_mem_ptr} : h.mem[b] = mem[b]
    BY <1>2, MergedData DEF StoredInv
  <1> QED
    BY <1>1, <1>3, <1>4

\* What a write puts into its new block.
LEMMA NewData ==
  ASSUME OwnerInv, NEW t \in Threads, NEW data \in Payloads, WriteStart(t, data)
  PROVE  /\ buffptr'[t] \in Blocks /\ buffptr'[t] \notin allocated
         /\ mem'[buffptr'[t]] \in DeviceData
         /\ pc[t] = "idle"
  <1>1. PICK copied \in CopiedFromUser(data) : mem' = [mem EXCEPT ![kmalloc] = copied]
    BY DEF WriteStart
  <1>2. copied \in DeviceData
    BY <1>1 DEF DeviceData
  <1>3. kmalloc \in Blocks /\ kmalloc \notin allocated
    BY KmallocInWrite DEF WriteStart
  <1>4. buffptr'[t] = kmalloc /\ pc[t] = "idle"
    BY DEF WriteStart, Callable, OwnerInv, OwnerTypes
  <1>5. mem'[kmalloc] = copied
    BY <1>1, <1>3 DEF OwnerInv, OwnerTypes
  <1> QED
    BY <1>2, <1>3, <1>4, <1>5

\* A step of one thread keeps what the writes under way hold.
LEMMA StepData ==
  ASSUME OwnerInv, CallInv, StoredInv, ~AllocMayFail, DataInHand, NEW t \in Threads,
         Call(t) \/ Lock(t) \/ Run(t) \/ Signal(t)
  PROVE  DataInHand'
  <1> SUFFICES ASSUME NEW u \in Threads, pc'[u] \in Writing
               PROVE  mem'[buffptr'[u]] \in DeviceData
    BY DEF DataInHand, DeviceData, CopiedFromUser
  <1>1. Alone(t)
    BY StepAlone
  <1>2. ASSUME pc[u] \in Writing, buffptr'[u] = buffptr[u], mem'[buffptr[u]] = mem[buffptr[u]]
        PROVE  mem'[buffptr'[u]] \in DeviceData
    BY <1>2 DEF DataInHand
  <1>3. CASE u # t
    <2>1. pc[u] \in Writing /\ buffptr'[u] = buffptr[u]
      BY <1>1, <1>3 DEF Alone
    <2>2. /\ buffptr[u] \in allocated
          /\ buffptr[u] # buffptr[t] /\ buffptr[u] # rm_buffptr[t]
      BY <1>3, <2>1 DEF OwnerInv, LocalsLive, Allocated, Distinct
    <2>3. mem'[buffptr[u]] = mem[buffptr[u]]
      <3>1. CASE WriteFull(t) \/ WritePartial(t)
        BY <1>3, <2>1, <3>1, OthersData
      <3>2. CASE \/ \E data \in Payloads : WriteStart(t, data)
                 \/ WriteFree(t) \/ WriteInterrupted(t)
        BY <2>2, <3>2, OwnMemory
      <3>3. CASE mem' = mem
        BY <3>3
      <3> QED
        BY <3>1, <3>2, <3>3, QuietLeavesHeap DEF Call, Run, Signal
    <2> QED
      BY <1>2, <2>1, <2>3
  <1>4. CASE u = t
    <2>1. CASE \E data \in Payloads : WriteStart(t, data)
      BY <1>4, <2>1, NewData
    <2>2. CASE Lock(t)
      <3>1. /\ pc[t] \in LockPoints /\ pc'[t] = CriticalSection(pc[t])
            /\ UNCHANGED << buffptr, mem >>
        BY <2>2 DEF Lock, heap, locals, OwnerInv, OwnerTypes
      <3>2. pc[t] \in Writing
        BY <1>4, <3>1 DEF LockPoints, CriticalSection, Writing
      <3> QED
        BY <1>2, <1>4, <3>1, <3>2
    <2>3. CASE ~Lock(t) /\ ~\E data \in Payloads : WriteStart(t, data)
      <3>1. pc'[t] \notin Writing
        <4> USE ThreadState DEF Goto, locals, Writing
        <4>1. CASE aesd_open(t) \/ aesd_release(t)
          BY <4>1 DEF aesd_open, aesd_release, Callable, OwnerInv, CallsNeedModule
        <4>2. CASE \/ ReadStart(t) \/ WriteFull(t) \/ ReadEntry(t) \/ ReadLoad(t)
                   \/ LlseekSize(t)
          BY <4>2 DEF ReadStart, WriteFull, ReadEntry, ReadLoad, LlseekSize
        <4>3. CASE \E s \in Seeks : LlseekStart(t, s[1], s[2])
          BY <4>3 DEF LlseekStart
        <4>4. CASE \E c \in Commands : IoctlStart(t, c[1], c[2])
          BY <4>4 DEF IoctlStart
        <4>5. CASE \/ WriteFree(t) \/ ReadPrint(t) \/ LlseekSet(t) \/ IoctlSeek(t)
                   \/ WritePartial(t) \/ WriteInterrupted(t) \/ ReadNothing(t)
                   \/ Interrupted(t)
          <5>1. Return(t)
            BY <4>5 DEF WriteFree, ReadPrint, LlseekSet, IoctlSeek, WritePartial,
                        WriteInterrupted, ReadNothing, Interrupted
          <5> QED
            BY <5>1, ReturnAlone
        <4> QED
          BY <2>3, <4>1, <4>2, <4>3, <4>4, <4>5 DEF Call, Run, Signal
      <3> QED
        BY <1>4, <3>1
    <2> QED
      BY <2>1, <2>2, <2>3
  <1> QED
    BY <1>3, <1>4

LEMMA NextEffect ==
  ASSUME OwnerInv, CallInv, StoredInv, ~AllocMayFail, EffectInv, [Next]_vars
  PROVE  EffectInv'
  <1>1. CASE aesd_init_module \/ aesd_cleanup_module
    <2>1. \A t \in Threads : pc[t] = "idle"
      BY <1>1 DEF OwnerInv, CallsNeedModule, aesd_init_module, aesd_cleanup_module
    <2>2. UNCHANGED << pc, f_pos, loff, arg, reply >>
      BY <1>1 DEF aesd_init_module, aesd_cleanup_module, locals
    <2> QED
      BY <2>1, <2>2 DEF EffectInv, DataInHand, BeforeEffect, Writing
  <1>2. CASE UNCHANGED vars
    <2>1. UNCHANGED << pc, f_pos, loff, arg, reply, mem, buffptr >>
      BY <1>2 DEF vars, heap, locals
    <2> QED
      BY <2>1 DEF EffectInv, DataInHand, BeforeEffect, DeviceData, CopiedFromUser
  <1>3. ASSUME NEW t \in Threads, Call(t) \/ Lock(t) \/ Run(t) \/ Signal(t) PROVE EffectInv'
    <2>1. DataInHand'
      BY <1>3, StepData DEF EffectInv
    <2>2. BeforeEffect(t)'
      BY <1>3, StepEffect DEF EffectInv
    <2>3. ASSUME NEW u \in Threads, u # t PROVE BeforeEffect(u)'
      <3>1. Alone(t)
        BY <1>3, StepAlone
      <3>2. BeforeEffect(u)
        BY DEF EffectInv
      <3> QED
        BY <2>3, <3>1, <3>2 DEF Alone, BeforeEffect
    <2> QED
      BY <2>1, <2>2, <2>3 DEF EffectInv
  <1> QED
    BY <1>1, <1>2, <1>3 DEF Next

\* File positions are below 4 GiB, no write is longer than 2 GiB and all the
\* writes in the ring are less than 4 GiB, for the int of the build: the ints
\* of the lookup do not confuse two positions and cb_size has not wrapped.
FitsInt ==
  /\ \A t \in Threads : loff[t] < 2^IntBits
  /\ \A i \in Slots : buffer.entry[i].size <= 2^(IntBits - 1)
  /\ \A pre : Prefix(buffer, pre) => pre[Count(buffer)] < 2^IntBits

RefInv == OwnerInv /\ CallInv /\ Fills(buffer) /\ StoredInv /\ EffectInv

\* The sums of the lengths of the writes in a log.
LogSum(log) ==
  CHOOSE sum : sum = [n \in 0 .. Len(log) |-> IF n = 0 THEN 0 ELSE sum[n - 1] + Len(log[n])]

\* A function that adds up the lengths one by one is the one LogSum chooses.
LEMMA LogSumUnique ==
  ASSUME NEW log, Len(log) \in Nat, NEW pre \in [0 .. Len(log) -> Nat], pre[0] = 0,
         \A n \in 1 .. Len(log) : pre[n] = pre[n - 1] + Len(log[n])
  PROVE  \A k \in 0 .. Len(log) : LogSum(log)[k] = pre[k]
  <1> DEFINE N == Len(log)
             Sums(f) == f = [n \in 0 .. N |-> IF n = 0 THEN 0 ELSE f[n - 1] + Len(log[n])]
             sum == LogSum(log)
             S == {k \in Nat : k \in 0 .. N => sum[k] = pre[k]}
  <1>1. Sums(pre)
    <2>1. \A n \in 0 .. N : pre[n] = IF n = 0 THEN 0 ELSE pre[n - 1] + Len(log[n])
      OBVIOUS
    <2> QED
      BY <2>1
  <1>2. Sums(sum)
    <2>1. sum = CHOOSE f : Sums(f)
      BY DEF LogSum
    <2> HIDE DEF sum, Sums
    <2> QED
      BY <1>1, <2>1
  <1> HIDE DEF sum
  <1>3. \A n \in 0 .. N : sum[n] = IF n = 0 THEN 0 ELSE sum[n - 1] + Len(log[n])
    BY <1>2
  <1>4. 0 \in S
    BY <1>3
  <1>5. ASSUME NEW k \in Nat, k \in S PROVE k + 1 \in S
    <2> SUFFICES ASSUME k + 1 \in 0 .. N PROVE sum[k + 1] = pre[k + 1]
      OBVIOUS
    <2>1. k \in 0 .. N /\ k + 1 \in 1 .. N /\ k + 1 # 0 /\ (k + 1) - 1 = k
      OBVIOUS
    <2>2. sum[k] = pre[k]
      BY <1>5, <2>1
    <2>3. sum[k + 1] = sum[(k + 1) - 1] + Len(log[k + 1])
      BY <1>3, <2>1
    <2>4. pre[k + 1] = pre[(k + 1) - 1] + Len(log[k + 1])
      BY <2>1
    <2> QED
      BY <2>1, <2>2, <2>3, <2>4
  <1>6. \A k \in Nat : k \in S
    <2> HIDE DEF S
    <2> QED
      BY <1>4, <1>5, InductiveSet
  <1> QED
    BY <1>6 DEF sum

\* The log is what the live slots point to.
LEMMA LogOfRing ==
  ASSUME RefInv, loaded
  PROVE  /\ Count(buffer) \in Nat
         /\ DeviceLog \in Seq(Seq(Byte)) /\ Len(DeviceLog) = Count(buffer)
         /\ \A k \in 0 .. Count(buffer) - 1 :
              LET i == SlotOf(buffer, k)
              IN  /\ i \in Slots /\ Used(i)
                  /\ EntryPtr(i) # NULL /\ EntryPtr(i) \in allocated
                  /\ EntryPtr(i) \in Blocks /\ EntryPtr(i) # part_mem_ptr
                  /\ DeviceLog[k + 1] = mem[EntryPtr(i)]
                  /\ Len(DeviceLog[k + 1]) = buffer.entry[i].size
  <1> USE DEF RefInv
  <1> DEFINE n == Count(buffer)
  <1>1. n \in Nat
    BY RingOfDriver, CountInRange
  <1>2. ASSUME NEW k \in 0 .. n - 1
        PROVE  LET i == SlotOf(buffer, k)
               IN  /\ i \in Slots /\ Used(i)
                   /\ EntryPtr(i) # NULL /\ EntryPtr(i) \in allocated
                   /\ EntryPtr(i) \in Blocks /\ EntryPtr(i) # part_mem_ptr
                   /\ Len(mem[EntryPtr(i)]) = buffer.entry[i].size
                   /\ mem[EntryPtr(i)] \in Seq(Byte)
    <2> DEFINE i == SlotOf(buffer, k)
    <2>1. i \in Slots /\ Used(i)
      BY RingOfDriver, LiveIsUsed DEF Used
    <2> HIDE DEF i
    <2>2. EntryPtr(i) # NULL /\ Len(mem[EntryPtr(i)]) = buffer.entry[i].size
      BY <2>1 DEF StoredInv, SlotsStored
    <2>3. EntryPtr(i) \in allocated /\ EntryPtr(i) # part_mem_ptr
      BY <2>1, <2>2 DEF OwnerInv, Allocated, Distinct
    <2>4. EntryPtr(i) \in Blocks /\ mem[EntryPtr(i)] \in Seq(Byte)
      BY <2>3 DEF OwnerInv, OwnerTypes
    <2> QED
      BY <2>1, <2>2, <2>3, <2>4 DEF i
  <1>3. DeviceLog = [j \in 1 .. n |-> mem[EntryPtr(SlotOf(buffer, j - 1))]]
    BY DEF DeviceLog, Contents, EntryPtr
  <1> HIDE DEF n
  <1>4. \A j \in 1 .. n : j - 1 \in 0 .. n - 1
    BY <1>1
  <1>5. DeviceLog \in [1 .. n -> Seq(Byte)]
    BY <1>2, <1>3, <1>4
  <1>6. DeviceLog \in Seq(Seq(Byte)) /\ Len(DeviceLog) = n
    BY <1>1, <1>5, SeqDef, LenProperties
  <1>7. ASSUME NEW k \in 0 .. n - 1 PROVE DeviceLog[k + 1] = mem[EntryPtr(SlotOf(buffer, k))]
    <2>1. k + 1 \in 1 .. n /\ (k + 1) - 1 = k
      BY <1>1
    <2> QED
      BY <1>3, <2>1
  <1> QED
    BY <1>1, <1>2, <1>6, <1>7 DEF n

\* The offsets of the device are those of the entries in the ring, and
\* cb_size is its size modulo 2^IntBits.
LEMMA OffsetsOfRing ==
  ASSUME RefInv, loaded, NEW pre, Prefix(buffer, pre)
  PROVE  /\ \A k \in 0 .. Count(buffer) : Device!Offset(k) = pre[k]
         /\ Device!Size = pre[Count(buffer)]
         /\ buffer.cb_size = pre[Count(buffer)] % 2^IntBits
  <1> DEFINE n == Count(buffer)
             size(k) == buffer.entry[SlotOf(buffer, k)].size
  <1>1. n \in Nat /\ Len(DeviceLog) = n
        /\ \A k \in 0 .. n - 1 : Len(DeviceLog[k + 1]) = size(k)
    BY LogOfRing
  <1>2. pre \in [0 .. n -> Nat] /\ pre[0] = 0
        /\ \A k \in 0 .. n - 1 : pre[k + 1] = pre[k] + size(k)
    BY DEF Prefix
  <1> HIDE DEF n, size
  <1>3. \A j \in 1 .. n : pre[j] = pre[j - 1] + Len(DeviceLog[j])
    <2> SUFFICES ASSUME NEW j \in 1 .. n PROVE pre[j] = pre[j - 1] + Len(DeviceLog[j])
      OBVIOUS
    <2> DEFINE k == j - 1
    <2>1. k \in 0 .. n - 1 /\ k + 1 = j
      BY <1>1
    <2>2. pre[k + 1] = pre[k] + size(k) /\ Len(DeviceLog[k + 1]) = size(k)
      BY <1>1, <1>2, <2>1
    <2> HIDE DEF k
    <2>3. pre[j] = pre[k] + Len(DeviceLog[j])
      BY <2>1, <2>2
    <2> QED
      BY <2>3 DEF k
  <1>4. \A k \in 0 .. n : LogSum(DeviceLog)[k] = pre[k]
    BY <1>1, <1>2, <1>3, LogSumUnique
  <1>5. \A k \in 0 .. n : Device!Offset(k) = LogSum(DeviceLog)[k]
    BY DEF Device!Offset, LogSum
  <1>6. Device!Size = pre[n]
    BY <1>1, <1>4, <1>5 DEF Device!Size
  <1>7. buffer.cb_size = pre[n] % 2^IntBits
    <2>1. PICK q : Prefix(buffer, q) /\ buffer.cb_size = q[Count(buffer)] % 2^IntBits
      BY DEF RefInv, CallInv, CbExact
    <2>2. q \in [0 .. n -> Nat] /\ q[0] = 0
          /\ \A k \in 0 .. n - 1 : q[k + 1] = q[k] + size(k)
      BY <2>1 DEF Prefix, n, size
    <2> DEFINE S == {k \in Nat : k \in 0 .. n => q[k] = pre[k]}
    <2>3. 0 \in S
      BY <1>2, <2>2
    <2>4. ASSUME NEW k \in Nat, k \in S PROVE k + 1 \in S
      BY <1>1, <1>2, <2>2, <2>4
    <2>5. \A k \in Nat : k \in S
      <3> HIDE DEF S
      <3> QED
        BY <2>3, <2>4, InductiveSet
    <2>6. q[n] = pre[n]
      BY <1>1, <2>5
    <2> QED
      BY <2>1, <2>6 DEF n
  <1> QED
    BY <1>4, <1>5, <1>6, <1>7 DEF n

\* A step that leaves the device and its blocks alone leaves the log and the
\* waiting bytes alone.
LEMMA LogKept ==
  ASSUME RefInv,
         UNCHANGED << loaded, buffer, part_mem_ptr >>,
         loaded => \A i \in Slots : EntryPtr(i) # NULL => mem'[EntryPtr(i)] = mem[EntryPtr(i)],
         loaded /\ part_mem_ptr # NULL => mem'[part_mem_ptr] = mem[part_mem_ptr]
  PROVE  DeviceLog' = DeviceLog /\ DevicePending' = DevicePending
  <1>1. DevicePending' = DevicePending
    BY DEF DevicePending
  <1>2. CASE ~loaded
    BY <1>1, <1>2 DEF DeviceLog
  <1>3. CASE loaded
    <2>1. /\ DeviceLog = [k \in 1 .. Count(buffer) |-> mem[Contents(buffer)[k].buffptr]]
          /\ DeviceLog' = [k \in 1 .. Count(buffer) |-> mem'[Contents(buffer)[k].buffptr]]
      BY <1>3 DEF DeviceLog, Count, Contents, SlotOf
    <2>2. ASSUME NEW k \in 1 .. Count(buffer)
          PROVE  mem'[Contents(buffer)[k].buffptr] = mem[Contents(buffer)[k].buffptr]
      <3>1. k - 1 \in 0 .. Count(buffer) - 1
        BY <1>3, LogOfRing
      <3>2. Contents(buffer)[k].buffptr = EntryPtr(SlotOf(buffer, k - 1))
        BY DEF Contents, EntryPtr
      <3>3. SlotOf(buffer, k - 1) \in Slots /\ EntryPtr(SlotOf(buffer, k - 1)) # NULL
        BY <1>3, <3>1, LogOfRing
      <3> QED
        BY <1>3, <3>2, <3>3
    <2> QED
      BY <1>1, <2>1, <2>2
  <1> QED
    BY <1>2, <1>3

\* A step of one thread moves at most its own position.
LEMMA PositionStep ==
  ASSUME NEW t \in Threads, Alone(t)
  PROVE  DevicePos' = [DevicePos EXCEPT ![t] = Position(t)']
  <1>1. ASSUME NEW u \in Threads \ {t} PROVE Position(u)' = Position(u)
    <2>1. pc'[u] = pc[u] /\ f_pos'[u] = f_pos[u] /\ loff'[u] = loff[u] /\ arg'[u] = arg[u]
      BY DEF Alone
    <2>2. fixed_size_llseek(f_pos[u], arg[u][2], arg[u][1], loff[u])' =
            fixed_size_llseek(f_pos[u], arg[u][2], arg[u][1], loff[u])
      BY <2>1
    <2> QED
      BY <2>1, <2>2 DEF Position
  <1>2. DevicePos' = [u \in Threads |-> Position(u)']
    BY DEF DevicePos
  <1> QED
    BY <1>1, <1>2 DEF DevicePos

LEMMA PositionKept ==
  ASSUME NEW t \in Threads, Alone(t), Position(t)' = Position(t)
  PROVE  DevicePos' = DevicePos
  BY PositionStep DEF DevicePos

\* The steps of a call before and after the one at which it takes effect.
LEMMA SilentStep ==
  ASSUME RefInv, NEW t \in Threads,
         \/ aesd_release(t) \/ Lock(t) \/ ReadStart(t)
         \/ \E data \in Payloads : WriteStart(t, data)
         \/ \E s \in Seeks : LlseekStart(t, s[1], s[2])
         \/ \E c \in Commands : IoctlStart(t, c[1], c[2])
         \/ WriteFree(t) \/ WriteInterrupted(t)
         \/ ReadNothing(t) \/ ReadLoad(t) \/ LlseekSet(t) \/ Interrupted(t)
  PROVE  UNCHANGED << DeviceLog, DevicePending, DevicePos, reply >>
  <1> USE DEF RefInv
  <1>1. Alone(t)
    BY StepAlone DEF Call, Run, Signal
  <1>2. DeviceLog' = DeviceLog /\ DevicePending' = DevicePending
    <2>1. CASE \/ \E data \in Payloads : WriteStart(t, data)
               \/ WriteFree(t) \/ WriteInterrupted(t)
      <3>1. UNCHANGED << loaded, buffer, part_mem_ptr >>
        BY <2>1 DEF WriteStart, WriteFree, WriteInterrupted, device
      <3>2. \A b \in allocated : b # buffptr[t] /\ b # rm_buffptr[t] => mem'[b] = mem[b]
        BY <2>1, OwnMemory
      <3>3. loaded => \A i \in Slots : EntryPtr(i) # NULL => mem'[EntryPtr(i)] = mem[EntryPtr(i)]
        BY <3>2 DEF OwnerInv, Allocated, Distinct
      <3>4. loaded /\ part_mem_ptr # NULL => mem'[part_mem_ptr] = mem[part_mem_ptr]
        BY <3>2 DEF OwnerInv, Allocated, Distinct
      <3> QED
        BY <3>1, <3>3, <3>4, LogKept
    <2>2. CASE UNCHANGED << loaded, buffer, part_mem_ptr, mem >>
      BY <2>2, LogKept
    <2> QED
      BY <2>1, <2>2, QuietLeavesHeap
  <1>3. BeforeEffect(t)
    BY DEF EffectInv
  <1>4. Position(t)' = Position(t) /\ reply' = reply
    <2> USE ThreadState DEF Goto, locals
    <2>1. CASE aesd_release(t)
      BY <2>1 DEF aesd_release, Position, fixed_size_llseek
    <2>2. CASE \/ ReadStart(t)
               \/ \E data \in Payloads : WriteStart(t, data)
               \/ \E s \in Seeks : LlseekStart(t, s[1], s[2])
               \/ \E c \in Commands : IoctlStart(t, c[1], c[2])
      <3>1. /\ pc[t] = "idle"
            /\ pc'[t] \in {"read_lock", "write_lock", "llseek_lock", "ioctl_lock"}
            /\ f_pos' = f_pos /\ reply' = reply
        BY <2>2 DEF ReadStart, WriteStart, LlseekStart, IoctlStart, Callable
      <3> QED
        BY <3>1 DEF Position
    <2>3. CASE Lock(t)
      <3>1. /\ pc[t] \in LockPoints
            /\ pc'[t] \in {"read_crit", "write_crit", "llseek_crit", "ioctl_crit"}
            /\ f_pos' = f_pos /\ reply' = reply
        BY <2>3 DEF Lock, LockPoints, CriticalSection
      <3> QED
        BY <3>1 DEF Position, LockPoints
    <2>4. CASE WriteFree(t)
      <3>1. /\ pc[t] = "write_free" /\ Return(t) /\ f_pos'[t] = loff[t]
        BY <2>4 DEF WriteFree
      <3>2. pc'[t] = "idle" /\ reply' = [reply EXCEPT ![t] = << >>]
        BY <3>1, ReturnAlone
      <3>3. reply[t] = << >>
        BY <1>3, <3>1 DEF BeforeEffect
      <3> QED
        BY <3>1, <3>2, <3>3 DEF Position
    <2>5. CASE WriteInterrupted(t) \/ ReadNothing(t) \/ Interrupted(t)
      <3>1. /\ pc[t] \in {"read_crit"} \union LockPoints /\ Return(t) /\ f_pos' = f_pos
        BY <2>5 DEF WriteInterrupted, ReadNothing, Interrupted, LockPoints
      <3>2. pc'[t] = "idle" /\ reply' = [reply EXCEPT ![t] = << >>]
        BY <3>1, ReturnAlone
      <3>3. reply[t] = << >>
        BY <1>3, <3>1 DEF BeforeEffect, LockPoints
      <3> QED
        BY <3>1, <3>2, <3>3 DEF Position, LockPoints
    <2>6. CASE ReadLoad(t)
      <3>1. /\ pc[t] = "read_load" /\ pc'[t] = "read_print"
            /\ loff' = loff /\ reply' = reply
        BY <2>6 DEF ReadLoad
      <3> QED
        BY <3>1 DEF Position
    <2>7. CASE LlseekSet(t)
      <3>1. /\ pc[t] = "llseek_set" /\ Return(t)
            /\ f_pos'[t] = fixed_size_llseek(f_pos[t], arg[t][2], arg[t][1], loff[t])
        BY <2>7 DEF LlseekSet
      <3>2. pc'[t] = "idle" /\ reply' = [reply EXCEPT ![t] = << >>]
        BY <3>1, ReturnAlone
      <3>3. reply[t] = << >>
        BY <1>3, <3>1 DEF BeforeEffect
      <3> QED
        BY <3>1, <3>2, <3>3 DEF Position
    <2> QED
      BY <2>1, <2>2, <2>3, <2>4, <2>5, <2>6, <2>7
  <1> QED
    BY <1>1, <1>2, <1>4, PositionKept

\* What the critical section of a write finds: the data of the caller, and
\* the bytes that waited for its newline.
LEMMA WriteData ==
  ASSUME RefInv, NEW t \in Threads, pc[t] = "write_crit"
  PROVE  /\ loaded /\ mem[buffptr[t]] \in DeviceData
         /\ DevicePending = Waiting
         /\ DevicePos[t] = loff[t]
  <1>1. loaded
    BY DEF RefInv, OwnerInv, CallsNeedModule
  <1>2. mem[buffptr[t]] \in DeviceData
    BY DEF RefInv, EffectInv, DataInHand, Writing
  <1>3. DevicePending = Waiting
    BY <1>1 DEF DevicePending, Waiting
  <1>4. Position(t) = f_pos[t] /\ loff[t] = f_pos[t]
    BY DEF RefInv, EffectInv, BeforeEffect, Position, Writing
  <1> QED
    BY <1>1, <1>2, <1>3, <1>4 DEF DevicePos

\* The entry that joins the log.
LEMMA WriteFullLog ==
  ASSUME RefInv, ~AllocMayFail, NEW t \in Threads, WriteFull(t)
  PROVE  /\ DeviceLog' = Append(IF Len(DeviceLog) = MaxOps THEN Tail(DeviceLog) ELSE DeviceLog,
                                Waiting \o mem[buffptr[t]])
         /\ DevicePending' = << >>
         /\ loff'[t] = loff[t] + Len(Waiting \o mem[buffptr[t]])
  <1> USE DEF RefInv
  <1> DEFINE count == Len(mem[buffptr[t]])
             size == wr_entry_size(count)
             in == buffer.in_offs
             n == Count(buffer)
             new == Waiting \o mem[buffptr[t]]
  <1>1. PICK h \in handle_partial_data(part_mem_ptr, part_buf_size, buffptr[t]) :
          /\ mem' = h.mem
          /\ buffer' = add_entry(buffer, [buffptr |-> h.ptr, size |-> size])
    BY DEF WriteFull
  <1> DEFINE e == [buffptr |-> h.ptr, size |-> size]
  <1>2. /\ pc[t] = "write_crit" /\ part_mem_ptr' = NULL /\ loaded' = loaded
        /\ loff' = [loff EXCEPT ![t] = @ + size]
    BY DEF WriteFull, ResetPartial
  <1>3. /\ h.ptr # NULL
        /\ h.mem[h.ptr] = new
        /\ \A b \in allocated \ {part_mem_ptr} : h.mem[b] = mem[b]
        /\ Waiting \in Seq(Byte) /\ Len(Waiting) = part_buf_size
        /\ mem[buffptr[t]] \in Seq(Byte)
    BY <1>2, MergedData DEF StoredInv
  <1>4. loaded
    BY <1>2, WriteData
  <1>5. new \in Seq(Byte) /\ Len(new) = size
    <2>1. count \in Nat /\ part_buf_size \in Nat
      BY <1>3, LenProperties DEF OwnerInv, OwnerTypes
    <2>2. new \in Seq(Byte) /\ Len(new) = part_buf_size + count
      BY <1>3, ConcatLength
    <2>3. part_mem_ptr = NULL => part_buf_size = 0
      BY <1>4 DEF StoredInv, PartialSizeIsStored
    <2> HIDE DEF count, new
    <2> QED
      BY <2>1, <2>2, <2>3 DEF wr_entry_size
  <1>6. loff'[t] = loff[t] + Len(new)
    BY <1>2, <1>5, ThreadState
  <1>7. DevicePending' = << >>
    BY <1>2 DEF DevicePending
  <1> HIDE DEF size
  <1>8. /\ in \in Slots
        /\ buffer'.entry = [buffer.entry EXCEPT ![in] = e]
    BY <1>1, RingOfDriver DEF add_entry, Offsets
  <1>9. /\ buffer'.entry[in] = e
        /\ \A i \in Slots \ {in} : buffer'.entry[i] = buffer.entry[i]
    <2> HIDE DEF e
    <2> QED
      BY <1>8, RingOfDriver
  <1>10. mem'[buffer'.entry[in].buffptr] = new
    BY <1>1, <1>3, <1>9
  <1>11. n \in Nat /\ Len(DeviceLog) = n /\ DeviceLog \in Seq(Seq(Byte))
    BY <1>4, LogOfRing
  <1>12. ASSUME NEW k \in 0 .. n - 1, SlotOf(buffer, k) # in
         PROVE  mem'[buffer'.entry[SlotOf(buffer, k)].buffptr] = DeviceLog[k + 1]
    <2> DEFINE i == SlotOf(buffer, k)
    <2>1. /\ i \in Slots /\ EntryPtr(i) \in allocated /\ EntryPtr(i) # part_mem_ptr
          /\ DeviceLog[k + 1] = mem[EntryPtr(i)]
      BY <1>4, LogOfRing
    <2>2. buffer'.entry[i].buffptr = EntryPtr(i)
      BY <1>9, <1>12, <2>1 DEF EntryPtr
    <2> QED
      BY <1>1, <1>3, <2>1, <2>2
  <1>13. DeviceLog' = [j \in 1 .. Count(buffer') |->
                         mem'[buffer'.entry[SlotOf(buffer', j - 1)].buffptr]]
    BY <1>2, <1>4 DEF DeviceLog, Contents
  <1> HIDE DEF e, n, in, new
  <1>14. buffer' = add_entry(buffer, e)
    BY <1>1 DEF e
  <1> DEFINE old == IF n = MaxOps THEN Tail(DeviceLog) ELSE DeviceLog
             m == Len(old)
  <1>15. /\ old \in Seq(Seq(Byte)) /\ m \in Nat /\ Count(buffer') = m + 1
         /\ SlotOf(buffer', m) = in
         /\ \A k \in 0 .. m - 1 :
              mem'[buffer'.entry[SlotOf(buffer', k)].buffptr] = old[k + 1]
    <2>1. CASE buffer.full
      <3>1. /\ Count(buffer') = MaxOps /\ n = MaxOps
            /\ SlotOf(buffer', MaxOps - 1) = in
            /\ \A k \in 0 .. MaxOps - 2 :
                 SlotOf(buffer', k) = SlotOf(buffer, k + 1) /\ SlotOf(buffer, k + 1) # in
        BY <1>14, <2>1, RingOfDriver, AddToFull DEF n, in
      <3>2. old = Tail(DeviceLog) /\ DeviceLog # << >>
        BY <1>11, <3>1, MaxOpsAssumption
      <3>3. /\ old \in Seq(Seq(Byte)) /\ m = MaxOps - 1
            /\ \A j \in 1 .. m : old[j] = DeviceLog[j + 1]
        BY <1>11, <3>1, <3>2, HeadTailProperties
      <3> HIDE DEF old, m
      <3>4. ASSUME NEW k \in 0 .. m - 1
            PROVE  mem'[buffer'.entry[SlotOf(buffer', k)].buffptr] = old[k + 1]
        <4>1. k \in 0 .. MaxOps - 2 /\ k + 1 \in 1 .. m /\ k + 1 \in 0 .. n - 1
          BY <3>1, <3>3, MaxOpsAssumption
        <4>2. SlotOf(buffer', k) = SlotOf(buffer, k + 1) /\ SlotOf(buffer, k + 1) # in
          BY <3>1, <4>1
        <4>3. old[k + 1] = DeviceLog[(k + 1) + 1]
          BY <3>3, <4>1
        <4>4. mem'[buffer'.entry[SlotOf(buffer, k + 1)].buffptr] = DeviceLog[(k + 1) + 1]
          BY <1>12, <4>1, <4>2
        <4> QED
          BY <4>2, <4>3, <4>4
      <3> QED
        BY <3>1, <3>3, <3>4, MaxOpsAssumption
    <2>2. CASE ~buffer.full
      <3>1. /\ Count(buffer') = n + 1 /\ SlotOf(buffer, n) = in
            /\ \A k \in 0 .. MaxOps - 1 : SlotOf(buffer', k) = SlotOf(buffer, k)
            /\ \A k \in 0 .. n - 1 : SlotOf(buffer, k) # in
        BY <1>14, <2>2, RingOfDriver, AddToRoom DEF n, in
      <3>2. n # MaxOps /\ n \in 0 .. MaxOps - 1
        <4>1. n \in 0 .. MaxOps /\ (n = MaxOps <=> buffer.full)
          BY RingOfDriver, CountInRange DEF n
        <4> QED
          BY <2>2, <4>1, MaxOpsAssumption
      <3>3. old = DeviceLog /\ m = n
        BY <1>11, <3>2
      <3> HIDE DEF old, m
      <3>4. SlotOf(buffer', m) = in
        BY <3>1, <3>2, <3>3
      <3>5. ASSUME NEW k \in 0 .. m - 1
            PROVE  mem'[buffer'.entry[SlotOf(buffer', k)].buffptr] = old[k + 1]
        <4>1. k \in 0 .. n - 1 /\ k \in 0 .. MaxOps - 1
          BY <3>2, <3>3, MaxOpsAssumption
        <4>2. SlotOf(buffer', k) = SlotOf(buffer, k) /\ SlotOf(buffer, k) # in
          BY <3>1, <4>1
        <4> QED
          BY <1>12, <3>3, <4>1, <4>2
      <3> QED
        BY <1>11, <3>1, <3>3, <3>4, <3>5
    <2> QED
      BY <2>1, <2>2, RingOfDriver DEF Offsets
  <1> HIDE DEF old, m
  <1>16. DeviceLog' = Append(old, new)
    <2> DEFINE res == Append(old, new)
    <2>1. /\ res \in Seq(Seq(Byte)) /\ Len(res) = m + 1
          /\ res[m + 1] = new /\ \A j \in 1 .. m : res[j] = old[j]
      BY <1>5, <1>15, AppendProperties DEF m
    <2>2. res = [j \in 1 .. m + 1 |-> res[j]]
      BY <2>1, LenProperties
    <2> HIDE DEF res
    <2>3. ASSUME NEW j \in 1 .. m + 1
          PROVE  mem'[buffer'.entry[SlotOf(buffer', j - 1)].buffptr] = res[j]
      <3>1. CASE j = m + 1
        <4>1. j - 1 = m
          BY <1>15, <3>1
        <4> QED
          BY <1>10, <1>15, <2>1, <3>1, <4>1
      <3>2. CASE j # m + 1
        <4>1. j - 1 \in 0 .. m - 1 /\ (j - 1) + 1 = j /\ j \in 1 .. m
          BY <1>15, <3>2
        <4>2. mem'[buffer'.entry[SlotOf(buffer', j - 1)].buffptr] = old[(j - 1) + 1]
          BY <1>15, <4>1
        <4> QED
          BY <2>1, <4>1, <4>2
      <3> QED
        BY <3>1, <3>2
    <2>4. DeviceLog' = [j \in 1 .. m + 1 |->
                          mem'[buffer'.entry[SlotOf(buffer', j - 1)].buffptr]]
      BY <1>13, <1>15
    <2>5. DeviceLog' = res
      BY <2>2, <2>3, <2>4
    <2> QED
      BY <2>5 DEF res
  <1> QED
    BY <1>6, <1>7, <1>11, <1>16 DEF old, new

\* A write takes effect in its critical section.
LEMMA WriteDevice ==
  ASSUME RefInv, ~AllocMayFail, NEW t \in Threads, WriteFull(t) \/ WritePartial(t)
  PROVE  Device!Write(t, mem[buffptr[t]])
  <1> USE DEF RefInv
  <1> DEFINE data == mem[buffptr[t]]
  <1>1. pc[t] = "write_crit"
    BY DEF WriteFull, WritePartial
  <1>2. /\ loaded /\ DevicePending = Waiting /\ DevicePos[t] = loff[t]
    BY <1>1, WriteData
  <1>3. Alone(t)
    BY StepAlone DEF Run
  <1>4. DevicePos' = [DevicePos EXCEPT ![t] = Position(t)']
    BY <1>3, PositionStep
  <1>5. CASE WriteFull(t)
    <2>1. /\ DeviceLog' = Append(IF Len(DeviceLog) = MaxOps THEN Tail(DeviceLog) ELSE DeviceLog,
                                 Waiting \o data)
          /\ DevicePending' = << >>
          /\ loff'[t] = loff[t] + Len(Waiting \o data)
      BY <1>5, WriteFullLog
    <2>2. Device!Complete(data) /\ reply' = reply /\ pc'[t] = "write_free"
      BY <1>5, ThreadState DEF WriteFull, is_data_partial, Device!Complete, Goto
    <2>3. Position(t)' = loff'[t]
      BY <2>2 DEF Position
    <2> HIDE DEF data
    <2>4. DevicePos' = [DevicePos EXCEPT ![t] = @ + Len(Waiting \o data)]
      BY <1>2, <1>4, <2>1, <2>3
    <2> QED
      BY <1>2, <2>1, <2>2, <2>4 DEF Device!Write, data
  <1>6. CASE WritePartial(t)
    <2>1. PICK h \in handle_partial_data(part_mem_ptr, part_buf_size, buffptr[t]) :
            mem' = h.mem /\ part_mem_ptr' = h.ptr
      BY <1>6 DEF WritePartial
    <2>2. /\ loaded' = loaded /\ buffer' = buffer /\ f_pos' = f_pos /\ Return(t)
          /\ is_data_partial(data)
      BY <1>6 DEF WritePartial
    <2>3. /\ h.ptr # NULL /\ h.mem[h.ptr] = Waiting \o data
          /\ \A b \in allocated \ {part_mem_ptr} : h.mem[b] = mem[b]
      BY <1>1, MergedData DEF StoredInv
    <2>4. DevicePending' = Waiting \o data
      BY <1>2, <2>1, <2>2, <2>3 DEF DevicePending
    <2>5. ~Device!Complete(data)
      BY <2>2 DEF is_data_partial, Device!Complete
    <2>6. pc'[t] = "idle" /\ reply' = [reply EXCEPT ![t] = << >>]
      BY <2>2, ReturnAlone
    <2>7. reply[t] = << >>
      BY <1>1 DEF EffectInv, BeforeEffect
    <2>8. reply' = reply
      BY <2>6, <2>7, ThreadState
    <2>9. Position(t)' = Position(t)
      BY <1>1, <2>2, <2>6 DEF Position
    <2>10. DevicePos' = DevicePos
      BY <1>3, <2>9, PositionKept
    <2>11. DeviceLog' = DeviceLog
      <3>1. ASSUME NEW k \in 1 .. Count(buffer)
            PROVE  mem'[Contents(buffer)[k].buffptr] = mem[Contents(buffer)[k].buffptr]
        <4>1. k - 1 \in 0 .. Count(buffer) - 1
          BY <1>2, LogOfRing
        <4>2. Contents(buffer)[k].buffptr = EntryPtr(SlotOf(buffer, k - 1))
          BY DEF Contents, EntryPtr
        <4>3. EntryPtr(SlotOf(buffer, k - 1)) \in allocated \ {part_mem_ptr}
          BY <1>2, <4>1, LogOfRing
        <4> QED
          BY <2>1, <2>3, <4>2, <4>3
      <3>2. /\ DeviceLog = [k \in 1 .. Count(buffer) |-> mem[Contents(buffer)[k].buffptr]]
            /\ DeviceLog' = [k \in 1 .. Count(buffer) |-> mem'[Contents(buffer)[k].buffptr]]
        BY <1>2, <2>2 DEF DeviceLog, Count, Contents, SlotOf
      <3> QED
        BY <3>1, <3>2
    <2> HIDE DEF data
    <2> QED
      BY <1>2, <2>4, <2>5, <2>8, <2>10, <2>11 DEF Device!Write, data
  <1> QED
    BY <1>5, <1>6

\* The lookup at a position that fits finds the write the position is in.
LEMMA LookupAgrees ==
  ASSUME RefInv, FitsInt, loaded, NEW off \in Nat, off < 2^IntBits,
         find_entry(buffer, off).found
  PROVE  \E k \in 0 .. Count(buffer) - 1 :
           /\ Device!Offset(k) <= off /\ off < Device!Offset(k + 1)
           /\ Device!Offset(k + 1) = Device!Offset(k) + buffer.entry[SlotOf(buffer, k)].size
           /\ Device!Offset(k) \in Nat
           /\ find_entry(buffer, off) = [found |-> TRUE, slot |-> SlotOf(buffer, k),
                                         rel |-> off - Device!Offset(k)]
  <1> DEFINE n == Count(buffer)
  <1>1. Offsets(buffer) /\ Sized(buffer)
    BY RingOfDriver DEF RefInv
  <1>2. PICK pre : Prefix(buffer, pre)
    BY <1>1, PrefixExists
  <1>3. n \in Nat /\ pre[n] \in Nat
    BY <1>1, <1>2, CountInRange DEF Prefix
  <1>4. off \in 0 .. 2^IntBits - 1
    BY PowersAssumption
  <1>5. off < pre[n]
    <2>1. CASE pre[n] <= off
      <3>1. find_entry(buffer, off) = NotFound
        BY <1>1, <1>2, <1>4, <2>1, FindMiss
      <3> QED
        BY <3>1 DEF NotFound
    <2> QED
      BY <1>3, <2>1
  <1>6. PICK k \in 0 .. n - 1 : pre[k] <= off /\ off < pre[k + 1]
    BY <1>1, <1>2, <1>5, PrefixCovers
  <1>7. /\ SlotOf(buffer, k) \in Slots
        /\ pre[k] \in Nat /\ pre[k + 1] = pre[k] + buffer.entry[SlotOf(buffer, k)].size
    BY <1>1, <1>2, LiveSlot
  <1>8. buffer.entry[SlotOf(buffer, k)].size <= 2^(IntBits - 1)
    BY <1>7 DEF FitsInt
  <1>9. find_entry(buffer, off) = [found |-> TRUE, slot |-> SlotOf(buffer, k),
                                   rel |-> off - pre[k]]
    BY <1>1, <1>2, <1>4, <1>6, <1>8, FindHit
  <1>10. Device!Offset(k) = pre[k] /\ Device!Offset(k + 1) = pre[k + 1]
    <2>1. k \in 0 .. n /\ k + 1 \in 0 .. n
      BY <1>3
    <2>2. \A j \in 0 .. n : Device!Offset(j) = pre[j]
      BY <1>2, OffsetsOfRing
    <2> QED
      BY <2>1, <2>2
  <1> QED
    BY <1>6, <1>7, <1>9, <1>10

\* A read takes effect in its critical section, or not at all.
LEMMA ReadDevice ==
  ASSUME RefInv, FitsInt, NEW t \in Threads, ReadEntry(t)
  PROVE  \/ Device!Read(t)
         \/ UNCHANGED << DeviceLog, DevicePending, DevicePos, reply >>
  <1> USE DEF RefInv
  <1> DEFINE r == find_entry(buffer, loff[t])
             e == buffer.entry[r.slot]
             off == loff[t]
  <1>1. /\ pc[t] = "read_crit" /\ r.found
        /\ \/ /\ e.buffptr # NULL
              /\ \E s \in BytesAt(e.buffptr, e.size) :
                   reply' = [reply EXCEPT ![t] = SubSeq(s, r.rel + 1, e.size)]
              /\ loff' = [loff EXCEPT ![t] = @ + (e.size - r.rel)]
           \/ UNCHANGED << reply, loff >>
        /\ pc' = [pc EXCEPT ![t] = "read_load"]
        /\ UNCHANGED << loaded, buffer, part_mem_ptr, mem >>
    BY DEF ReadEntry, Goto, device, heap
  <1>2. loaded /\ off \in Nat /\ off < 2^IntBits
    BY <1>1, ThreadState DEF OwnerInv, CallsNeedModule, FitsInt
  <1>3. DevicePos[t] = off /\ loff[t] = f_pos[t]
    <2>1. Position(t) = f_pos[t] /\ loff[t] = f_pos[t]
      BY <1>1 DEF EffectInv, BeforeEffect, Position
    <2> QED
      BY <2>1 DEF DevicePos
  <1>4. DeviceLog' = DeviceLog /\ DevicePending' = DevicePending
    BY <1>1, LogKept
  <1>5. Alone(t)
    BY StepAlone DEF Run
  <1>6. DevicePos' = [DevicePos EXCEPT ![t] = loff'[t]]
    <2>1. Position(t)' = loff'[t]
      BY <1>1, ThreadState DEF Position
    <2> QED
      BY <1>5, <2>1, PositionStep
  <1>7. CASE UNCHANGED << reply, loff >>
    BY <1>3, <1>4, <1>6, <1>7 DEF DevicePos
  <1>8. CASE /\ e.buffptr # NULL
             /\ \E s \in BytesAt(e.buffptr, e.size) :
                  reply' = [reply EXCEPT ![t] = SubSeq(s, r.rel + 1, e.size)]
             /\ loff' = [loff EXCEPT ![t] = @ + (e.size - r.rel)]
    <2>1. PICK s \in BytesAt(e.buffptr, e.size) :
            reply' = [reply EXCEPT ![t] = SubSeq(s, r.rel + 1, e.size)]
      BY <1>8
    <2>2. PICK k \in 0 .. Count(buffer) - 1 :
            /\ Device!Offset(k) <= off /\ off < Device!Offset(k + 1)
            /\ Device!Offset(k + 1) = Device!Offset(k) + buffer.entry[SlotOf(buffer, k)].size
            /\ Device!Offset(k) \in Nat
            /\ r = [found |-> TRUE, slot |-> SlotOf(buffer, k), rel |-> off - Device!Offset(k)]
      BY <1>1, <1>2, LookupAgrees
    <2> DEFINE i == SlotOf(buffer, k)
               base == Device!Offset(k)
               w == DeviceLog[k + 1]
    <2> HIDE DEF r
    <2>3. r.slot = i /\ r.rel = off - base
      BY <2>2
    <2>4. /\ i \in Slots /\ EntryPtr(i) \in Blocks
          /\ w = mem[EntryPtr(i)] /\ Len(w) = buffer.entry[i].size
          /\ Count(buffer) \in Nat /\ Len(DeviceLog) = Count(buffer)
      BY <1>2, LogOfRing
    <2>5. e.size = Len(w) /\ e.buffptr = EntryPtr(i)
      BY <2>3, <2>4 DEF EntryPtr
    <2>6. w \in Seq(Byte)
      BY <2>4 DEF OwnerInv, OwnerTypes
    <2> HIDE DEF e, w
    <2>7. s = w
      <3>1. s \in [1 .. Len(w) -> Byte] /\ \A j \in 1 .. Len(w) : s[j] = w[j]
        BY <2>4, <2>5 DEF BytesAt
      <3>2. s \in Seq(Byte) /\ Len(s) = Len(w)
        BY <2>6, <3>1, SeqDef, LenProperties
      <3> QED
        BY <2>6, <3>1, <3>2, SeqEqual
    <2>8. loff'[t] = Device!Offset(k + 1)
      <3>1. loff'[t] = off + (Len(w) - (off - base))
        BY <1>8, <2>3, <2>5, ThreadState
      <3>2. Device!Offset(k + 1) = base + Len(w) /\ base \in Nat /\ Len(w) \in Nat
        BY <2>2, <2>4, <2>6, LenProperties
      <3> HIDE DEF off, base
      <3>3. off \in Nat
        BY <1>2 DEF off
      <3> QED
        BY <3>1, <3>2, <3>3
    <2>9. k + 1 \in 1 .. Len(DeviceLog) /\ (k + 1) - 1 = k
      BY <2>4
    <2>10. reply' = [reply EXCEPT ![t] = SubSeq(w, off - base + 1, Len(w))]
      BY <2>1, <2>3, <2>5, <2>7
    <2> DEFINE j == k + 1
    <2>11. /\ j \in 1 .. Len(DeviceLog)
           /\ Device!Offset(j - 1) <= DevicePos[t] /\ DevicePos[t] < Device!Offset(j)
           /\ reply' = [reply EXCEPT ![t] = SubSeq(DeviceLog[j], DevicePos[t] - Device!Offset(j - 1) + 1,
                                                   Len(DeviceLog[j]))]
           /\ DevicePos' = [DevicePos EXCEPT ![t] = Device!Offset(j)]
      <3>1. Device!Offset(j - 1) = base
        BY <2>9
      <3> QED
        BY <1>3, <1>6, <2>2, <2>8, <2>9, <2>10, <3>1 DEF w
    <2> HIDE DEF j
    <2> QED
      BY <1>4, <2>11 DEF Device!Read
  <1> QED
    BY <1>1, <1>7, <1>8

\* The reply is handed over when the read returns.
LEMMA ReadReturnsDevice ==
  ASSUME RefInv, NEW t \in Threads, ReadPrint(t)
  PROVE  Device!ReadReturns(t)
  <1> USE DEF RefInv
  <1>1. /\ pc[t] = "read_print" /\ Return(t) /\ f_pos'[t] = loff[t]
        /\ UNCHANGED << loaded, buffer, part_mem_ptr, mem >>
    BY ThreadState DEF ReadPrint, device, heap
  <1>2. pc'[t] = "idle" /\ reply' = [reply EXCEPT ![t] = << >>]
    BY <1>1, ReturnAlone
  <1>3. Position(t)' = Position(t)
    BY <1>1, <1>2 DEF Position
  <1>4. Alone(t)
    BY StepAlone DEF Run
  <1>5. DevicePos' = DevicePos
    BY <1>3, <1>4, PositionKept
  <1>6. DeviceLog' = DeviceLog /\ DevicePending' = DevicePending
    BY <1>1, LogKept
  <1> QED
    BY <1>2, <1>5, <1>6 DEF Device!ReadReturns

\* llseek takes effect when it reads the size.
LEMMA SeekDevice ==
  ASSUME RefInv, FitsInt, NEW t \in Threads, LlseekSize(t)
  PROVE  \/ \E s \in Seeks : Device!Seek(t, s[1], s[2])
         \/ UNCHANGED << DeviceLog, DevicePending, DevicePos, reply >>
  <1> USE DEF RefInv
  <1> DEFINE s == arg[t]
             size == buffer.cb_size
             at == f_pos[t]
             to == s[2] + CASE s[1] = 0 -> 0 [] s[1] = 1 -> at [] s[1] = 2 -> size
  <1>1. /\ pc[t] = "llseek_crit" /\ pc'[t] = "llseek_set" /\ loff'[t] = size
        /\ UNCHANGED << loaded, buffer, part_mem_ptr, mem, f_pos, arg, reply >>
    BY ThreadState DEF LlseekSize, Goto, device, heap
  <1>2. s \in Seeks
    BY <1>1 DEF EffectInv, BeforeEffect
  <1>3. DeviceLog' = DeviceLog /\ DevicePending' = DevicePending
    BY <1>1, LogKept
  <1>4. loaded /\ Device!Size = size
    <2>1. loaded
      BY <1>1 DEF OwnerInv, CallsNeedModule
    <2>2. PICK pre : Prefix(buffer, pre)
      BY RingOfDriver, PrefixExists
    <2> DEFINE all == pre[Count(buffer)]
    <2>3. Device!Size = all /\ buffer.cb_size = all % 2^IntBits
      BY <2>1, <2>2, OffsetsOfRing
    <2>4. all \in Nat /\ all < 2^IntBits
      <3>1. Count(buffer) \in 0 .. Count(buffer)
        BY RingOfDriver, CountInRange
      <3>2. pre \in [0 .. Count(buffer) -> Nat]
        BY <2>2 DEF Prefix
      <3>3. all < 2^IntBits
        BY <2>2 DEF FitsInt
      <3> QED
        BY <3>1, <3>2, <3>3
    <2> HIDE DEF all
    <2>5. all % 2^IntBits = all
      BY <2>4, ModOfSmall
    <2> QED
      BY <2>1, <2>3, <2>5
  <1>5. DevicePos[t] = at
    BY <1>1 DEF DevicePos, Position
  <1>6. Alone(t)
    BY StepAlone DEF Run
  <1>7. Position(t)' = fixed_size_llseek(at, s[2], s[1], size)
    <2>1. Position(t)' = fixed_size_llseek(f_pos[t], arg[t][2], arg[t][1], loff[t])'
      BY <1>1 DEF Position
    <2> QED
      BY <1>1, <2>1
  <1>8. fixed_size_llseek(at, s[2], s[1], size) = IF to \in 0 .. size THEN to ELSE at
    BY DEF fixed_size_llseek, SEEK_SET, SEEK_CUR, SEEK_END
  <1>9. DevicePos' = [DevicePos EXCEPT ![t] = IF to \in 0 .. size THEN to ELSE at]
    <2> HIDE DEF to, s, size, at
    <2> QED
      BY <1>6, <1>7, <1>8, PositionStep
  <1>10. CASE to \in 0 .. size
    <2>1. to = s[2] + CASE s[1] = 0 -> 0 [] s[1] = 1 -> DevicePos[t] [] s[1] = 2 -> Device!Size
      BY <1>4, <1>5, Zenon
    <2>2. DevicePos' = [DevicePos EXCEPT ![t] = to]
      <3> HIDE DEF to
      <3> QED
        BY <1>9, <1>10
    <2> HIDE DEF to, s, size
    <2>3. Device!Seek(t, s[1], s[2])
      BY <1>1, <1>3, <1>4, <1>10, <2>1, <2>2 DEF Device!Seek
    <2> QED
      BY <1>2, <2>3
  <1>11. CASE to \notin 0 .. size
    <2> HIDE DEF to, size
    <2>1. DevicePos' = [DevicePos EXCEPT ![t] = at]
      BY <1>9, <1>11
    <2>2. DevicePos' = DevicePos
      BY <1>5, <2>1 DEF DevicePos
    <2> QED
      BY <1>1, <1>3, <2>2
  <1> QED
    BY <1>10, <1>11

\* The ioctl takes effect in its critical section when it is accepted.
LEMMA SeekToDevice ==
  ASSUME RefInv, NEW t \in Threads, IoctlSeek(t)
  PROVE  \/ \E s \in Commands : Device!SeekTo(t, s[1], s[2])
         \/ UNCHANGED << DeviceLog, DevicePending, DevicePos, reply >>
  <1> USE DEF RefInv
  <1> DEFINE s == arg[t]
             cmd == s[1]
             off == s[2]
             r == adjust_file_offset(buffer, cmd, off)
             n == Count(buffer)
  <1>1. /\ pc[t] = "ioctl_crit" /\ Return(t)
        /\ f_pos'[t] = IF r.ok THEN r.fpos ELSE f_pos[t]
        /\ UNCHANGED << loaded, buffer, part_mem_ptr, mem >>
    BY ThreadState DEF IoctlSeek, device, heap
  <1>2. s \in Commands /\ cmd \in Nat /\ off \in Nat /\ reply[t] = << >> /\ loaded
    BY <1>1 DEF EffectInv, BeforeEffect, CallInv, SeekArgs, OwnerInv, CallsNeedModule
  <1>3. DeviceLog' = DeviceLog /\ DevicePending' = DevicePending
    BY <1>1, LogKept
  <1>4. pc'[t] = "idle" /\ reply' = reply
    <2>1. pc'[t] = "idle" /\ reply' = [reply EXCEPT ![t] = << >>]
      BY <1>1, ReturnAlone
    <2> QED
      BY <1>2, <2>1, ThreadState
  <1>5. DevicePos' = [DevicePos EXCEPT ![t] = f_pos'[t]] /\ DevicePos[t] = f_pos[t]
    <2>1. Alone(t)
      BY StepAlone DEF Run
    <2>2. Position(t)' = f_pos'[t] /\ Position(t) = f_pos[t]
      BY <1>1, <1>4 DEF Position
    <2> QED
      BY <2>1, <2>2, PositionStep DEF DevicePos
  <1>6. PICK pre : Prefix(buffer, pre)
    BY RingOfDriver, PrefixExists
  <1>7. /\ n \in Nat /\ Len(DeviceLog) = n /\ DeviceLog \in Seq(Seq(Byte))
        /\ \A k \in 0 .. n - 1 : /\ Len(DeviceLog[k + 1]) = buffer.entry[SlotOf(buffer, k)].size
                                 /\ buffer.entry[SlotOf(buffer, k)].size \in Nat
    <2>1. n \in Nat /\ Len(DeviceLog) = n /\ DeviceLog \in Seq(Seq(Byte))
      BY <1>2, LogOfRing
    <2>2. \A k \in 0 .. n - 1 : /\ Len(DeviceLog[k + 1]) = buffer.entry[SlotOf(buffer, k)].size
                                /\ SlotOf(buffer, k) \in Slots
      BY <1>2, LogOfRing
    <2> QED
      BY <2>1, <2>2, RingOfDriver
  <1>8. \A k \in 0 .. n : Device!Offset(k) = pre[k]
    BY <1>2, <1>6, OffsetsOfRing
  <1>9. IsEmpty(buffer) <=> n = 0
    BY RingOfDriver, CountInRange
  <1>10. DeviceLog = << >> <=> n = 0
    <2> HIDE DEF n
    <2> QED
      BY <1>7, EmptySeq
  <1>11. r = IF IsEmpty(buffer) THEN [ok |-> TRUE, fpos |-> 0]
             ELSE IF cmd < n /\ buffer.entry[SlotOf(buffer, cmd)].size >= off
                  THEN [ok |-> TRUE, fpos |-> pre[cmd] + off]
                  ELSE SeekFailed
    <2> HIDE DEF cmd, off
    <2> QED
      BY <1>2, <1>6, RingOfDriver, SeekResult
  <1> HIDE DEF cmd, off, r, n
  <1>12. CASE IsEmpty(buffer)
    <2>1. f_pos'[t] = 0
      BY <1>1, <1>11, <1>12
    <2>2. DevicePos' = [DevicePos EXCEPT ![t] = IF DeviceLog = << >> THEN 0
                                                ELSE Device!Offset(cmd) + off]
      BY <1>5, <1>9, <1>10, <1>12, <2>1
    <2>3. Device!SeekTo(t, cmd, off)
      BY <1>3, <1>4, <1>9, <1>10, <1>12, <2>2 DEF Device!SeekTo, Device!SeekAccepted, Device!Within
    <2> QED
      BY <1>2, <2>3 DEF cmd, off
  <1>13. CASE ~IsEmpty(buffer) /\ cmd < n /\ buffer.entry[SlotOf(buffer, cmd)].size >= off
    <2>1. cmd \in 0 .. n - 1 /\ cmd \in 0 .. n
      BY <1>2, <1>7, <1>13
    <2>2. f_pos'[t] = Device!Offset(cmd) + off
      BY <1>1, <1>8, <1>11, <1>13, <2>1
    <2>3. /\ off < Len(DeviceLog[cmd + 1]) \/ off = Len(DeviceLog[cmd + 1])
          /\ cmd < Len(DeviceLog)
      BY <1>2, <1>7, <1>13, <2>1
    <2>4. DevicePos' = [DevicePos EXCEPT ![t] = IF DeviceLog = << >> THEN 0
                                                ELSE Device!Offset(cmd) + off]
      BY <1>5, <1>9, <1>10, <1>13, <2>2
    <2>5. Device!SeekTo(t, cmd, off)
      BY <1>3, <1>4, <2>3, <2>4 DEF Device!SeekTo, Device!SeekAccepted, Device!Within
    <2> QED
      BY <1>2, <2>5 DEF cmd, off
  <1>14. CASE ~IsEmpty(buffer) /\ ~(cmd < n /\ buffer.entry[SlotOf(buffer, cmd)].size >= off)
    <2>1. r = SeekFailed
      BY <1>11, <1>14
    <2>2. f_pos'[t] = f_pos[t]
      BY <1>1, <2>1 DEF SeekFailed
    <2>3. DevicePos' = DevicePos
      BY <1>5, <2>2 DEF DevicePos
    <2> QED
      BY <1>3, <1>4, <2>3
  <1> QED
    BY <1>12, <1>13, <1>14

\* Opening a file rewinds it; loading the module changes nothing for the
\* callers, of which there are none; unloading it loses the writes.
LEMMA ModuleDevice ==
  ASSUME RefInv, \/ aesd_init_module \/ aesd_cleanup_module
                 \/ \E t \in Threads : aesd_open(t)
  PROVE  \/ Device!Unload \/ \E t \in Threads : Device!Open(t)
         \/ UNCHANGED << DeviceLog, DevicePending, DevicePos, reply >>
  <1> USE DEF RefInv
  <1>1. ASSUME \A t \in Threads : pc[t] = "idle", UNCHANGED << pc, f_pos >>
        PROVE  DevicePos' = DevicePos
    BY <1>1 DEF DevicePos, Position
  <1>2. CASE aesd_init_module
    <2>1. \A t \in Threads : pc[t] = "idle"
      BY <1>2 DEF aesd_init_module, OwnerInv, CallsNeedModule
    <2>2. /\ UNCHANGED << pc, f_pos, reply >> /\ ~loaded
          /\ loaded' /\ buffer' = EmptyRing /\ part_mem_ptr' = NULL
      BY <1>2 DEF aesd_init_module, locals
    <2>3. Count(buffer') = 0
      BY <2>2 DEF Count, EmptyRing
    <2>4. DeviceLog = << >> /\ DeviceLog' = << >>
      BY <2>2, <2>3 DEF DeviceLog
    <2>5. DevicePending = << >> /\ DevicePending' = << >>
      BY <2>2 DEF DevicePending
    <2> QED
      BY <1>1, <2>1, <2>2, <2>4, <2>5
  <1>3. CASE aesd_cleanup_module
    <2>1. \A t \in Threads : pc[t] = "idle"
      BY <1>3 DEF aesd_cleanup_module, OwnerInv, CallsNeedModule
    <2>2. UNCHANGED << pc, f_pos, reply >> /\ ~loaded'
      BY <1>3 DEF aesd_cleanup_module, locals
    <2>3. DeviceLog' = << >> /\ DevicePending' = << >>
      BY <2>2 DEF DeviceLog, DevicePending
    <2> QED
      BY <1>1, <2>1, <2>2, <2>3 DEF Device!Unload
  <1>4. ASSUME NEW t \in Threads, aesd_open(t) PROVE Device!Open(t)
    <2>1. /\ pc[t] = "idle" /\ f_pos'[t] = 0
          /\ UNCHANGED << loaded, buffer, part_mem_ptr, mem, pc, reply >>
      BY <1>4, ThreadState DEF aesd_open, device, heap, locals, OwnerInv, CallsNeedModule
    <2>2. Position(t)' = 0
      BY <2>1 DEF Position
    <2>3. Alone(t)
      BY <1>4, StepAlone DEF Call
    <2>4. DevicePos' = [DevicePos EXCEPT ![t] = 0]
      BY <2>2, <2>3, PositionStep
    <2>5. DeviceLog' = DeviceLog /\ DevicePending' = DevicePending
      BY <2>1, LogKept
    <2> QED
      BY <2>1, <2>4, <2>5 DEF Device!Open
  <1> QED
    BY <1>2, <1>3, <1>4

\* Every step of the driver is a step of the device or changes nothing that
\* a caller can see.
LEMMA NextDevice ==
  ASSUME RefInv, FitsInt, ~AllocMayFail, [Next]_vars
  PROVE  [Device!Next]_(Device!vars)
  <1> DEFINE Silent == UNCHANGED << DeviceLog, DevicePending, DevicePos, reply >>
  <1>1. Silent => UNCHANGED Device!vars
    BY DEF Device!vars
  <1>2. CASE UNCHANGED vars
    <2>1. UNCHANGED << loaded, buffer, part_mem_ptr, mem, pc, f_pos, loff, arg, reply >>
      BY <1>2 DEF vars, device, heap, locals
    <2>2. DeviceLog' = DeviceLog /\ DevicePending' = DevicePending
      BY <2>1, LogKept
    <2>3. DevicePos' = DevicePos
      <3>1. ASSUME NEW t \in Threads PROVE Position(t)' = Position(t)
        <4>1. fixed_size_llseek(f_pos[t], arg[t][2], arg[t][1], loff[t])' =
                fixed_size_llseek(f_pos[t], arg[t][2], arg[t][1], loff[t])
          BY <2>1
        <4> QED
          BY <2>1, <4>1 DEF Position
      <3> QED
        BY <3>1 DEF DevicePos
    <2> QED
      BY <1>1, <2>1, <2>2, <2>3
  <1>3. CASE \/ aesd_init_module \/ aesd_cleanup_module \/ \E t \in Threads : aesd_open(t)
    BY <1>1, <1>3, ModuleDevice DEF Device!Next
  <1>4. ASSUME NEW t \in Threads,
               \/ aesd_release(t) \/ Lock(t) \/ ReadStart(t)
               \/ \E data \in Payloads : WriteStart(t, data)
               \/ \E s \in Seeks : LlseekStart(t, s[1], s[2])
               \/ \E c \in Commands : IoctlStart(t, c[1], c[2])
               \/ WriteFree(t) \/ WriteInterrupted(t)
               \/ ReadNothing(t) \/ ReadLoad(t) \/ LlseekSet(t) \/ Interrupted(t)
        PROVE  UNCHANGED Device!vars
    BY <1>1, <1>4, SilentStep
  <1>5. ASSUME NEW t \in Threads, WriteFull(t) \/ WritePartial(t) PROVE Device!Next
    <2>1. Device!Write(t, mem[buffptr[t]])
      BY <1>5, WriteDevice
    <2>2. mem[buffptr[t]] \in DeviceData
      BY <1>5, WriteData DEF WriteFull, WritePartial
    <2> QED
      BY <2>1, <2>2 DEF Device!Next
  <1>6. ASSUME NEW t \in Threads, ReadEntry(t) PROVE [Device!Next]_(Device!vars)
    BY <1>1, <1>6, ReadDevice DEF Device!Next
  <1>7. ASSUME NEW t \in Threads, ReadPrint(t) PROVE Device!Next
    BY <1>7, ReadReturnsDevice DEF Device!Next
  <1>8. ASSUME NEW t \in Threads, LlseekSize(t) PROVE [Device!Next]_(Device!vars)
    BY <1>1, <1>8, SeekDevice DEF Device!Next
  <1>9. ASSUME NEW t \in Threads, IoctlSeek(t) PROVE [Device!Next]_(Device!vars)
    BY <1>1, <1>9, SeekToDevice DEF Device!Next
  <1> QED
    BY <1>2, <1>3, <1>4, <1>5, <1>6, <1>7, <1>8, <1>9 DEF Next, Call, Run, Signal

LEMMA InitDevice == Init => Device!Init
  <1> SUFFICES ASSUME Init PROVE Device!Init
    OBVIOUS
  <1>1. DeviceLog = << >> /\ DevicePending = << >>
    BY DEF Init, DeviceLog, DevicePending
  <1>2. DevicePos = [t \in Threads |-> 0]
    BY DEF Init, DevicePos, Position
  <1> QED
    BY <1>1, <1>2 DEF Init, Device!Init

\* While kmalloc succeeds and positions and sizes fit, the driver implements
\* the device: every call, however its steps interleave with those of others
\* and with signals, has the effect of one instant.
THEOREM DriverImplementsDevice ==
  ASSUME ~AllocMayFail
  PROVE  Spec /\ []FitsInt => DeviceSpec
  <1>1. Init => Device!Init
    BY InitDevice
  <1>2. Init => StoredInv /\ EffectInv
    <2> SUFFICES ASSUME Init PROVE StoredInv /\ EffectInv
      OBVIOUS
    <2> QED
      BY DEF Init, StoredInv, SlotsStored, PartialSizeIsStored, EffectInv, DataInHand,
             BeforeEffect, Writing
  <1>3. OwnerInv /\ Fills(buffer) /\ StoredInv /\ [Next]_vars => StoredInv'
    BY NextStored
  <1>4. OwnerInv /\ CallInv /\ StoredInv /\ EffectInv /\ [Next]_vars => EffectInv'
    BY NextEffect
  <1>5. OwnerInv /\ CallInv /\ Fills(buffer) /\ StoredInv /\ EffectInv /\ FitsInt
          /\ [Next]_vars => [Device!Next]_(Device!vars)
    BY NextDevice DEF RefInv
  <1> QED
    BY <1>1, <1>2, <1>3, <1>4, <1>5, OwnerInvariant, CallInvariant, FillsInvariant, PTL
      DEF Spec, DeviceSpec, Device!Spec

-----------------------------------------------------------------------------
(***************************************************************************)
(* Numbers that fit.  Under bounds on the constants FitsInt is an          *)
(* invariant of the driver that is used as aesdsocket uses it.             *)
(***************************************************************************)

\* No position exceeds this when no packet is longer than P: a write starts
\* at MaxPos or below, and every other position is inside the ring.
Reach(P) == MaxPos + P + MaxOps * P

\* Packets of up to P bytes cannot make a position or a size too large.
PacketsFit(P) ==
  /\ P \in Nat /\ \A data \in Payloads : Len(data) <= P
  /\ P <= 2^(IntBits - 1) /\ Reach(P) < 2^IntBits

\* Positions stay in reach, a write in progress began at a bounded position,
\* and entries are packets.
FitInv(P) ==
  /\ \A t \in Threads : f_pos[t] <= Reach(P) /\ loff[t] <= Reach(P)
  /\ \A t \in Threads : pc[t] \in Writing => loff[t] <= MaxPos
  /\ \A i \in Slots : buffer.entry[i].size <= P

\* The products are named before the arithmetic that uses them.
LEMMA ReachIsNat ==
  ASSUME NEW P \in Nat
  PROVE  MaxOps * P \in Nat /\ MaxPos \in Nat /\ Reach(P) \in Nat
         /\ MaxOps * P <= Reach(P) /\ MaxPos + P <= Reach(P)
  <1>1. MaxOps \in Nat /\ MaxPos \in Nat
    BY MaxOpsAssumption, AesdCharAssumption
  <1>2. MaxOps * P \in Nat
    BY <1>1
  <1> DEFINE x == MaxOps * P
  <1>3. Reach(P) = MaxPos + P + x
    BY DEF Reach
  <1> HIDE DEF x
  <1>4. x \in Nat
    BY <1>2 DEF x
  <1> QED
    BY <1>1, <1>3, <1>4 DEF x

\* A ring of entries of up to P bytes.
LEMMA PrefixBound ==
  ASSUME Offsets(buffer), Sized(buffer), NEW P \in Nat,
         \A i \in Slots : buffer.entry[i].size <= P,
         NEW pre, Prefix(buffer, pre), NEW n \in 0 .. Count(buffer)
  PROVE  pre[n] \in Nat /\ pre[n] <= MaxOps * P
  <1> DEFINE S == {k \in Nat : k <= Count(buffer) => pre[k] <= k * P}
  <1>1. Count(buffer) \in 0 .. MaxOps /\ MaxOps \in Nat
        /\ \A k \in 0 .. Count(buffer) : pre[k] \in Nat
    BY CountInRange, MaxOpsAssumption DEF Prefix
  <1>2. 0 \in S
    BY DEF Prefix
  <1>3. ASSUME NEW k \in Nat, k \in S PROVE k + 1 \in S
    <2>1. CASE k + 1 <= Count(buffer)
      <3>1. k \in 0 .. Count(buffer) - 1 /\ pre[k] <= k * P
        BY <1>1, <1>3, <2>1
      <3> DEFINE size == buffer.entry[SlotOf(buffer, k)].size
                 a == pre[k]
                 b == pre[k + 1]
      <3>2. SlotOf(buffer, k) \in Slots /\ size \in Nat /\ a \in Nat /\ b = a + size
        BY <3>1, LiveSlot
      <3>3. size <= P /\ a <= k * P
        BY <3>1, <3>2
      <3> HIDE DEF size, a, b
      <3>4. (k + 1) * P = k * P + P /\ k * P \in Nat
        OBVIOUS
      <3>5. b <= (k + 1) * P
        BY <3>2, <3>3, <3>4
      <3> QED
        BY <3>5 DEF b
    <2>2. CASE ~(k + 1 <= Count(buffer))
      BY <2>2
    <2> QED
      BY <2>1, <2>2
  <1>4. \A k \in Nat : k \in S
    <2> HIDE DEF S
    <2> QED
      BY <1>2, <1>3, InductiveSet
  <1>5. n \in Nat /\ n <= Count(buffer) /\ n <= MaxOps /\ pre[n] \in Nat
    BY <1>1
  <1>6. n * P <= MaxOps * P
    <2> DEFINE d == MaxOps - n
    <2>1. d \in Nat /\ MaxOps = n + d
      BY <1>1, <1>5
    <2> HIDE DEF d
    <2>2. MaxOps * P = n * P + d * P /\ d * P \in Nat /\ n * P \in Nat
      BY <1>5, <2>1
    <2> QED
      BY <2>2
  <1>7. pre[n] <= n * P
    BY <1>4, <1>5
  <1>8. n * P \in Nat /\ MaxOps * P \in Nat
    BY <1>1, <1>5
  <1> QED
    BY <1>5, <1>6, <1>7, <1>8

\* cb_size is no larger than the last of the prefix sums.
LEMMA CbSizeBound ==
  ASSUME OwnerInv, CallInv, NEW P \in Nat, FitInv(P)
  PROVE  buffer.cb_size \in Nat /\ buffer.cb_size <= MaxOps * P
  <1>1. PICK pre : Prefix(buffer, pre) /\ buffer.cb_size = pre[Count(buffer)] % 2^IntBits
    BY DEF CallInv, CbExact
  <1> DEFINE all == pre[Count(buffer)]
             most == MaxOps * P
  <1>2. Count(buffer) \in 0 .. Count(buffer)
    BY RingOfDriver, CountInRange
  <1>3. all \in Nat /\ all <= most
    BY <1>1, <1>2, RingOfDriver, PrefixBound DEF FitInv
  <1>4. 2^IntBits \in Nat \ {0} /\ most \in Nat
    BY PowersAssumption, ReachIsNat
  <1> HIDE DEF all, most
  <1>5. all % 2^IntBits \in 0 .. 2^IntBits - 1 /\ all % 2^IntBits <= all
    BY <1>3, <1>4, ModAtMost
  <1>6. buffer.cb_size \in Nat /\ buffer.cb_size <= all
    BY <1>1, <1>4, <1>5 DEF all
  <1>7. buffer.cb_size <= most
    BY <1>3, <1>4, <1>6
  <1> QED
    BY <1>6, <1>7 DEF most

\* What reaches no further than that fits the int of the lookup.
LEMMA FitSuffices ==
  ASSUME OwnerInv, CallInv, NEW P, PacketsFit(P), FitInv(P)
  PROVE  FitsInt
  <1>1. /\ P \in Nat /\ Reach(P) \in Nat /\ 2^(IntBits - 1) \in Nat /\ 2^IntBits \in Nat
        /\ P <= 2^(IntBits - 1) /\ Reach(P) < 2^IntBits
    <2>1. P \in Nat /\ P <= 2^(IntBits - 1) /\ Reach(P) < 2^IntBits
      BY DEF PacketsFit
    <2>2. Reach(P) \in Nat
      BY <2>1, ReachIsNat
    <2>3. 2^(IntBits - 1) \in Nat /\ 2^IntBits \in Nat
      BY PowersAssumption
    <2> QED
      BY <2>1, <2>2, <2>3
  <1> DEFINE R == Reach(P)
             N == 2^IntBits
             M == 2^(IntBits - 1)
  <1>2. ASSUME NEW t \in Threads PROVE loff[t] < N
    <2>1. loff[t] \in Nat /\ loff[t] <= R
      BY ThreadState DEF FitInv
    <2> HIDE DEF R, N
    <2> QED
      BY <1>1, <2>1 DEF R, N
  <1>3. ASSUME NEW i \in Slots PROVE buffer.entry[i].size <= M
    <2>1. buffer.entry[i].size \in Nat /\ buffer.entry[i].size <= P
      BY RingOfDriver DEF FitInv
    <2> QED
      BY <1>1, <2>1
  <1>4. ASSUME NEW pre, Prefix(buffer, pre) PROVE pre[Count(buffer)] < N
    <2> DEFINE all == pre[Count(buffer)]
               most == MaxOps * P
    <2>1. Count(buffer) \in 0 .. Count(buffer)
      BY RingOfDriver, CountInRange
    <2>2. all \in Nat /\ all <= most
      BY <1>1, <1>4, <2>1, RingOfDriver, PrefixBound DEF FitInv
    <2>3. most \in Nat /\ most <= R
      BY <1>1, ReachIsNat
    <2>4. R \in Nat /\ R < N /\ N \in Nat
      BY <1>1
    <2> HIDE DEF all, most, R, N
    <2>5. all < N
      BY <2>2, <2>3, <2>4
    <2> QED
      BY <2>5 DEF all
  <1> QED
    BY <1>2, <1>3, <1>4 DEF FitsInt

\* The step of a thread, from what it does to its own positions.
LEMMA FitOfThread ==
  ASSUME OwnerInv, CallInv, NEW P \in Nat, FitInv(P), NEW t \in Threads, Alone(t),
         buffer' = buffer, f_pos'[t] <= Reach(P), loff'[t] <= Reach(P),
         pc'[t] \in Writing => loff'[t] <= MaxPos
  PROVE  FitInv(P)'
  <1>1. Reach(P)' = Reach(P)
    BY DEF Reach
  <1>2. ASSUME NEW u \in Threads
        PROVE  f_pos'[u] <= Reach(P) /\ loff'[u] <= Reach(P) /\ (pc'[u] \in Writing => loff'[u] <= MaxPos)
    <2>1. CASE u = t
      BY <2>1
    <2>2. CASE u # t
      BY <2>2 DEF Alone, FitInv
    <2> QED
      BY <2>1, <2>2
  <1> QED
    BY <1>1, <1>2 DEF FitInv

\* A read leaves the position at the end of an entry.
LEMMA ReadEntryFit ==
  ASSUME RefInv, NEW P, PacketsFit(P), FitInv(P), NEW t \in Threads, ReadEntry(t)
  PROVE  loff'[t] <= Reach(P)
  <1> USE DEF RefInv
  <1> DEFINE off == loff[t]
             r == find_entry(buffer, off)
             e == buffer.entry[r.slot]
  <1>1. /\ pc[t] = "read_crit" /\ r.found
        /\ loff' = [loff EXCEPT ![t] = @ + (e.size - r.rel)] \/ loff' = loff
    BY DEF ReadEntry
  <1>2. FitsInt /\ loff \in [Threads -> Nat] /\ loff[t] <= Reach(P) /\ P \in Nat
    BY FitSuffices, ThreadState DEF FitInv, PacketsFit
  <1>3. loaded /\ off \in Nat /\ off < 2^IntBits
    BY <1>1, <1>2 DEF OwnerInv, CallsNeedModule, FitsInt
  <1>4. PICK k \in 0 .. Count(buffer) - 1 :
          /\ Device!Offset(k + 1) = Device!Offset(k) + buffer.entry[SlotOf(buffer, k)].size
          /\ Device!Offset(k) \in Nat
          /\ r = [found |-> TRUE, slot |-> SlotOf(buffer, k), rel |-> off - Device!Offset(k)]
    BY <1>1, <1>2, <1>3, LookupAgrees
  <1>5. PICK pre : Prefix(buffer, pre)
    BY RingOfDriver, PrefixExists
  <1>6. k + 1 \in 0 .. Count(buffer)
    BY RingOfDriver, CountInRange
  <1>7. Device!Offset(k + 1) \in Nat /\ Device!Offset(k + 1) <= MaxOps * P
    <2>1. Device!Offset(k + 1) = pre[k + 1]
      BY <1>3, <1>5, <1>6, OffsetsOfRing
    <2>2. pre[k + 1] \in Nat /\ pre[k + 1] <= MaxOps * P
      BY <1>2, <1>5, <1>6, RingOfDriver, PrefixBound DEF FitInv
    <2> QED
      BY <2>1, <2>2
  <1>8. CASE loff' = loff
    BY <1>2, <1>8
  <1>9. CASE loff' = [loff EXCEPT ![t] = @ + (e.size - r.rel)]
    <2> DEFINE base == Device!Offset(k)
               to == Device!Offset(k + 1)
               size == buffer.entry[SlotOf(buffer, k)].size
    <2>1. e.size = size /\ r.rel = off - base /\ loff'[t] = off + (e.size - r.rel)
      BY <1>2, <1>4, <1>9
    <2>2. size \in Nat
      BY <1>4, <1>5, RingOfDriver, LiveSlot
    <2>3. to = base + size /\ base \in Nat /\ to <= MaxOps * P /\ to \in Nat
      BY <1>4, <1>7
    <2> HIDE DEF r, e, base, to, size, off
    <2>4. loff'[t] = to
      BY <1>3, <2>1, <2>2, <2>3 DEF off
    <2> QED
      BY <1>2, <2>3, <2>4, ReachIsNat
  <1> QED
    BY <1>1, <1>8, <1>9

\* A write advances the position by the packet it adds.
LEMMA WriteFullFit ==
  ASSUME RefInv, LeakInv, PacketsOnly, NEW P, PacketsFit(P), FitInv(P),
         NEW t \in Threads, WriteFull(t)
  PROVE  FitInv(P)'
  <1> USE DEF RefInv
  <1> DEFINE count == Len(mem[buffptr[t]])
             size == wr_entry_size(count)
  <1>1. PICK h \in handle_partial_data(part_mem_ptr, part_buf_size, buffptr[t]) :
          buffer' = add_entry(buffer, [buffptr |-> h.ptr, size |-> size])
    BY DEF WriteFull
  <1>2. /\ pc[t] = "write_crit" /\ pc' = [pc EXCEPT ![t] = "write_free"]
        /\ loff' = [loff EXCEPT ![t] = @ + size] /\ f_pos' = f_pos
    BY DEF WriteFull, Goto
  <1>3. loaded /\ part_mem_ptr = NULL
    BY <1>2 DEF OwnerInv, CallsNeedModule, LeakInv, NoneWaits
  <1>4. count \in Nat /\ count <= P
    <2>1. mem[buffptr[t]] \in Payloads
      BY <1>2 DEF EffectInv, DataInHand, Writing, DeviceData, CopiedFromUser, PacketsOnly
    <2>2. mem[buffptr[t]] \in Seq(Byte)
      BY <2>1, AesdCharAssumption
    <2> QED
      BY <2>1, <2>2, LenProperties DEF PacketsFit
  <1>5. size = count
    BY <1>3, <1>4 DEF wr_entry_size
  <1> HIDE DEF size, count
  <1>6. /\ P \in Nat /\ Reach(P) \in Nat /\ MaxPos \in Nat /\ MaxPos + P <= Reach(P)
        /\ loff \in [Threads -> Nat] /\ pc \in [Threads -> PCs]
    BY ReachIsNat, ThreadState DEF PacketsFit
  <1>7. loff'[t] <= Reach(P)
    <2>1. loff[t] \in Nat /\ loff[t] <= MaxPos /\ loff'[t] = loff[t] + size
      BY <1>2, <1>6 DEF FitInv, Writing
    <2> QED
      BY <1>4, <1>5, <1>6, <2>1
  <1>8. \A u \in Threads : /\ f_pos'[u] <= Reach(P) /\ loff'[u] <= Reach(P)
                           /\ pc'[u] \in Writing => loff'[u] <= MaxPos
    <2>1. Alone(t)
      BY StepAlone DEF Run
    <2>2. pc'[t] \notin Writing
      BY <1>2, <1>6 DEF Writing
    <2> QED
      BY <1>2, <1>7, <2>1, <2>2 DEF Alone, FitInv
  <1>9. \A i \in Slots : buffer'.entry[i].size <= P
    <2> DEFINE new == [buffptr |-> h.ptr, size |-> size]
    <2>1. new.size = size
      OBVIOUS
    <2> HIDE DEF new
    <2>2. buffer'.entry = [buffer.entry EXCEPT ![buffer.in_offs] = new]
      BY <1>1, RingOfDriver, AddOffsets DEF new
    <2>3. buffer.in_offs \in Slots /\ DOMAIN buffer.entry = Slots
      BY RingOfDriver DEF Offsets
    <2> QED
      BY <1>4, <1>5, <2>1, <2>2, <2>3 DEF FitInv
  <1>10. Reach(P)' = Reach(P)
    BY DEF Reach
  <1> QED
    BY <1>8, <1>9, <1>10 DEF FitInv

\* A seek stays inside the ring: llseek by its limit, the ioctl by its entry.
LEMMA SeekFit ==
  ASSUME OwnerInv, CallInv, NEW P \in Nat, FitInv(P), NEW t \in Threads,
         LlseekSet(t) \/ IoctlSeek(t)
  PROVE  f_pos'[t] <= Reach(P)
  <1>1. /\ f_pos \in [Threads -> Nat] /\ f_pos[t] <= Reach(P) /\ loff[t] \in Nat /\ loff[t] <= Reach(P)
        /\ Reach(P) \in Nat /\ arg[t] \in Int \X Int
    BY ReachIsNat, ThreadState DEF FitInv
  <1>2. CASE LlseekSet(t)
    <2> DEFINE to == fixed_size_llseek(f_pos[t], arg[t][2], arg[t][1], loff[t])
    <2>1. f_pos'[t] = to
      BY <1>1, <1>2 DEF LlseekSet
    <2>2. to \in 0 .. loff[t] \/ to = f_pos[t]
      BY DEF fixed_size_llseek
    <2> HIDE DEF to
    <2> QED
      BY <1>1, <2>1, <2>2
  <1>3. CASE IoctlSeek(t)
    <2> DEFINE c == arg[t][1]
               o == arg[t][2]
               r == adjust_file_offset(buffer, c, o)
    <2>1. f_pos'[t] = (IF r.ok THEN r.fpos ELSE f_pos[t])
      BY <1>1, <1>3 DEF IoctlSeek
    <2>2. c \in Nat /\ o \in Nat
      BY <1>3 DEF IoctlSeek, CallInv, SeekArgs
    <2>3. PICK pre : Prefix(buffer, pre)
      BY RingOfDriver, PrefixExists
    <2> HIDE DEF c, o
    <2>4. r = IF IsEmpty(buffer) THEN [ok |-> TRUE, fpos |-> 0]
              ELSE IF c < Count(buffer) /\ buffer.entry[SlotOf(buffer, c)].size >= o
                   THEN [ok |-> TRUE, fpos |-> pre[c] + o]
                   ELSE SeekFailed
      BY <2>2, <2>3, RingOfDriver, SeekResult
    <2> HIDE DEF r
    <2>5. CASE IsEmpty(buffer)
      BY <1>1, <2>1, <2>4, <2>5
    <2>6. CASE ~IsEmpty(buffer) /\ c < Count(buffer) /\ buffer.entry[SlotOf(buffer, c)].size >= o
      <3>1. Count(buffer) \in Nat
        BY RingOfDriver, CountInRange
      <3>2. c \in 0 .. Count(buffer) - 1 /\ c + 1 \in 0 .. Count(buffer)
        BY <2>2, <2>6, <3>1
      <3> DEFINE size == buffer.entry[SlotOf(buffer, c)].size
                 a == pre[c]
                 b == pre[c + 1]
      <3>3. size \in Nat /\ a \in Nat /\ b = a + size
        BY <2>3, <3>2, RingOfDriver, LiveSlot
      <3>4. b \in Nat /\ b <= MaxOps * P
        BY <2>3, <3>2, RingOfDriver, PrefixBound DEF FitInv
      <3>5. f_pos'[t] = a + o /\ size >= o
        BY <2>1, <2>4, <2>6
      <3>6. MaxOps * P \in Nat /\ MaxOps * P <= Reach(P)
        BY ReachIsNat
      <3> DEFINE x == MaxOps * P
      <3> HIDE DEF size, a, b, x
      <3>7. x \in Nat /\ x <= Reach(P) /\ b <= x
        BY <3>4, <3>6 DEF x
      <3> QED
        BY <1>1, <2>2, <3>3, <3>4, <3>5, <3>7
    <2>7. CASE ~IsEmpty(buffer) /\ ~(c < Count(buffer) /\ buffer.entry[SlotOf(buffer, c)].size >= o)
      BY <1>1, <2>1, <2>4, <2>7 DEF SeekFailed
    <2> QED
      BY <2>5, <2>6, <2>7
  <1> QED
    BY <1>2, <1>3

\* Every step keeps positions in reach.
LEMMA NextFit ==
  ASSUME RefInv, LeakInv, PacketsOnly, NEW P, PacketsFit(P), FitInv(P), [Next]_vars
  PROVE  FitInv(P)'
  <1> USE DEF RefInv
  <1>0. /\ P \in Nat /\ Reach(P) \in Nat /\ MaxOps * P <= Reach(P) /\ MaxOps * P \in Nat
        /\ MaxPos \in Nat /\ 0 <= Reach(P)
        /\ pc \in [Threads -> PCs] /\ f_pos \in [Threads -> Nat] /\ loff \in [Threads -> Nat]
    <2>1. P \in Nat
      BY DEF PacketsFit
    <2>2. /\ Reach(P) \in Nat /\ MaxOps * P <= Reach(P) /\ MaxOps * P \in Nat /\ MaxPos \in Nat
      BY <2>1, ReachIsNat
    <2>3. 0 <= Reach(P)
      BY <2>2
    <2>4. pc \in [Threads -> PCs] /\ f_pos \in [Threads -> Nat] /\ loff \in [Threads -> Nat]
      BY ThreadState
    <2> QED
      BY <2>1, <2>2, <2>3, <2>4
  <1>a. Reach(P)' = Reach(P)
    BY DEF Reach
  <1>1. CASE UNCHANGED << f_pos, loff, pc, buffer >>
    BY <1>1, <1>a DEF FitInv
  <1>2. CASE aesd_init_module
    <2>1. \A i \in Slots : buffer'.entry[i].size <= P
      BY <1>0, <1>2 DEF aesd_init_module, EmptyRing, NoEntry
    <2>2. UNCHANGED << f_pos, loff, pc >>
      BY <1>2 DEF aesd_init_module, locals
    <2> QED
      BY <1>a, <2>1, <2>2 DEF FitInv
  <1>3. ASSUME NEW t \in Threads, Call(t) \/ Lock(t) \/ Run(t) \/ Signal(t) PROVE FitInv(P)'
    <2>0. /\ Alone(t) /\ f_pos[t] <= Reach(P) /\ loff[t] <= Reach(P)
          /\ pc[t] \in Writing => loff[t] <= MaxPos
      BY <1>3, StepAlone DEF FitInv
    <2> USE <1>0, <2>0 DEF Goto, Writing, device, locals
    <2>1. CASE aesd_open(t) \/ aesd_release(t)
      <3>1. f_pos'[t] <= Reach(P) /\ loff' = loff /\ pc' = pc /\ buffer' = buffer
        BY <2>1 DEF aesd_open, aesd_release
      <3> QED
        BY <3>1, FitOfThread
    <2>2. CASE \E data \in Payloads : WriteStart(t, data)
      <3>1. loff'[t] = f_pos[t] /\ f_pos' = f_pos /\ f_pos[t] <= MaxPos /\ buffer' = buffer
        BY <2>2 DEF WriteStart
      <3> QED
        BY <3>1, FitOfThread
    <2>3. CASE ReadStart(t)
      <3>1. loff'[t] = f_pos[t] /\ f_pos' = f_pos /\ pc'[t] = "read_lock" /\ buffer' = buffer
        BY <2>3 DEF ReadStart
      <3> QED
        BY <3>1, FitOfThread
    <2>4. CASE \/ \E s \in Seeks : LlseekStart(t, s[1], s[2])
               \/ \E c \in Commands : IoctlStart(t, c[1], c[2])
               \/ ReadLoad(t)
      <3>1. /\ loff' = loff /\ f_pos' = f_pos /\ buffer' = buffer
            /\ pc'[t] \in {"llseek_lock", "ioctl_lock", "read_print"}
        BY <2>4 DEF LlseekStart, IoctlStart, ReadLoad
      <3> QED
        BY <3>1, FitOfThread
    <2>5. CASE Lock(t)
      <3>1. loff' = loff /\ f_pos' = f_pos /\ buffer' = buffer
        BY <2>5 DEF Lock
      <3>2. pc'[t] \in Writing => pc[t] \in Writing
        BY <2>5 DEF Lock, CriticalSection, LockPoints
      <3> QED
        BY <3>1, <3>2, FitOfThread
    <2>6. CASE WriteFull(t)
      BY <2>6, WriteFullFit
    <2>7. CASE WriteFree(t) \/ ReadPrint(t)
      <3>1. /\ f_pos'[t] = loff[t] /\ loff'[t] = 0 /\ pc'[t] = "idle" /\ buffer' = buffer
        BY <2>7 DEF WriteFree, ReadPrint, Return
      <3> QED
        BY <3>1, FitOfThread
    <2>8. CASE WritePartial(t) \/ WriteInterrupted(t) \/ ReadNothing(t) \/ Interrupted(t)
      <3>1. /\ f_pos' = f_pos /\ loff'[t] = 0 /\ pc'[t] = "idle" /\ buffer' = buffer
        BY <2>8 DEF WritePartial, WriteInterrupted, ReadNothing, Interrupted, Return
      <3> QED
        BY <3>1, FitOfThread
    <2>9. CASE ReadEntry(t)
      <3>1. f_pos' = f_pos /\ pc'[t] = "read_load" /\ buffer' = buffer
        BY <2>9 DEF ReadEntry
      <3>2. loff'[t] <= Reach(P)
        BY <2>9, ReadEntryFit
      <3> QED
        BY <3>1, <3>2, FitOfThread
    <2>10. CASE LlseekSize(t)
      <3>1. f_pos' = f_pos /\ pc'[t] = "llseek_set" /\ buffer' = buffer /\ loff'[t] = buffer.cb_size
        BY <2>10 DEF LlseekSize
      <3>2. buffer.cb_size \in Nat /\ buffer.cb_size <= MaxOps * P
        BY CbSizeBound
      <3>3. loff'[t] <= Reach(P)
        BY <3>1, <3>2
      <3> QED
        BY <3>1, <3>3, FitOfThread
    <2>11. CASE LlseekSet(t) \/ IoctlSeek(t)
      <3>1. loff'[t] = 0 /\ pc'[t] = "idle" /\ buffer' = buffer
        BY <2>11 DEF LlseekSet, IoctlSeek, Return
      <3>2. f_pos'[t] <= Reach(P)
        BY <2>11, SeekFit
      <3> QED
        BY <3>1, <3>2, FitOfThread
    <2> QED
      BY <1>3, <2>1, <2>2, <2>3, <2>4, <2>5, <2>6, <2>7, <2>8, <2>9, <2>10, <2>11
        DEF Call, Run, Signal
  <1> QED
    BY <1>1, <1>2, <1>3 DEF Next, aesd_cleanup_module, vars, device, locals

\* Used as aesdsocket uses it, with whole packets, and with packets and a
\* ring small enough for the int of the lookup, the driver implements the
\* device without any condition on what happens.
THEOREM PacketsImplementDevice ==
  ASSUME ~AllocMayFail, PacketsOnly, NEW CONSTANT P, PacketsFit(P)
  PROVE  Spec => DeviceSpec
  <1>1. Init => StoredInv /\ EffectInv /\ LeakInv
    <2> SUFFICES ASSUME Init PROVE StoredInv /\ EffectInv /\ LeakInv
      OBVIOUS
    <2> QED
      BY DEF Init, StoredInv, SlotsStored, PartialSizeIsStored, EffectInv, DataInHand,
             BeforeEffect, Writing, LeakInv, NoneWaits, NewlineInHand, Owned
  <1>2. Init => FitInv(P)
    <2> SUFFICES ASSUME Init PROVE FitInv(P)
      OBVIOUS
    <2>1. P \in Nat /\ Reach(P) \in Nat /\ MaxPos \in Nat
      BY ReachIsNat DEF PacketsFit
    <2>2. \A i \in Slots : buffer.entry[i].size = 0
      BY DEF Init, EmptyRing, NoEntry
    <2>3. \A t \in Threads : f_pos[t] = 0 /\ loff[t] = 0
      BY DEF Init
    <2> QED
      BY <2>1, <2>2, <2>3 DEF FitInv
  <1>3. OwnerInv /\ Fills(buffer) /\ StoredInv /\ [Next]_vars => StoredInv'
    BY NextStored
  <1>4. OwnerInv /\ CallInv /\ StoredInv /\ EffectInv /\ [Next]_vars => EffectInv'
    BY NextEffect
  <1>5. OwnerInv /\ Fills(buffer) /\ LeakInv /\ [Next]_vars => LeakInv'
    BY NextLeak
  <1>6. OwnerInv /\ CallInv /\ Fills(buffer) /\ StoredInv /\ EffectInv /\ LeakInv /\ FitInv(P)
          /\ [Next]_vars => FitInv(P)'
    BY NextFit DEF RefInv
  <1>7. OwnerInv /\ CallInv /\ FitInv(P) => FitsInt
    BY FitSuffices
  <1>8. Spec => []FitsInt
    BY <1>1, <1>2, <1>3, <1>4, <1>5, <1>6, <1>7, OwnerInvariant, CallInvariant,
       FillsInvariant, PTL DEF Spec
  <1> QED
    BY <1>8, DriverImplementsDevice, PTL

=============================================================================

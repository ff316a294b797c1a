------------------------- MODULE CircularBufferSpec -------------------------
(***************************************************************************)
(* The circular buffer as a state machine: a caller that, holding the lock *)
(* that aesd-circular-buffer.c leaves to it, adds entries one after the    *)
(* other.  Lookups, seeks and the cleanup do not change the ring, so they  *)
(* appear in the invariants, evaluated in every reachable ring for every   *)
(* argument.                                                               *)
(*                                                                         *)
(* The history variables place every entry in the stream of all bytes ever *)
(* added: start[i] is the number of bytes added before the entry in slot   *)
(* i, total the number of bytes added so far.  They never influence the    *)
(* ring.                                                                   *)
(***************************************************************************)
EXTENDS CircularBuffer

CONSTANTS
  Ptrs,       \* the buffers an entry may point to
  Sizes,      \* the sizes an entry may have
  MaxTotal    \* bound on the bytes added in a behaviour (bounds the model)

\* An entry is one block of kmalloc, which is no larger than an int counts.
ASSUME EntryAssumption ==
  /\ Sizes \subseteq Nat /\ \A s \in Sizes : s <= 2^(IntBits - 1)
  /\ MaxTotal \in Nat

Entry == [buffptr : Ptrs, size : Sizes]

VARIABLES
  buffer,     \* struct aesd_circular_buffer
  start,      \* history: the stream position of the entry of each slot
  total       \* history: the length of the stream

vars == << buffer, start, total >>

\* aesd_circular_buffer_init
Init ==
  /\ buffer = EmptyRing
  /\ start = [i \in Slots |-> 0]
  /\ total = 0

\* aesd_circular_buffer_add_entry
Add(e) ==
  /\ total + e.size <= MaxTotal
  /\ buffer' = add_entry(buffer, e)
  /\ start' = [start EXCEPT ![buffer.in_offs] = total]
  /\ total' = total + e.size

Next == \E e \in Entry : Add(e)

Spec == Init /\ [][Next]_vars

-----------------------------------------------------------------------------
Ring ==
  [entry : [Slots -> [buffptr : Ptrs \union {NULL}, size : Nat]],
   in_offs : Slots, out_offs : Slots, full : BOOLEAN, cb_size : 0 .. 2^IntBits - 1]

\* The fields of the ring stay in range: both offsets index the entry array
\* and cb_size is a uint32_t.
TypeOK ==
  /\ buffer \in Ring
  /\ start \in [Slots -> Nat]
  /\ total \in Nat

\* The flag set by add_entry when the write offset meets the read offset is
\* the only thing that tells a full ring from an empty one.
FullMeansMet == buffer.full => buffer.in_offs = buffer.out_offs

Live == 0 .. Count(buffer) - 1

\* The entries from out_offs to in_offs are consecutive pieces of the
\* stream, each in add_entry's order, and the newest one ends it: whatever
\* the wrap of the offsets, no slot is stale, skipped or out of order.
WindowIsTail ==
  \A k \in Live :
    LET i == SlotOf(buffer, k)
    IN  start[i] + buffer.entry[i].size =
          IF k = Count(buffer) - 1 THEN total ELSE start[SlotOf(buffer, k + 1)]

\* The bytes in the window: the end of the stream minus the position of the
\* oldest entry.
Held == IF IsEmpty(buffer) THEN 0 ELSE total - start[buffer.out_offs]

\* cb_size, a uint32_t that add_entry updates by the difference between the
\* entry that comes and the one that goes, counts the bytes in the window
\* modulo 2^IntBits, although it wraps and although the size of the entry
\* that goes passes through an int: it is never off by the size of an entry,
\* and exact whenever the ring holds fewer than 2^IntBits bytes.
CbSizeExact == buffer.cb_size = Held % 2^IntBits

\* No entry was added after the end of the stream.
StartsInStream == \A i \in Slots : start[i] <= total

\* Every slot holds an entry that add_entry was given, or none yet.
EntriesAdded == \A i \in Slots : buffer.entry[i] \in Entry \union {NoEntry}

\* The inductive invariant of the proofs.
RingInv ==
  /\ TypeOK /\ FullMeansMet /\ EntriesAdded
  /\ StartsInStream /\ WindowIsTail /\ CbSizeExact

\* The offsets that an int can tell apart.
SmallOffsets == 0 .. 2^IntBits - 1

\* find_entry_offset_for_fpos returns the live entry that holds byte off of
\* the concatenated entries, and the offset in it; it returns NULL exactly
\* when the buffer has no such byte, also when cb_size has wrapped.
FindAgreesWithStream(off) ==
  LET r == find_entry(buffer, off)
  IN  /\ r.found <=> off < Held
      /\ r.found =>
           /\ r.slot \in {SlotOf(buffer, k) : k \in Live}
           /\ r.rel \in 0 .. buffer.entry[r.slot].size - 1
           /\ start[r.slot] + r.rel = start[buffer.out_offs] + off

FindCorrect == \A off \in SmallOffsets : FindAgreesWithStream(off)

\* The arguments of AESDCHAR_IOCSEEKTO that are worth distinguishing: one
\* command more than the ring has, one offset more than an entry has.
SeekCmds == 0 .. MaxOps
SeekOffsets == UNION {0 .. s + 1 : s \in Sizes}

\* A seek to byte off of the cmd-th oldest write is accepted when there is
\* such a byte and refused when a non-empty ring has no such write or the
\* offset is beyond its end; an accepted seek stores the position of off in
\* that write, and no other.  Whether the offset one past the last byte and
\* a seek in an empty ring are accepted is left open: the code accepts both,
\* while aesd_ioctl.h:27 and :31 speak of a write to seek into and of an
\* offset within it.
SeekAgreesWithStream(cmd, off) ==
  LET r == adjust_file_offset(buffer, cmd, off)
      i == SlotOf(buffer, cmd)
  IN  /\ cmd \in Live /\ off < buffer.entry[i].size => r.ok
      /\ ~IsEmpty(buffer) /\ r.ok =>
           /\ cmd \in Live /\ off <= buffer.entry[i].size
           /\ r.fpos = start[i] - start[buffer.out_offs] + off

SeekCorrect ==
  \A cmd \in SeekCmds, off \in SeekOffsets : SeekAgreesWithStream(cmd, off)

\* cleanup_circulat_buffers frees the pointer of every live entry once,
\* oldest first, and no other.
CleanupFreesWindow ==
  cleanup(buffer) =
    [k \in 1 .. Count(buffer) |-> buffer.entry[SlotOf(buffer, k - 1)].buffptr]

\* The ring implements the log of the last MaxOps entries.
Log == INSTANCE BoundedLog
         WITH Capacity <- MaxOps, Entry <- Entry, log <- Contents(buffer)

LogSpec == Log!Spec

=============================================================================

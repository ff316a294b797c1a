--------------------------- MODULE CircularBuffer ---------------------------
(***************************************************************************)
(* The data structure of aesd-circular-buffer.c: the ring of the most      *)
(* recent writes.  A ring is a record with the fields of struct            *)
(* aesd_circular_buffer; the operators below are the functions of the C    *)
(* file, as functions of the ring.  "Any necessary locking must be         *)
(* performed by caller": the callers are the actions of AesdChar.          *)
(***************************************************************************)
EXTENDS Integers, Sequences

CONSTANTS
  MaxOps,     \* AESDCHAR_MAX_WRITE_OPERATIONS_SUPPORTED, 10 in the code
  IntBits,    \* width of a C int and of uint32_t, 32 in the build
  NULL        \* the null pointer

ASSUME MaxOpsAssumption == MaxOps \in Nat \ {0}

ASSUME IntBitsAssumption == IntBits \in Nat \ {0}

\* What the provers, which know nothing of powers, need of them.
ASSUME PowersAssumption ==
  /\ 2^(IntBits - 1) \in Nat \ {0}
  /\ 2^IntBits = 2 * 2^(IntBits - 1)

Slots == 0 .. MaxOps - 1

(***************************************************************************)
(* struct aesd_circular_buffer after memset(buffer, 0, ...).               *)
(***************************************************************************)
NoEntry == [buffptr |-> NULL, size |-> 0]

EmptyRing ==
  [entry |-> [i \in Slots |-> NoEntry],
   in_offs |-> 0, out_offs |-> 0, full |-> FALSE, cb_size |-> 0]

nextPtr_Overrun(ptr) == IF ptr + 1 > MaxOps THEN 0 ELSE ptr + 1

nextPtr(ptr) == IF ptr + 1 >= MaxOps THEN 0 ELSE ptr + 1

IsEmpty(b) == b.in_offs = b.out_offs /\ ~b.full

(***************************************************************************)
(* A size_t stored in an int: reduced modulo 2^IntBits, read as signed.    *)
(***************************************************************************)
AsInt(x) ==
  LET m == x % 2^IntBits
  IN  IF m >= 2^(IntBits - 1) THEN m - 2^IntBits ELSE m

(***************************************************************************)
(* aesd_circular_buffer_find_entry_offset_for_fpos.  The loops below are   *)
(* functions of the values that their variables have at the head of the    *)
(* loop: at.i is the slot that entry points to.  In the comparison         *)
(* entry->size > char_pos the int is converted to size_t, so a negative    *)
(* position is larger than every size.                                     *)
(***************************************************************************)
NotFound == [found |-> FALSE, slot |-> 0, rel |-> 0]

find_entry_Geq(b, char_offset) ==
  LET walk[at \in [i : Slots, char_pos : Int]] ==
        LET size == b.entry[at.i].size
        IN  IF at.char_pos >= 0 /\ size >= at.char_pos
            THEN [found |-> TRUE, slot |-> at.i, rel |-> at.char_pos]
            ELSE IF nextPtr(at.i) = b.in_offs
                 THEN NotFound
                 ELSE walk[[i |-> nextPtr(at.i), char_pos |-> AsInt(at.char_pos - size)]]
  IN  IF IsEmpty(b) THEN NotFound
      ELSE walk[[i |-> b.out_offs, char_pos |-> AsInt(char_offset)]]

find_entry(b, char_offset) ==
  LET walk[at \in [i : Slots, char_pos : Int]] ==
        LET size == b.entry[at.i].size
        IN  IF at.char_pos >= 0 /\ size > at.char_pos
            THEN [found |-> TRUE, slot |-> at.i, rel |-> at.char_pos]
            ELSE IF nextPtr(at.i) = b.in_offs
                 THEN NotFound
                 ELSE walk[[i |-> nextPtr(at.i), char_pos |-> AsInt(at.char_pos - size)]]
  IN  IF IsEmpty(b) THEN NotFound
      ELSE walk[[i |-> b.out_offs, char_pos |-> AsInt(char_offset)]]

(***************************************************************************)
(* aesd_circular_buffer_add_entry: the ring after the call, and the        *)
(* pointer it returns for the caller to free.  The size of the entry that  *)
(* goes is kept in an int, and cb_size, a uint32_t, is updated modulo      *)
(* 2^IntBits.                                                              *)
(***************************************************************************)
removed_buffptr_Always(b) == b.entry[b.out_offs].buffptr

removed_buffptr(b) ==
  IF b.full THEN b.entry[b.out_offs].buffptr ELSE NULL

rm_buf_size_Zero(b) == 0

rm_buf_size(b) ==
  IF b.full THEN AsInt(b.entry[b.out_offs].size) ELSE 0

add_entry_KeepsOut(b, e) ==
  LET next_in_index == nextPtr(b.in_offs)
  IN  [entry    |-> [b.entry EXCEPT ![b.in_offs] = e],
       in_offs  |-> next_in_index,
       out_offs |-> b.out_offs,
       full     |-> b.full \/ next_in_index = b.out_offs,
       cb_size  |-> (b.cb_size + (e.size - rm_buf_size(b))) % 2^IntBits]

add_entry(b, e) ==
  LET next_in_index == nextPtr(b.in_offs)
  IN  [entry    |-> [b.entry EXCEPT ![b.in_offs] = e],
       in_offs  |-> next_in_index,
       out_offs |-> IF b.full THEN next_in_index ELSE b.out_offs,
       full     |-> b.full \/ next_in_index = b.out_offs,
       cb_size  |-> (b.cb_size + (e.size - rm_buf_size(b))) % 2^IntBits]

(***************************************************************************)
(* aesd_adjust_file_offset: whether it returns 0, and the file position    *)
(* it then stores (an empty ring answers every command with position 0).   *)
(***************************************************************************)
SeekFailed == [ok |-> FALSE, fpos |-> 0]

adjust_file_offset_OneBased(b, write_cmd, write_cmd_offset) ==
  LET walk[at \in [i : Slots, cmd_num : Nat, fpos : Nat]] ==
        LET size == b.entry[at.i].size
        IN  IF at.cmd_num = write_cmd
            THEN IF size >= write_cmd_offset
                 THEN [ok |-> TRUE, fpos |-> at.fpos + write_cmd_offset]
                 ELSE SeekFailed
            ELSE IF nextPtr(at.i) = b.in_offs
                 THEN SeekFailed
                 ELSE walk[[i |-> nextPtr(at.i), cmd_num |-> at.cmd_num + 1,
                            fpos |-> at.fpos + size]]
  IN  IF IsEmpty(b) THEN [ok |-> TRUE, fpos |-> 0]
      ELSE walk[[i |-> b.out_offs, cmd_num |-> 1, fpos |-> 0]]

adjust_file_offset(b, write_cmd, write_cmd_offset) ==
  LET walk[at \in [i : Slots, cmd_num : Nat, fpos : Nat]] ==
        LET size == b.entry[at.i].size
        IN  IF at.cmd_num = write_cmd
            THEN IF size >= write_cmd_offset
                 THEN [ok |-> TRUE, fpos |-> at.fpos + write_cmd_offset]
                 ELSE SeekFailed
            ELSE IF nextPtr(at.i) = b.in_offs
                 THEN SeekFailed
                 ELSE walk[[i |-> nextPtr(at.i), cmd_num |-> at.cmd_num + 1,
                            fpos |-> at.fpos + size]]
  IN  IF IsEmpty(b) THEN [ok |-> TRUE, fpos |-> 0]
      ELSE walk[[i |-> b.out_offs, cmd_num |-> 0, fpos |-> 0]]

(***************************************************************************)
(* cleanup_circulat_buffers: the pointers it frees, in the order of the    *)
(* calls to kfree.                                                         *)
(***************************************************************************)
EntryPtrs(b) == {b.entry[j].buffptr : j \in Slots}

cleanup_SkipsNewest(b) ==
  LET walk[at \in [i : Slots, freed : Seq(EntryPtrs(b))]] ==
        IF nextPtr(at.i) = b.in_offs
        THEN at.freed
        ELSE walk[[i |-> nextPtr(at.i), freed |-> Append(at.freed, b.entry[at.i].buffptr)]]
  IN  IF IsEmpty(b) THEN << >> ELSE walk[[i |-> b.out_offs, freed |-> << >>]]

cleanup(b) ==
  LET walk[at \in [i : Slots, freed : Seq(EntryPtrs(b))]] ==
        LET done == Append(at.freed, b.entry[at.i].buffptr)
        IN  IF nextPtr(at.i) = b.in_offs THEN done
            ELSE walk[[i |-> nextPtr(at.i), freed |-> done]]
  IN  IF IsEmpty(b) THEN << >> ELSE walk[[i |-> b.out_offs, freed |-> << >>]]

-----------------------------------------------------------------------------
(***************************************************************************)
(* What the ring means: its entries from the oldest to the newest.  These  *)
(* are definitions of the specification, not of the code.                  *)
(***************************************************************************)
Count(b) ==
  IF b.full THEN MaxOps
  ELSE IF b.in_offs >= b.out_offs
       THEN b.in_offs - b.out_offs
       ELSE b.in_offs - b.out_offs + MaxOps

\* The slot of the k-th entry, the oldest being entry 0.
SlotOf(b, k) ==
  IF b.out_offs + k >= MaxOps THEN b.out_offs + k - MaxOps ELSE b.out_offs + k

Contents(b) == [k \in 1 .. Count(b) |-> b.entry[SlotOf(b, k - 1)]]

=============================================================================

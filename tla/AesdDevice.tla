----------------------------- MODULE AesdDevice -----------------------------
(***************************************************************************)
(* What the aesdchar device promises the programs that use it: every call  *)
(* takes effect at one instant.  The device keeps the last Capacity        *)
(* newline-carrying writes and the bytes of the write that has not seen a  *)
(* newline yet; every caller has a position in the concatenation of the    *)
(* writes.  A read returns the rest of the one write its position is in.   *)
(***************************************************************************)
EXTENDS Integers, Sequences

CONSTANTS
  Callers,    \* the open files, one caller each
  Capacity,   \* how many writes the device keeps
  Data,       \* what a write may carry
  Newline,    \* the byte that completes a write
  Seeks,      \* the <<whence, offset>> of lseek; SEEK_SET, _CUR, _END are 0, 1, 2
  Commands    \* the <<write_cmd, write_cmd_offset>> arguments of the ioctl

VARIABLES
  log,        \* the completed writes, oldest first
  pending,    \* the bytes written since the last newline
  pos,        \* the position of each caller
  reply       \* what the read in progress returns to each caller

vars == << log, pending, pos, reply >>

\* The bytes in the first k writes, and in all of them.
Offset(k) ==
  LET sum[n \in 0 .. Len(log)] == IF n = 0 THEN 0 ELSE sum[n - 1] + Len(log[n])
  IN  sum[k]

Size == Offset(Len(log))

\* Any newline completes a write, wherever it is: so does is_data_partial,
\* whose comment, main.c:132, asks for a newline at the end.
Complete(data) == \E k \in DOMAIN data : data[k] = Newline

Init ==
  /\ log = << >>
  /\ pending = << >>
  /\ pos = [c \in Callers |-> 0]
  /\ reply = [c \in Callers |-> << >>]

Open(c) ==
  /\ pos' = [pos EXCEPT ![c] = 0]
  /\ UNCHANGED << log, pending, reply >>

\* A complete write joins the log together with the bytes that waited for
\* its newline, and the caller moves past as many bytes.
Write(c, data) ==
  LET entry == pending \o data
  IN  /\ \/ /\ Complete(data)
            /\ log' = Append(IF Len(log) = Capacity THEN Tail(log) ELSE log, entry)
            /\ pending' = << >>
            /\ pos' = [pos EXCEPT ![c] = @ + Len(entry)]
         \/ /\ ~Complete(data)
            /\ pending' = entry
            /\ UNCHANGED << log, pos >>
      /\ UNCHANGED reply

Read(c) ==
  \E k \in 1 .. Len(log) :
    /\ Offset(k - 1) <= pos[c] /\ pos[c] < Offset(k)
    /\ reply' = [reply EXCEPT ![c] = SubSeq(log[k], pos[c] - Offset(k - 1) + 1, Len(log[k]))]
    /\ pos' = [pos EXCEPT ![c] = Offset(k)]
    /\ UNCHANGED << log, pending >>

ReadReturns(c) ==
  /\ reply' = [reply EXCEPT ![c] = << >>]
  /\ UNCHANGED << log, pending, pos >>

\* lseek never leaves the bytes that the device holds at that instant.
Seek(c, whence, offset) ==
  LET to == offset + CASE whence = 0 -> 0
                       [] whence = 1 -> pos[c]
                       [] whence = 2 -> Size
  IN  /\ to \in 0 .. Size
      /\ pos' = [pos EXCEPT ![c] = to]
      /\ UNCHANGED << log, pending, reply >>

\* The seeks of aesd_ioctl.h: "the write command to seek into" and "the
\* offset within the write".
Within(cmd, offset) == cmd < Len(log) /\ offset < Len(log[cmd + 1])

\* The seeks that the driver grants: those, and against that description the
\* end of a write, and every seek while there is no write.
SeekAccepted(cmd, offset) ==
  \/ Within(cmd, offset)
  \/ cmd < Len(log) /\ offset = Len(log[cmd + 1])
  \/ log = << >>

SeekTo(c, cmd, offset) ==
  /\ SeekAccepted(cmd, offset)
  /\ pos' = [pos EXCEPT ![c] = IF log = << >> THEN 0 ELSE Offset(cmd) + offset]
  /\ UNCHANGED << log, pending, reply >>

\* Unloading the driver loses everything it held.
Unload ==
  /\ log' = << >>
  /\ pending' = << >>
  /\ UNCHANGED << pos, reply >>

Next ==
  \/ Unload
  \/ \E c \in Callers :
       \/ Open(c) \/ Read(c) \/ ReadReturns(c)
       \/ \E data \in Data : Write(c, data)
       \/ \E s \in Seeks : Seek(c, s[1], s[2])
       \/ \E s \in Commands : SeekTo(c, s[1], s[2])

Spec == Init /\ [][Next]_vars

=============================================================================

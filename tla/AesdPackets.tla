---------------------------- MODULE AesdPackets -----------------------------
(***************************************************************************)
(* What the connection threads of aesdsocket.c say to their clients and to *)
(* the device: process_client_connection with process_packet and           *)
(* seek_and_read, composed with the device of AesdDevice, which the driver *)
(* implements.  Every connection has a thread, a socket and an open file   *)
(* of the device; AesdSocket is about how they come and go.                *)
(*                                                                         *)
(* The client's bytes reach the thread in pieces of any length.  The text  *)
(* "AESDCHAR_IOCSEEKTO:X,Y" is one byte here, Command.  External: the      *)
(* clients, the socket, realloc and strtok.                                *)
(***************************************************************************)
EXTENDS Naturals, SequencesExt

CONSTANTS
  Conns,          \* the connections
  MAX_BUF_SIZE,   \* what one read of the socket asks for
  Capacity,       \* how many packets the device keeps
  Newline, NUL,   \* '\n' and '\0'
  Command,        \* the text of a seek command
  Mangled,        \* the same after strtok has overwritten its delimiters
  seekto,         \* the <<write_cmd, write_cmd_offset>> of the command
  Streams,        \* what a client may send in all
  Junk,           \* bytes that realloc'ed memory may hold
  Failing         \* the connections whose writes to the device may fail

ASSUME AesdPacketsAssumption ==
  /\ MAX_BUF_SIZE \in Nat \ {0} /\ Capacity \in Nat \ {0}
  /\ Newline \notin {NUL, Command, Mangled} /\ NUL \notin {Command, Mangled}
  /\ Command # Mangled
  /\ seekto \in Nat \X Nat
  /\ \A s \in Streams : s \in Seq(Range(s))
  /\ Failing \subseteq Conns

VARIABLES
  log, pending, pos, reply,   \* the device
  peer,         \* the client's side of each connection
  stream,       \* history: all that the client sends
  unread,       \* the part of it that the thread has not read
  pc,           \* where each thread is
  buff,         \* the bytes of the buffer that reads have filled so far
  len,          \* how many of them the scan has passed
  serving,      \* the function that answers the client
  answer,       \* history: the bytes sent in this answer
  from,         \* history: the position at which the answer began
  overwritten,  \* history: the device dropped a packet since then
  overrun       \* a reply was longer than write_back_pkt

device  == << log, pending, pos, reply >>
client  == << peer, stream, unread >>
history == << answer, from, overwritten >>
vars    == << device, client, pc, buff, len, serving, history, overrun >>

Dev == INSTANCE AesdDevice
         WITH Callers <- Conns, Data <- {}, Seeks <- {}, Commands <- {}

Init ==
  /\ Dev!Init
  /\ peer = [c \in Conns |-> "connected"]
  /\ stream \in [Conns -> Streams]
  /\ unread = stream
  /\ pc = [c \in Conns |-> "read"]
  /\ buff = [c \in Conns |-> << >>]
  /\ len = [c \in Conns |-> 0]
  /\ serving = [c \in Conns |-> "none"]
  /\ answer = [c \in Conns |-> << >>]
  /\ from = [c \in Conns |-> 0]
  /\ overwritten = [c \in Conns |-> FALSE]
  /\ overrun = FALSE

At(c, p) == ~overrun /\ pc[c] = p
Goto(c, p) == pc' = [pc EXCEPT ![c] = p]

Answering(c) == pc[c] \in {"answer", "send"}

\* The history of an answer that begins at position p of the device.
AnswerFrom(c, p) ==
  /\ answer' = [answer EXCEPT ![c] = << >>]
  /\ from' = [from EXCEPT ![c] = p]
  /\ overwritten' = [overwritten EXCEPT ![c] = FALSE]

-----------------------------------------------------------------------------
\* The client ends the connection in order, or resets it, which drops what
\* has not been read.
Leave(c) ==
  /\ ~overrun /\ peer[c] = "connected"
  /\ \/ /\ peer' = [peer EXCEPT ![c] = "closed"]
        /\ UNCHANGED unread
     \/ /\ peer' = [peer EXCEPT ![c] = "reset"]
        /\ unread' = [unread EXCEPT ![c] = << >>]
  /\ UNCHANGED << device, stream, pc, buff, len, serving, history, overrun >>

-----------------------------------------------------------------------------
(***************************************************************************)
(* The receive loop of process_client_connection.                          *)
(***************************************************************************)

Fill_NoBzero(c, n) == [1 .. n -> Junk]

\* What is in the n bytes of the buffer that read did not write: the first
\* MAX_BUF_SIZE bytes are zeroed, those that realloc adds are not.
Fill(c, n) == IF buff[c] = << >> THEN {[k \in 1 .. n |-> NUL]} ELSE [1 .. n -> Junk]

\* The loop scans MAX_BUF_SIZE bytes whatever read returned.
Receive(c) ==
  /\ At(c, "read")
  /\ \E n \in 1 .. MAX_BUF_SIZE :
       /\ n <= Len(unread[c])
       /\ \E rest \in Fill(c, MAX_BUF_SIZE - n) :
            buff' = [buff EXCEPT ![c] = @ \o SubSeq(unread[c], 1, n) \o rest]
       /\ unread' = [unread EXCEPT ![c] = SubSeq(@, n + 1, Len(@))]
  /\ Goto(c, "scan")
  /\ UNCHANGED << device, peer, stream, len, serving, history, overrun >>

\* read returns -1, once, after a reset: the loop takes it for data.
ReceiveError(c) ==
  /\ At(c, "read")
  /\ peer[c] = "reset"
  /\ peer' = [peer EXCEPT ![c] = "closed"]
  /\ \E rest \in Fill(c, MAX_BUF_SIZE) : buff' = [buff EXCEPT ![c] = @ \o rest]
  /\ Goto(c, "scan")
  /\ UNCHANGED << device, stream, unread, len, serving, history, overrun >>

ReceiveEnd_GoesOn(c) ==
  /\ At(c, "read")
  /\ peer[c] = "closed" /\ unread[c] = << >>
  /\ Goto(c, "scan")
  /\ UNCHANGED << device, client, buff, len, serving, history, overrun >>

\* cleanup: the buffer is freed.  (AesdSocket models the rest.)
Cleanup(c) ==
  /\ buff' = [buff EXCEPT ![c] = << >>]
  /\ len' = [len EXCEPT ![c] = 0]
  /\ Goto(c, "done")

\* read returns 0.
ReceiveEnd(c) ==
  /\ At(c, "read")
  /\ peer[c] = "closed" /\ unread[c] = << >>
  /\ Cleanup(c)
  /\ UNCHANGED << device, client, serving, history, overrun >>

\* Where the scan meets a newline next.
Newlines(c) == {n \in len[c] + 1 .. Len(buff[c]) : buff[c][n] = Newline}

IsNext(c, n) == n \in Newlines(c) /\ \A m \in Newlines(c) : n <= m

ScanEnd_OffByOne(c) ==
  /\ At(c, "scan")
  /\ Newlines(c) = {}
  /\ len' = [len EXCEPT ![c] = Len(buff[c]) + 1]
  /\ Goto(c, "read")
  /\ UNCHANGED << device, client, buff, serving, history, overrun >>

\* No newline is left: the scan ends and realloc makes room for more.
ScanEnd(c) ==
  /\ At(c, "scan")
  /\ Newlines(c) = {}
  /\ len' = [len EXCEPT ![c] = Len(buff[c])]
  /\ Goto(c, "read")
  /\ UNCHANGED << device, client, buff, serving, history, overrun >>

\* strncmp: the buffer begins with a seek command.
IsCommand(c) == buff[c][1] = Command

-----------------------------------------------------------------------------
(***************************************************************************)
(* process_packet.                                                         *)
(***************************************************************************)

\* The write to the device: everything from the beginning of the buffer to
\* the newline.  When it fails, that is reported and the answer is sent
\* all the same.
WritePacket(c) ==
  /\ At(c, "scan")
  /\ \E n \in Newlines(c) :
       /\ IsNext(c, n)
       /\ ~IsCommand(c)
       /\ len' = [len EXCEPT ![c] = n]
       /\ \/ /\ Dev!Write(c, SubSeq(buff[c], 1, n))
             /\ overwritten' = [d \in Conns |-> overwritten[d]
                                  \/ (Answering(d) /\ Len(log) = Capacity)]
          \/ /\ c \in Failing
             /\ UNCHANGED << device, overwritten >>
  /\ serving' = [serving EXCEPT ![c] = "process_packet"]
  /\ Goto(c, "rewind")
  /\ UNCHANGED << client, buff, answer, from, overrun >>

Rewind_Forgotten(c) ==
  /\ At(c, "rewind")
  /\ AnswerFrom(c, 0)
  /\ Goto(c, "answer")
  /\ UNCHANGED << device, client, buff, len, serving, overrun >>

\* lseek (fd, 0, SEEK_SET)
Rewind(c) ==
  /\ At(c, "rewind")
  /\ Dev!Seek(c, 0, 0)
  /\ AnswerFrom(c, 0)
  /\ Goto(c, "answer")
  /\ UNCHANGED << client, buff, len, serving, overrun >>

-----------------------------------------------------------------------------
(***************************************************************************)
(* seek_and_read.                                                          *)
(***************************************************************************)

\* strtok overwrites the delimiters of the command and the one after its
\* last argument: the newline, if no NUL comes before it.
AfterStrtok(b) ==
  LET ends == {n \in 2 .. Len(b) : b[n] \in {Newline, NUL}}
  IN  [n \in DOMAIN b |-> CASE n = 1 -> Mangled
                            [] n \in ends /\ (\A m \in ends : n <= m) -> NUL
                            [] OTHER -> b[n]]

\* The ioctl.  When the device refuses it, the client gets no answer.
SeekCommand(c) ==
  /\ At(c, "scan")
  /\ \E n \in Newlines(c) :
       /\ IsNext(c, n)
       /\ IsCommand(c)
       /\ len' = [len EXCEPT ![c] = n]
  /\ buff' = [buff EXCEPT ![c] = AfterStrtok(@)]
  /\ \/ /\ Dev!SeekTo(c, seekto[1], seekto[2])
        /\ serving' = [serving EXCEPT ![c] = "seek_and_read"]
        /\ AnswerFrom(c, pos'[c])
        /\ Goto(c, "answer")
     \/ /\ ~Dev!SeekAccepted(seekto[1], seekto[2])
        /\ UNCHANGED << device, serving, history, pc >>
  /\ UNCHANGED << client, overrun >>

-----------------------------------------------------------------------------
(***************************************************************************)
(* The loop that both end with: read from the device, send to the client.  *)
(***************************************************************************)

\* The device does not look at the count: it returns the rest of a packet
\* even if that is longer than write_back_pkt.  What the program does after
\* that is undefined.
ReadDevice(c) ==
  /\ At(c, "answer")
  /\ Dev!Read(c)
  /\ overrun' = (Len(reply'[c]) > MAX_BUF_SIZE)
  /\ Goto(c, "send")
  /\ UNCHANGED << client, buff, len, serving, history >>

AnswerEnd_AfterOne(c) ==
  /\ At(c, "answer")
  /\ pos[c] >= Dev!Size \/ answer[c] # << >>
  /\ serving' = [serving EXCEPT ![c] = "none"]
  /\ AnswerFrom(c, 0)
  /\ Goto(c, "scan")
  /\ UNCHANGED << device, client, buff, len, overrun >>

\* read returns 0: the answer is complete and the scan goes on.
AnswerEnd(c) ==
  /\ At(c, "answer")
  /\ pos[c] >= Dev!Size
  /\ serving' = [serving EXCEPT ![c] = "none"]
  /\ AnswerFrom(c, 0)
  /\ Goto(c, "scan")
  /\ UNCHANGED << device, client, buff, len, overrun >>

\* The client takes the reply.
SendReply(c) ==
  /\ At(c, "send")
  /\ answer' = [answer EXCEPT ![c] = @ \o reply[c]]
  /\ Dev!ReadReturns(c)
  /\ Goto(c, "answer")
  /\ UNCHANGED << client, buff, len, serving, from, overwritten, overrun >>

\* The write to a client that has left fails: process_packet ends the thread,
\* seek_and_read only its own loop.
SendFails(c) ==
  /\ At(c, "send")
  /\ peer[c] # "connected"
  /\ Dev!ReadReturns(c)
  /\ \/ serving[c] = "process_packet" /\ Cleanup(c)
     \/ serving[c] = "seek_and_read" /\ Goto(c, "scan") /\ UNCHANGED << buff, len >>
  /\ serving' = [serving EXCEPT ![c] = "none"]
  /\ AnswerFrom(c, 0)
  /\ UNCHANGED << client, overrun >>

-----------------------------------------------------------------------------
Thread(c) ==
  \/ Receive(c) \/ ReceiveError(c) \/ ReceiveEnd(c) \/ ScanEnd(c)
  \/ WritePacket(c) \/ Rewind(c) \/ SeekCommand(c)
  \/ ReadDevice(c) \/ AnswerEnd(c) \/ SendReply(c) \/ SendFails(c)

\* Every thread has ended, or the program's behaviour is undefined.
Done == (overrun \/ \A c \in Conns : pc[c] = "done") /\ UNCHANGED vars

Next == Done \/ \E c \in Conns : Leave(c) \/ Thread(c)

Spec == Init /\ [][Next]_vars

\* The scheduler runs every thread that can run, and the driver's calls
\* return (CallsReturn of AesdChar).  Nothing is assumed of the clients, but
\* that what they send is finite.
FairSpec == Spec /\ \A c \in Conns : WF_vars(Thread(c))

-----------------------------------------------------------------------------
Bytes == (UNION {Range(s) : s \in Streams}) \union Junk \union {Newline, NUL, Command, Mangled}

\* The variables keep their types: the scan stays inside the buffer, and the
\* device, whose packets all end with a newline, has no bytes waiting.
TypeOK ==
  /\ log \in Seq(Seq(Bytes)) /\ Len(log) <= Capacity
  /\ pending = << >>
  /\ pos \in [Conns -> Nat]
  /\ reply \in [Conns -> Seq(Bytes)]
  /\ peer \in [Conns -> {"connected", "closed", "reset"}]
  /\ stream \in [Conns -> Streams]
  /\ \A c \in Conns : IsSuffix(unread[c], stream[c])
  /\ pc \in [Conns -> {"read", "scan", "rewind", "answer", "send", "done"}]
  /\ buff \in [Conns -> Seq(Bytes)]
  /\ \A c \in Conns : len[c] \in 0 .. Len(buff[c])
  /\ serving \in [Conns -> {"none", "process_packet", "seek_and_read"}]
  /\ answer \in [Conns -> Seq(Bytes)]
  /\ from \in [Conns -> Nat]
  /\ overwritten \in [Conns -> BOOLEAN]
  /\ overrun \in BOOLEAN

Contents == FlattenSeq(log)

\* As long as the device drops nothing, an answer is a gapless piece of its
\* contents that starts where lseek or the ioctl has put the position,
\* whatever other threads write while it is being sent ...
AnswersAreContents ==
  \A c \in Conns :
    Answering(c) /\ ~overwritten[c]
      => answer[c] \o reply[c] = SubSeq(Contents, from[c] + 1, pos[c])

\* ... and it ends with the last byte the device then holds: "Send all the
\* file contents back to client".
AnswersAreComplete ==
  [][\A c \in Conns :
       pc[c] = "answer" /\ pc'[c] = "scan" /\ ~overwritten[c]
         => answer[c] = SubSeq(Contents, from[c] + 1, Len(Contents))]_vars

\* What the device stores of the first read of a connection is what its
\* client sent, up to a newline: neither bytes the buffer happened to hold
\* nor bytes of another client, however read splits the stream.
StoredAsSent ==
  [][\A c \in Conns :
       pc[c] = "scan" /\ pc'[c] = "rewind" /\ log' # log
           /\ len'[c] <= MAX_BUF_SIZE /\ stream[c][1] # Command
         => Last(log') = SubSeq(stream[c], 1, len'[c])]_vars

\* In the end every thread waits for its client to send more, or has ended
\* because the client has left.  So every answer ends, although its loop
\* goes on for as long as other threads write, and no client that leaves
\* in the middle keeps its thread.
ThreadsComeToRest ==
  <>[](overrun \/ \A c \in Conns : pc[c] = IF peer[c] = "connected" THEN "read" ELSE "done")

\* aesdsocket.c, process_packet: "send data in 1024 chunks".
ChunksFit == \A c \in Conns : Len(reply[c]) <= MAX_BUF_SIZE

=============================================================================

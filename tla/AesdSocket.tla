----------------------------- MODULE AesdSocket -----------------------------
(***************************************************************************)
(* The connection threads of aesdsocket.c: the main thread accepts         *)
(* connections, starts a thread for each, keeps them in the queue `head'   *)
(* and joins those that have finished; a signal ends the accept loop, and  *)
(* main waits for the threads that are left.                               *)
(*                                                                         *)
(* What a thread says to its client and to the device is the subject of    *)
(* other modules; here a packet is a step that succeeds, fails, or ends    *)
(* the process with SIGPIPE.  External: the clients, the socket calls, and *)
(* the pthread library.                                                    *)
(***************************************************************************)
EXTENDS TailQueue, FiniteSets

CONSTANTS
  Conns,            \* the connections clients make, each once
  MAIN,             \* the main thread, as owner of queue_lock
  MaxSends,         \* how often a client sends (bounds the model)
  ResourcesMayFail, \* may malloc, open and pthread_create fail?
  BrokenPipes       \* may a write to a client that has left raise SIGPIPE?

ASSUME AesdSocketAssumption ==
  /\ {MAIN, HEAD, NONE} \intersect Conns = {} /\ NONE \notin {MAIN, HEAD}
  /\ MaxSends \in Nat
  /\ {ResourcesMayFail, BrokenPipes} \subseteq BOOLEAN

VARIABLES
  peer,             \* the client's side of each connection
  sends,            \* how often each client has sent
  unread,           \* how many of these the thread has not read
  mainpc,           \* where main is
  draining,         \* main has left the accept loop
  run_connections,  \* the flag that sig_handler clears
  connfd,           \* main's local: the connection being set up
  head,             \* the queue: its head and the links of the entries
  queued,           \* history: the entries in it, in the order of insertion
  e,                \* the entry that TAILQ_FOREACH_SAFE visits
  outstanding_cons, \* threads found unfinished in this scan
  queue_lock,       \* the thread that holds it
  entry,            \* the malloc'ed struct client_queue of each connection
  task_finished,    \* entry's flag
  conn_fd,          \* entry's connfd: the socket
  dev_fd,           \* entry's fd: the device
  thread            \* where the thread of each connection is

client == << peer, sends, unread >>
main   == << mainpc, draining, connfd, e, outstanding_cons >>
queue  == << head, queued >>
shared == << run_connections, queue, queue_lock >>
conn   == << entry, task_finished, conn_fd, dev_fd, thread >>
vars   == << client, main, shared, conn >>

Init ==
  /\ peer = [c \in Conns |-> "absent"]
  /\ sends = [c \in Conns |-> 0]
  /\ unread = [c \in Conns |-> 0]
  /\ mainpc = "setup"
  /\ draining = FALSE
  /\ run_connections = TRUE
  /\ connfd = NONE
  /\ head = TAILQ_INIT(Conns)
  /\ queued = << >>
  /\ e = NONE
  /\ outstanding_cons = 0
  /\ queue_lock = NONE
  /\ entry = [c \in Conns |-> "none"]
  /\ task_finished = [c \in Conns |-> FALSE]
  /\ conn_fd = [c \in Conns |-> "none"]
  /\ dev_fd = [c \in Conns |-> "none"]
  /\ thread = [c \in Conns |-> "none"]

Ended == mainpc \in {"exited", "killed"}
Halted == Ended \/ mainpc = "stuck"

\* The library's lock of syslog, which main holds in the middle of a call.
SyslogFree == mainpc \notin {"logging", "stuck"}

Goto(p) == mainpc' = p

-----------------------------------------------------------------------------
(***************************************************************************)
(* The clients.  Connections wait in the backlog until main accepts them.  *)
(***************************************************************************)
Connect(c) ==
  /\ mainpc # "setup" /\ ~Ended
  /\ peer[c] = "absent"
  /\ peer' = [peer EXCEPT ![c] = "connected"]
  /\ UNCHANGED << sends, unread, main, shared, conn >>

Send(c) ==
  /\ peer[c] = "connected"
  /\ sends[c] < MaxSends
  /\ sends' = [sends EXCEPT ![c] = @ + 1]
  /\ unread' = [unread EXCEPT ![c] = @ + 1]
  /\ UNCHANGED << peer, main, shared, conn >>

\* The client ends the connection in order, or resets it.
Leave(c) ==
  /\ peer[c] = "connected"
  /\ \E how \in {"closed", "reset"} : peer' = [peer EXCEPT ![c] = how]
  /\ UNCHANGED << sends, unread, main, shared, conn >>

-----------------------------------------------------------------------------
(***************************************************************************)
(* main.                                                                   *)
(***************************************************************************)

\* From socket to TAILQ_INIT; with -d this is the child.  Whatever fails
\* ends the program.
Setup ==
  /\ mainpc = "setup"
  /\ \/ Goto("loop")
     \/ ResourcesMayFail /\ Goto("exited")
  /\ UNCHANGED << client, draining, connfd, e, outstanding_cons, shared, conn >>

\* while (run_connections): the loop ends when the flag is clear.
LeaveLoop ==
  /\ mainpc = "loop"
  /\ ~run_connections
  /\ draining' = TRUE
  /\ Goto("check_lock")
  /\ UNCHANGED << client, connfd, e, outstanding_cons, shared, conn >>

AcceptNone_Blocks ==
  /\ mainpc = "loop"
  /\ run_connections
  /\ \E c \in Conns : peer[c] # "absent" /\ conn_fd[c] = "none"
  /\ Goto("check_lock")
  /\ UNCHANGED << client, draining, connfd, e, outstanding_cons, shared, conn >>

\* The listening socket does not block: accept fails with EAGAIN when no
\* client waits, and main looks for finished threads.
AcceptNone ==
  /\ mainpc = "loop"
  /\ run_connections
  /\ \A c \in Conns : peer[c] # "absent" => conn_fd[c] # "none"
  /\ Goto("check_lock")
  /\ UNCHANGED << client, draining, connfd, e, outstanding_cons, shared, conn >>

\* Any other error of accept leaves the loop.
AcceptFails ==
  /\ mainpc = "loop"
  /\ run_connections
  /\ ResourcesMayFail
  /\ draining' = TRUE
  /\ Goto("check_lock")
  /\ UNCHANGED << client, connfd, e, outstanding_cons, shared, conn >>

\* main reports the connection, "server accept the client", inside syslog
\* until Accepted; of its calls of syslog this one stands for all.
Accept(c) ==
  /\ mainpc = "loop"
  /\ run_connections
  /\ peer[c] # "absent" /\ conn_fd[c] = "none"
  /\ conn_fd' = [conn_fd EXCEPT ![c] = "open"]
  /\ connfd' = c
  /\ Goto("logging")
  /\ UNCHANGED << client, draining, e, outstanding_cons, shared, entry,
                  task_finished, dev_fd, thread >>

Accepted ==
  /\ mainpc = "logging"
  /\ Goto("create")
  /\ UNCHANGED << client, draining, connfd, e, outstanding_cons, shared, conn >>

\* create_client_thread up to pthread_create.  The thread runs from then on,
\* before main has put it in the queue.
CreateThread ==
  /\ mainpc = "create"
  /\ entry' = [entry EXCEPT ![connfd] = "live"]
  /\ task_finished' = [task_finished EXCEPT ![connfd] = FALSE]
  /\ dev_fd' = [dev_fd EXCEPT ![connfd] = "open"]
  /\ thread' = [thread EXCEPT ![connfd] = "start"]
  /\ Goto("insert_lock")
  /\ UNCHANGED << client, draining, connfd, e, outstanding_cons, shared, conn_fd >>

\* The three errors of create_client_thread: malloc leaves the socket open,
\* open leaves also the entry, pthread_create frees the entry and leaves the
\* socket and the device open.  main does not look at the result.
CreateFails ==
  /\ mainpc = "create"
  /\ ResourcesMayFail
  /\ \/ UNCHANGED << entry, dev_fd >>
     \/ /\ entry' = [entry EXCEPT ![connfd] = "live"]
        /\ UNCHANGED dev_fd
     \/ /\ entry' = [entry EXCEPT ![connfd] = "freed"]
        /\ dev_fd' = [dev_fd EXCEPT ![connfd] = "open"]
  /\ connfd' = NONE
  /\ Goto("check_lock")
  /\ UNCHANGED << client, draining, e, outstanding_cons, shared,
                  task_finished, conn_fd, thread >>

\* pthread_mutex_lock, TAILQ_INSERT_TAIL, pthread_mutex_unlock.  Nobody
\* can observe the steps in between but for the lock being held.
InsertTail ==
  /\ mainpc = "insert_lock"
  /\ queue_lock = NONE
  /\ head' = TAILQ_INSERT_TAIL(head, connfd)
  /\ queued' = Append(queued, connfd)
  /\ connfd' = NONE
  /\ Goto("check_lock")
  /\ UNCHANGED << client, draining, e, outstanding_cons, run_connections,
                  queue_lock, conn >>

-----------------------------------------------------------------------------
(***************************************************************************)
(* check_for_finished_client_threads.                                      *)
(***************************************************************************)
CheckLock_KeepsCount ==
  /\ mainpc = "check_lock"
  /\ queue_lock = NONE
  /\ queue_lock' = MAIN
  /\ e' = TAILQ_FIRST(head)
  /\ Goto("scan")
  /\ UNCHANGED << client, draining, connfd, outstanding_cons, run_connections,
                  queue, conn >>

CheckLock ==
  /\ mainpc = "check_lock"
  /\ queue_lock = NONE
  /\ queue_lock' = MAIN
  /\ e' = TAILQ_FIRST(head)
  /\ outstanding_cons' = 0
  /\ Goto("scan")
  /\ UNCHANGED << client, draining, connfd, run_connections, queue, conn >>

ScanUnfinished ==
  /\ mainpc = "scan"
  /\ e # NONE /\ ~task_finished[e]
  /\ outstanding_cons' = outstanding_cons + 1
  /\ e' = TAILQ_NEXT(head, e)
  /\ UNCHANGED << client, mainpc, draining, connfd, shared, conn >>

\* TAILQ_REMOVE and free.  TAILQ_FOREACH_SAFE has loaded the next entry
\* before, while the links of this one could still be read.
RemoveAndFree ==
  /\ head' = Unlink(TAILQ_REMOVE(head, e), e)
  /\ queued' = Without(queued, e)
  /\ entry' = [entry EXCEPT ![e] = "freed"]
  /\ e' = TAILQ_NEXT(head, e)

Reap_NoWaitOnShutdown ==
  /\ mainpc = "scan"
  /\ e # NONE
  /\ draining \/ (task_finished[e] /\ thread[e] = "gone")
  /\ conn_fd' = [conn_fd EXCEPT ![e] = "closed"]
  /\ dev_fd' = [dev_fd EXCEPT ![e] = "closed"]
  /\ RemoveAndFree
  /\ UNCHANGED << client, mainpc, draining, connfd, outstanding_cons,
                  run_connections, queue_lock, task_finished, thread >>

Reap_KeepsDevice ==
  /\ mainpc = "scan"
  /\ e # NONE /\ task_finished[e]
  /\ thread[e] = "gone"
  /\ conn_fd' = [conn_fd EXCEPT ![e] = "closed"]
  /\ RemoveAndFree
  /\ UNCHANGED << client, mainpc, draining, connfd, outstanding_cons,
                  run_connections, queue_lock, task_finished, dev_fd, thread >>

\* pthread_join waits for the thread while main holds queue_lock; then both
\* descriptors are closed and the entry is removed and freed.
Reap ==
  /\ mainpc = "scan"
  /\ e # NONE /\ task_finished[e]
  /\ thread[e] = "gone"
  /\ conn_fd' = [conn_fd EXCEPT ![e] = "closed"]
  /\ dev_fd' = [dev_fd EXCEPT ![e] = "closed"]
  /\ RemoveAndFree
  /\ UNCHANGED << client, mainpc, draining, connfd, outstanding_cons,
                  run_connections, queue_lock, task_finished, thread >>

ScanDone_IgnoresCount ==
  /\ mainpc = "scan"
  /\ e = NONE
  /\ queue_lock' = NONE
  /\ Goto(IF draining THEN "exited" ELSE "loop")
  /\ UNCHANGED << client, draining, connfd, e, outstanding_cons,
                  run_connections, queue, conn >>

ScanDone_WaitsForError ==
  /\ mainpc = "scan"
  /\ e = NONE
  /\ queue_lock' = NONE
  /\ \/ ~draining /\ Goto("loop")
     \/ draining /\ outstanding_cons >= 0 /\ Goto("check_lock")
  /\ UNCHANGED << client, draining, connfd, e, outstanding_cons,
                  run_connections, queue, conn >>

\* Unlock and return the count: the accept loop ignores it, the last loop
\* of main calls again until it is zero.
ScanDone ==
  /\ mainpc = "scan"
  /\ e = NONE
  /\ queue_lock' = NONE
  /\ \/ ~draining /\ Goto("loop")
     \/ draining /\ outstanding_cons # 0 /\ Goto("check_lock")
     \/ draining /\ outstanding_cons = 0 /\ Goto("exited")
  /\ UNCHANGED << client, draining, connfd, e, outstanding_cons,
                  run_connections, queue, conn >>

\* The kernel runs the handler in the main thread, which does not block the
\* signal.  The handler calls syslog after it has cleared the flag; when it
\* has interrupted main inside syslog, it waits for the lock that main holds.
sig_handler ==
  /\ mainpc \notin {"setup", "stuck"} /\ ~Ended
  /\ run_connections
  /\ run_connections' = FALSE
  /\ Goto(IF mainpc = "logging" THEN "stuck" ELSE mainpc)
  /\ UNCHANGED << client, draining, connfd, e, outstanding_cons, queue,
                  queue_lock, conn >>

-----------------------------------------------------------------------------
(***************************************************************************)
(* process_client_connection.                                              *)
(***************************************************************************)
ThreadGoto(c, p) == thread' = [thread EXCEPT ![c] = p]

ThreadStart(c) ==
  /\ ~Ended /\ thread[c] = "start"
  /\ SyslogFree
  /\ \/ ThreadGoto(c, "reading")
     \/ ResourcesMayFail /\ ThreadGoto(c, "lock")
  /\ UNCHANGED << client, main, shared, entry, task_finished, conn_fd, dev_fd >>

\* read returned data: it may complete a packet or not.
ReadData(c) ==
  /\ ~Ended /\ thread[c] = "reading"
  /\ unread[c] > 0 /\ peer[c] # "reset"
  /\ unread' = [unread EXCEPT ![c] = @ - 1]
  /\ \E p \in {"reading", "serving"} : ThreadGoto(c, p)
  /\ UNCHANGED << peer, sends, main, shared, entry, task_finished, conn_fd, dev_fd >>

\* read returned -1, once, after a reset: the loop takes it for data and
\* looks for a newline in what the buffer happens to hold.
ReadError(c) ==
  /\ ~Ended /\ thread[c] = "reading"
  /\ peer[c] = "reset"
  /\ peer' = [peer EXCEPT ![c] = "closed"]
  /\ unread' = [unread EXCEPT ![c] = 0]
  /\ \E p \in {"reading", "serving"} : ThreadGoto(c, p)
  /\ UNCHANGED << sends, main, shared, entry, task_finished, conn_fd, dev_fd >>

ReadEnd_FlagsEarly(c) ==
  /\ ~Ended /\ thread[c] = "reading"
  /\ unread[c] = 0 /\ peer[c] = "closed"
  /\ task_finished' = [task_finished EXCEPT ![c] = TRUE]
  /\ ThreadGoto(c, "lock")
  /\ UNCHANGED << client, main, shared, entry, conn_fd, dev_fd >>

\* read returned 0: the client has left.
ReadEnd(c) ==
  /\ ~Ended /\ thread[c] = "reading"
  /\ unread[c] = 0 /\ peer[c] = "closed"
  /\ ThreadGoto(c, "lock")
  /\ UNCHANGED << client, main, shared, entry, task_finished, conn_fd, dev_fd >>

\* process_packet or seek_and_read, for each newline that was found.  The
\* write to the client may fail when it has left, or fall short when a signal
\* interrupts it, which ends this thread only.
Serve(c) ==
  /\ ~Ended /\ thread[c] = "serving"
  /\ SyslogFree
  /\ \/ ThreadGoto(c, "reading")
     \/ /\ peer[c] # "connected" \/ ~run_connections
        /\ ThreadGoto(c, "lock")
  /\ UNCHANGED << client, main, shared, entry, task_finished, conn_fd, dev_fd >>

\* The same write may raise SIGPIPE, which the program neither handles nor
\* ignores: it ends the process.
SigPipe(c) ==
  /\ BrokenPipes
  /\ ~Ended /\ thread[c] = "serving"
  /\ peer[c] # "connected"
  /\ Goto("killed")
  /\ UNCHANGED << client, draining, connfd, e, outstanding_cons, shared, conn >>

\* cleanup: the lock around task_finished = 1.
FinishLock(c) ==
  /\ ~Ended /\ thread[c] = "lock"
  /\ queue_lock = NONE
  /\ queue_lock' = c
  /\ ThreadGoto(c, "flag")
  /\ UNCHANGED << client, main, run_connections, queue, entry, task_finished,
                  conn_fd, dev_fd >>

FinishFlag(c) ==
  /\ ~Ended /\ thread[c] = "flag"
  /\ task_finished' = [task_finished EXCEPT ![c] = TRUE]
  /\ ThreadGoto(c, "unlock")
  /\ UNCHANGED << client, main, shared, entry, conn_fd, dev_fd >>

FinishUnlock(c) ==
  /\ ~Ended /\ thread[c] = "unlock"
  /\ queue_lock' = NONE
  /\ ThreadGoto(c, "exit")
  /\ UNCHANGED << client, main, run_connections, queue, entry, task_finished,
                  conn_fd, dev_fd >>

ThreadExit(c) ==
  /\ ~Ended /\ thread[c] = "exit"
  /\ ThreadGoto(c, "gone")
  /\ UNCHANGED << client, main, shared, entry, task_finished, conn_fd, dev_fd >>

-----------------------------------------------------------------------------
Client(c) == Connect(c) \/ Send(c) \/ Leave(c)

MainLock == InsertTail \/ CheckLock

Main ==
  \/ Setup \/ LeaveLoop \/ AcceptNone \/ Accepted \/ CreateThread
  \/ ScanUnfinished \/ Reap \/ ScanDone
  \/ \E c \in Conns : Accept(c)

Thread(c) ==
  \/ ThreadStart(c) \/ ReadData(c) \/ ReadError(c) \/ ReadEnd(c) \/ Serve(c)
  \/ FinishFlag(c) \/ FinishUnlock(c) \/ ThreadExit(c)

\* What may go wrong, and does not have to.
Fault == AcceptFails \/ CreateFails \/ \E c \in Conns : SigPipe(c)

\* main has ended the process, or waits in the handler for ever.
Done == Halted /\ UNCHANGED vars

Next ==
  \/ Main \/ MainLock \/ Fault \/ sig_handler \/ Done
  \/ \E c \in Conns : Client(c) \/ Thread(c) \/ FinishLock(c)

Spec == Init /\ [][Next]_vars

\* The scheduler runs every thread that can run.  Nothing is assumed of the
\* order in which queue_lock is granted: POSIX promises none, and main asks
\* for it again and again.  (A thread asks for it once, so that main gets it
\* in the end.)  Nothing is assumed of the clients.
Fairness ==
  /\ WF_vars(Main) /\ WF_vars(MainLock)
  /\ \A c \in Conns : WF_vars(Thread(c))

FairSpec == Spec /\ Fairness

-----------------------------------------------------------------------------
MainPCs == {"setup", "loop", "logging", "stuck", "create", "insert_lock", "check_lock", "scan",
            "exited", "killed"}

ThreadPCs == {"none", "start", "reading", "serving", "lock", "flag", "unlock",
              "exit", "gone"}

\* The queue and its counters stay in range: check_for_finished_client_threads
\* never counts more threads than there are.
TypeOK ==
  /\ peer \in [Conns -> {"absent", "connected", "closed", "reset"}]
  /\ sends \in [Conns -> 0 .. MaxSends]
  /\ unread \in [Conns -> 0 .. MaxSends]
  /\ mainpc \in MainPCs
  /\ draining \in BOOLEAN
  /\ run_connections \in BOOLEAN
  /\ connfd \in Conns \union {NONE}
  /\ head \in [next : [Conns \union {HEAD} -> Conns \union {NONE}],
               prev : [Conns \union {HEAD} -> Conns \union {HEAD, NONE}]]
  /\ queued \in Seq(Conns) /\ Len(queued) <= Cardinality(Conns)
  /\ e \in Conns \union {NONE}
  /\ outstanding_cons \in 0 .. Cardinality(Conns)
  /\ queue_lock \in Conns \union {MAIN, NONE}
  /\ entry \in [Conns -> {"none", "live", "freed"}]
  /\ task_finished \in [Conns -> BOOLEAN]
  /\ conn_fd \in [Conns -> {"none", "open", "closed"}]
  /\ dev_fd \in [Conns -> {"none", "open", "closed"}]
  /\ thread \in [Conns -> ThreadPCs]

\* A thread finds its client_queue entry allocated and its two descriptors
\* open at every step that uses them, although main frees and closes them
\* from another thread: process_client_connection has no use after free.
ThreadsUseLiveEntries ==
  \A c \in Conns :
    /\ thread[c] \in {"start", "reading", "serving", "lock", "flag"}
         => entry[c] = "live"
    /\ thread[c] \in {"start", "reading", "serving"}
         => conn_fd[c] = "open" /\ dev_fd[c] = "open"

\* main joins a thread while it holds queue_lock, which is no deadlock
\* because a thread whose flag main can see does not need the lock any more.
JoinNeverWaitsForLock ==
  mainpc = "scan" /\ e # NONE /\ task_finished[e]
    => thread[e] \in {"exit", "gone"}

\* The program returns from main only when no thread is left.
ExitLeavesNoThread ==
  mainpc = "exited" => \A c \in Conns : thread[c] \in {"none", "gone"}

\* Once a connection has a thread, its entry and its two descriptors are in
\* the queue, or main is about to put them there, until they are released:
\* nothing that only main can release is lost.  (A connection for which
\* create_client_thread failed has no thread, and is lost.)
NothingLost ==
  \A c \in Conns :
    thread[c] # "none" /\ (entry[c] = "live" \/ conn_fd[c] = "open" \/ dev_fd[c] = "open")
      => c = connfd \/ c \in Linked(head)

\* The links that TAILQ_INSERT_TAIL and TAILQ_REMOVE maintain are those of a
\* queue with the entries that were inserted and not removed, in this order:
\* the scan meets every entry once, and the next insertion is not lost.
QueueIsConsistent == Represents(head, queued)

\* A thread that has ended is joined and its descriptors are closed, while
\* the server goes on serving others.
ThreadsReaped == \A c \in Conns : thread[c] = "gone" ~> conn_fd[c] = "closed" \/ Halted

\* SIGTERM or SIGINT ends the program in two stages: unless the handler
\* stops in syslog (SignalEndsAccepting is about that) main comes to the loop
\* that waits for the threads; and once every thread has reported itself
\* finished, that loop ends, and the program with it.  No join, no count and
\* no entry left in the queue keeps it alive.  That every thread reports is
\* not claimed: its client has to leave, and main must not win the race for
\* queue_lock for ever.
ShutdownCompletes ==
  /\ (~run_connections /\ mainpc # "stuck") ~> (draining \/ Ended)
  /\ (draining /\ \A c \in Conns : thread[c] # "none" => task_finished[c]) ~> Ended

-----------------------------------------------------------------------------
(***************************************************************************)
(* Claims of the source that the code does not keep.                       *)
(***************************************************************************)

\* aesdsocket.c: when the answer cannot be sent, process_packet reports
\* "Failed to send pkts back to client" and only that thread ends.
SurvivesLeavingClients == mainpc # "killed"

\* aesdsocket.c, after the accept loop: "control comes when signal is
\* detected and run_connections == 0".
SignalEndsAccepting == ~run_connections ~> draining \/ Ended

=============================================================================

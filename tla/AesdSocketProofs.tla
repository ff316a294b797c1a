-------------------------- MODULE AesdSocketProofs --------------------------
(***************************************************************************)
(* The safety invariants of AesdSocket, for every number of connections:   *)
(* entries, descriptors, links and locks first, then the counters.         *)
(***************************************************************************)
EXTENDS AesdSocket, TailQueueProofs, FiniteSetTheorems

Queued == {queued[i] : i \in DOMAIN queued}

ServerType ==
  /\ mainpc \in MainPCs
  /\ draining \in BOOLEAN
  /\ connfd \in Conns \union {NONE}
  /\ head \in Links(Conns)
  /\ queued \in Seq(Conns)
  /\ e \in Conns \union {NONE}
  /\ outstanding_cons \in Nat
  /\ queue_lock \in Conns \union {MAIN, NONE}
  /\ entry \in [Conns -> {"none", "live", "freed"}]
  /\ task_finished \in [Conns -> BOOLEAN]
  /\ conn_fd \in [Conns -> {"none", "open", "closed"}]
  /\ dev_fd \in [Conns -> {"none", "open", "closed"}]
  /\ thread \in [Conns -> ThreadPCs]

\* Who is in a critical section holds queue_lock.
LockHolders ==
  /\ mainpc = "scan" => queue_lock = MAIN
  /\ \A c \in Conns : thread[c] \in {"flag", "unlock"} => queue_lock = c

\* A thread raises its flag inside its critical section, the last thing it does.
FlagMeansDone ==
  \A c \in Conns : task_finished[c] => thread[c] \in {"unlock", "exit", "gone"}

\* Nothing is taken from a thread that runs.
ThreadsHaveResources ==
  \A c \in Conns :
    thread[c] \notin {"none", "gone"}
      => entry[c] = "live" /\ conn_fd[c] = "open" /\ dev_fd[c] = "open"

\* What main knows of the connection it is setting up, if any.
SetupState ==
  /\ mainpc = "setup" => \A c \in Conns : thread[c] = "none"
  /\ mainpc \in {"logging", "create"}
       => connfd # NONE /\ conn_fd[connfd] = "open" /\ thread[connfd] = "none"
  /\ mainpc = "insert_lock"
       => connfd # NONE /\ thread[connfd] # "none" /\ connfd \notin Queued
  /\ mainpc \in {"setup", "loop", "check_lock", "scan", "exited"} => connfd = NONE
  /\ \A c \in Conns : conn_fd[c] = "none" => thread[c] = "none"

QueueState ==
  /\ Distinct(queued)
  /\ QueueIsConsistent
  /\ \A c \in Queued : thread[c] # "none"

\* The scan is at an entry of the queue; as long as it has counted nobody, it
\* has removed everything before.
ScanState ==
  mainpc = "scan" =>
    /\ e # NONE => e \in Queued
    /\ outstanding_cons = 0 => e = TAILQ_FIRST(head)

\* NothingLost, in terms of the history.
Kept ==
  \A c \in Conns :
    thread[c] # "none" /\ (entry[c] = "live" \/ conn_fd[c] = "open" \/ dev_fd[c] = "open")
      => c = connfd \/ c \in Queued

ServerInv ==
  /\ ServerType
  /\ LockHolders
  /\ FlagMeansDone
  /\ ThreadsHaveResources
  /\ SetupState
  /\ QueueState
  /\ ScanState
  /\ Kept
  /\ ExitLeavesNoThread

-----------------------------------------------------------------------------
LEMMA ConnsAreNotSpecial ==
  HEAD \notin Conns /\ NONE \notin Conns /\ MAIN \notin Conns /\ HEAD # NONE /\ MAIN # NONE
BY AesdSocketAssumption

LEMMA InitServerInv == Init => ServerInv
<1> SUFFICES ASSUME Init PROVE ServerInv
    OBVIOUS
<1>1. queued = << >> /\ DOMAIN queued = {} /\ Queued = {} /\ Distinct(queued)
      BY DEF Init, Queued, Distinct
<1>2. head \in Links(Conns) /\ QueueIsConsistent
      BY InitRepresents, ConnsAreNotSpecial DEF Init, QueueIsConsistent
<1>3. ServerType
  <2>1. queued \in Seq(Conns) /\ task_finished \in [Conns -> BOOLEAN]
        BY <1>1 DEF Init
  <2>2. /\ entry \in [Conns -> {"none", "live", "freed"}]
        /\ conn_fd \in [Conns -> {"none", "open", "closed"}]
        /\ dev_fd \in [Conns -> {"none", "open", "closed"}]
        /\ thread \in [Conns -> ThreadPCs]
        BY DEF Init, ThreadPCs
  <2> QED BY <1>2, <2>1, <2>2 DEF Init, ServerType, MainPCs
<1>4. LockHolders /\ FlagMeansDone /\ ThreadsHaveResources /\ SetupState
      BY <1>1 DEF Init, LockHolders, FlagMeansDone, ThreadsHaveResources, SetupState
<1>5. QueueState /\ ScanState /\ Kept /\ ExitLeavesNoThread
      BY <1>1, <1>2 DEF Init, QueueState, ScanState, Kept, ExitLeavesNoThread
<1> QED BY <1>3, <1>4, <1>5 DEF ServerInv

\* What an element of the queue and the end of it look like from their links.
LEMMA NextInQueue ==
  ASSUME ServerInv, NEW c \in Queued
  PROVE  TAILQ_NEXT(head, c) # NONE => TAILQ_NEXT(head, c) \in Queued \ {c}
<1>1. PICK i \in DOMAIN queued : queued[i] = c
      BY DEF Queued
<1>2. queued \in Seq(Conns) /\ Distinct(queued) /\ Represents(head, queued)
      BY DEF ServerInv, ServerType, QueueState, QueueIsConsistent
<1>3. head.next[queued[i]] = IF i = Len(queued) THEN NONE ELSE queued[i + 1]
      BY <1>2 DEF Represents
<1>4. CASE i = Len(queued)
      BY <1>1, <1>3, <1>4 DEF TAILQ_NEXT
<1>5. CASE i # Len(queued)
  <2>1. i + 1 \in DOMAIN queued /\ i + 1 # i
        BY <1>2, <1>5
  <2>2. queued[i + 1] \in Queued /\ queued[i + 1] # queued[i]
        BY <1>2, <2>1 DEF Queued, Distinct
  <2> QED BY <1>1, <1>3, <1>5, <2>2 DEF TAILQ_NEXT
<1> QED BY <1>4, <1>5

LEMMA FirstInQueue ==
  ASSUME ServerInv
  PROVE  /\ TAILQ_FIRST(head) # NONE => TAILQ_FIRST(head) \in Queued
         /\ TAILQ_FIRST(head) = NONE => Queued = {}
<1>1. queued \in Seq(Conns) /\ Represents(head, queued)
      BY DEF ServerInv, ServerType, QueueState, QueueIsConsistent
<1>2. TAILQ_FIRST(head) = IF queued = << >> THEN NONE ELSE queued[1]
      BY <1>1 DEF Represents
<1>3. CASE queued = << >>
      BY <1>2, <1>3 DEF Queued
<1>4. CASE queued # << >>
  <2>1. 1 \in DOMAIN queued /\ queued[1] \in Conns
        BY <1>1, <1>4
  <2> QED BY <1>2, <1>4, <2>1, ConnsAreNotSpecial DEF Queued
<1> QED BY <1>3, <1>4

-----------------------------------------------------------------------------
(***************************************************************************)
(* Every step preserves the invariant.                                     *)
(***************************************************************************)
LEMMA ClientSteps ==
  ASSUME ServerInv, NEW c \in Conns, Client(c)
  PROVE  ServerInv'
BY DEF Client, Connect, Send, Leave, main, shared, queue, conn, ServerInv, ServerType,
       LockHolders, FlagMeansDone, ThreadsHaveResources, SetupState, QueueState, ScanState,
       Kept, ExitLeavesNoThread, Queued, QueueIsConsistent

LEMMA MainSteps ==
  ASSUME ServerInv, Setup \/ LeaveLoop \/ AcceptNone \/ AcceptFails \/ Accepted
  PROVE  ServerInv'
<1> USE ConnsAreNotSpecial
    DEF Goto, shared, queue, conn, ServerInv, ServerType,
        LockHolders, FlagMeansDone, ThreadsHaveResources, SetupState, QueueState, ScanState,
        Kept, ExitLeavesNoThread, Queued, QueueIsConsistent, MainPCs
<1>1. CASE Setup
      BY <1>1 DEF Setup
<1>2. CASE LeaveLoop
      BY <1>2 DEF LeaveLoop
<1>3. CASE AcceptNone
      BY <1>3 DEF AcceptNone
<1>4. CASE AcceptFails
      BY <1>4 DEF AcceptFails
<1>5. CASE Accepted
      BY <1>5 DEF Accepted
<1> QED BY <1>1, <1>2, <1>3, <1>4, <1>5

LEMMA AcceptStep ==
  ASSUME ServerInv, NEW c \in Conns, Accept(c)
  PROVE  ServerInv'
BY ConnsAreNotSpecial
DEF Accept, Goto, shared, queue, ServerInv, ServerType, LockHolders, FlagMeansDone,
    ThreadsHaveResources, SetupState, QueueState, ScanState, Kept, ExitLeavesNoThread,
    Queued, QueueIsConsistent, MainPCs

LEMMA CreateSteps ==
  ASSUME ServerInv, CreateThread \/ CreateFails
  PROVE  ServerInv'
<1> USE ConnsAreNotSpecial
    DEF Goto, shared, queue, ServerInv, ServerType,
        LockHolders, FlagMeansDone, ThreadsHaveResources, SetupState, QueueState, ScanState,
        Kept, ExitLeavesNoThread, Queued, QueueIsConsistent, MainPCs, ThreadPCs
<1>1. CASE CreateThread
      BY <1>1 DEF CreateThread
<1>2. CASE CreateFails
      BY <1>2 DEF CreateFails
<1> QED BY <1>1, <1>2

LEMMA ThreadSteps ==
  ASSUME ServerInv, NEW c \in Conns, Thread(c) \/ FinishLock(c) \/ SigPipe(c)
  PROVE  ServerInv'
<1> USE ConnsAreNotSpecial
    DEF ThreadGoto, Ended, main, shared, queue, ServerInv, ServerType,
        LockHolders, FlagMeansDone, ThreadsHaveResources, SetupState, QueueState, ScanState,
        Kept, ExitLeavesNoThread, Queued, QueueIsConsistent, ThreadPCs
<1>1. CASE ThreadStart(c)
      BY <1>1 DEF ThreadStart
<1>2. CASE ReadData(c) \/ ReadError(c)
      BY <1>2 DEF ReadData, ReadError
<1>3. CASE ReadEnd(c)
      BY <1>3 DEF ReadEnd
<1>4. CASE Serve(c)
  <2>1. PICK p \in {"reading", "lock"} : ThreadGoto(c, p)
        BY <1>4 DEF Serve
  <2> QED BY <1>4, <2>1 DEF Serve
<1>5. CASE FinishFlag(c)
      BY <1>5 DEF FinishFlag
<1>6. CASE FinishUnlock(c)
      BY <1>6 DEF FinishUnlock
<1>7. CASE ThreadExit(c)
      BY <1>7 DEF ThreadExit
<1>8. CASE FinishLock(c)
      BY <1>8 DEF FinishLock
<1>9. CASE SigPipe(c)
      BY <1>9 DEF SigPipe, Goto, conn, MainPCs
<1> HIDE DEF ServerInv
<1> QED BY <1>1, <1>2, <1>3, <1>4, <1>5, <1>6, <1>7, <1>8, <1>9 DEF Thread

LEMMA SignalStep ==
  ASSUME ServerInv, sig_handler
  PROVE  ServerInv'
BY ConnsAreNotSpecial
DEF sig_handler, Goto, Ended, queue, conn, ServerInv, ServerType, LockHolders, FlagMeansDone,
    ThreadsHaveResources, SetupState, QueueState, ScanState, Kept, ExitLeavesNoThread,
    Queued, QueueIsConsistent, MainPCs

\* The new entry is the only change of the queue; it is not in it before.
LEMMA InsertTailStep ==
  ASSUME ServerInv, InsertTail
  PROVE  ServerInv'
<1>1. /\ connfd \in Conns /\ connfd \notin Queued /\ thread[connfd] # "none"
      /\ head \in Links(Conns) /\ queued \in Seq(Conns)
      /\ Distinct(queued) /\ Represents(head, queued)
      /\ \A i \in DOMAIN queued : queued[i] # connfd
      BY DEF ServerInv, ServerType, SetupState, QueueState, QueueIsConsistent, InsertTail, Queued
<1>2. /\ head' = TAILQ_INSERT_TAIL(head, connfd)
      /\ queued' = Append(queued, connfd)
      BY DEF InsertTail
<1>3. head' \in Links(Conns) /\ Distinct(queued') /\ Represents(head', queued')
      BY <1>1, <1>2, InsertTailRepresents, ConnsAreNotSpecial
<1>4. queued' \in Seq(Conns) /\ Queued' = Queued \union {connfd}
  <2>1. /\ Len(queued') = Len(queued) + 1 /\ queued'[Len(queued) + 1] = connfd
        /\ Len(queued) \in Nat
        /\ \A i \in 1 .. Len(queued) : queued'[i] = queued[i]
        /\ queued' \in Seq(Conns)
        BY <1>1, <1>2
  <2>2. DOMAIN queued' = 1 .. Len(queued) + 1 /\ DOMAIN queued = 1 .. Len(queued)
        BY <1>1, <2>1
  <2> QED BY <2>1, <2>2 DEF Queued
<1>5. /\ mainpc = "insert_lock" /\ mainpc' = "check_lock" /\ connfd' = NONE
      /\ UNCHANGED << draining, e, outstanding_cons, queue_lock, entry, task_finished,
                      conn_fd, dev_fd, thread >>
      BY DEF InsertTail, Goto, conn
<1>6. ServerType'
      BY <1>3, <1>4, <1>5 DEF ServerInv, ServerType, MainPCs
<1>7. (LockHolders /\ FlagMeansDone /\ ThreadsHaveResources /\ SetupState)'
      BY <1>5 DEF ServerInv, LockHolders, FlagMeansDone, ThreadsHaveResources, SetupState
<1>8. QueueState'
      BY <1>1, <1>3, <1>4, <1>5 DEF ServerInv, QueueState, QueueIsConsistent
<1>9. (ScanState /\ Kept /\ ExitLeavesNoThread)'
      BY <1>4, <1>5 DEF ServerInv, ScanState, Kept, ExitLeavesNoThread
<1> QED BY <1>6, <1>7, <1>8, <1>9 DEF ServerInv

\* The steps of the scan that leave the queue as it is.
LEMMA ScanSteps ==
  ASSUME ServerInv, CheckLock \/ ScanUnfinished \/ ScanDone
  PROVE  ServerInv'
<1> USE ConnsAreNotSpecial
    DEF Goto, queue, shared, conn, ServerInv, ServerType,
        LockHolders, FlagMeansDone, ThreadsHaveResources, SetupState, QueueState, ScanState,
        Kept, ExitLeavesNoThread, QueueIsConsistent, MainPCs
<1>1. queued' = queued => Queued' = Queued
      BY DEF Queued
<1>2. Queued \subseteq Conns
      BY DEF Queued
<1>3. CASE CheckLock
      BY <1>1, <1>2, <1>3, FirstInQueue DEF CheckLock
<1>4. CASE ScanUnfinished
  <2>1. TAILQ_NEXT(head, e) # NONE => TAILQ_NEXT(head, e) \in Queued
        BY <1>4, NextInQueue DEF ScanUnfinished
  <2> QED BY <1>1, <1>2, <1>4, <2>1 DEF ScanUnfinished
<1>5. CASE ScanDone
  <2>1. draining /\ outstanding_cons = 0 => Queued = {}
        BY <1>5, FirstInQueue DEF ScanDone
  <2> QED BY <1>1, <1>5, <2>1 DEF ScanDone
<1> HIDE DEF ServerInv
<1> QED BY <1>3, <1>4, <1>5

\* The entry that is removed belongs to a thread that has gone, so that nobody
\* misses what is closed and freed.
LEMMA ReapStep ==
  ASSUME ServerInv, Reap
  PROVE  ServerInv'
<1>1. /\ mainpc = "scan" /\ e # NONE /\ e \in Queued /\ e \in Conns /\ thread[e] = "gone"
      /\ head \in Links(Conns) /\ queued \in Seq(Conns)
      /\ Distinct(queued) /\ Represents(head, queued)
      BY DEF ServerInv, ServerType, ScanState, QueueState, QueueIsConsistent, Reap
<1>2. PICK k \in DOMAIN queued : queued[k] = e
      BY <1>1 DEF Queued
<1>3. /\ head' = Unlink(TAILQ_REMOVE(head, e), e)
      /\ queued' = Without(queued, e)
      /\ e' = TAILQ_NEXT(head, e)
      /\ entry' = [entry EXCEPT ![e] = "freed"]
      /\ conn_fd' = [conn_fd EXCEPT ![e] = "closed"]
      /\ dev_fd' = [dev_fd EXCEPT ![e] = "closed"]
      /\ UNCHANGED << mainpc, draining, connfd, outstanding_cons, queue_lock, task_finished,
                      thread >>
      BY DEF Reap, RemoveAndFree
<1>4. /\ head' \in Links(Conns) /\ queued' \in Seq(Conns)
      /\ Distinct(queued') /\ Represents(head', queued')
      BY <1>1, <1>2, <1>3, RemoveRepresents, ConnsAreNotSpecial
<1>5. Queued' = Queued \ {e}
      BY <1>1, <1>2, <1>3, WithoutRange DEF Queued
<1>6. e' # NONE => e' \in Queued'
      BY <1>1, <1>3, <1>5, NextInQueue
<1>7. ASSUME e = TAILQ_FIRST(head)
      PROVE  e' = TAILQ_FIRST(head')
  <2>1. queued # << >> /\ 1 \in DOMAIN queued
        BY <1>1, <1>2
  <2>2. k = 1
        BY <1>1, <1>2, <1>7, <2>1 DEF Represents, Distinct
  <2>3. head.prev[e] = HEAD
        BY <1>1, <1>2, <2>2 DEF Represents
  <2> QED BY <1>1, <1>3, <2>3, ConnsAreNotSpecial
          DEF Links, TAILQ_FIRST, TAILQ_NEXT, TAILQ_REMOVE, Unlink
<1>8. ServerType'
      BY <1>1, <1>3, <1>4, <1>5, <1>6 DEF Queued, ServerInv, ServerType, MainPCs
<1>9. (LockHolders /\ FlagMeansDone /\ ThreadsHaveResources)'
      BY <1>1, <1>3 DEF ServerInv, ServerType, LockHolders, FlagMeansDone, ThreadsHaveResources
<1>10. (SetupState /\ QueueState)'
      BY <1>1, <1>3, <1>4, <1>5 DEF ServerInv, ServerType, SetupState, QueueState, QueueIsConsistent
<1>11. ScanState'
      BY <1>1, <1>3, <1>6, <1>7 DEF ServerInv, ScanState
<1>12. (Kept /\ ExitLeavesNoThread)'
      BY <1>1, <1>3, <1>5 DEF ServerInv, ServerType, Kept, ExitLeavesNoThread
<1> QED BY <1>8, <1>9, <1>10, <1>11, <1>12 DEF ServerInv

LEMMA StepServerInv == ServerInv /\ [Next]_vars => ServerInv'
<1> SUFFICES ASSUME ServerInv, [Next]_vars
             PROVE  ServerInv'
    OBVIOUS
<1>1. CASE UNCHANGED vars
      BY <1>1 DEF vars, client, main, shared, queue, conn, ServerInv, ServerType,
         LockHolders, FlagMeansDone, ThreadsHaveResources, SetupState, QueueState, ScanState,
         Kept, ExitLeavesNoThread, Queued, QueueIsConsistent
<1>2. CASE Done
      BY <1>1, <1>2 DEF Done
<1>3. CASE Main
      BY <1>3, MainSteps, AcceptStep, CreateSteps, ScanSteps, ReapStep DEF Main
<1>4. CASE MainLock
      BY <1>4, InsertTailStep, ScanSteps DEF MainLock
<1>5. CASE Fault
      BY <1>5, MainSteps, CreateSteps, ThreadSteps DEF Fault
<1>6. CASE sig_handler
      BY <1>6, SignalStep
<1>7. CASE \E c \in Conns : Client(c) \/ Thread(c) \/ FinishLock(c)
      BY <1>7, ClientSteps, ThreadSteps
<1> QED BY <1>1, <1>2, <1>3, <1>4, <1>5, <1>6, <1>7 DEF Next

LEMMA ServerInvImplies ==
  ASSUME ServerInv
  PROVE  /\ ThreadsUseLiveEntries
         /\ JoinNeverWaitsForLock
         /\ NothingLost
<1>1. ThreadsUseLiveEntries
      BY DEF ServerInv, ServerType, ThreadsHaveResources, ThreadsUseLiveEntries
<1>2. JoinNeverWaitsForLock
      BY ConnsAreNotSpecial
      DEF ServerInv, ServerType, LockHolders, FlagMeansDone, JoinNeverWaitsForLock
<1>3. ASSUME NEW c \in Queued
      PROVE  c \in Linked(head)
  <2>1. /\ head \in Links(Conns) /\ queued \in Seq(Conns) /\ Represents(head, queued)
        /\ DOMAIN head.next = Conns \union {HEAD}
        BY DEF ServerInv, ServerType, QueueState, QueueIsConsistent, Links
  <2>2. PICK i \in DOMAIN queued : queued[i] = c
        BY DEF Queued
  <2>3. c \in Conns /\ c # NONE /\ queued # << >>
        BY <2>1, <2>2, ConnsAreNotSpecial
  <2>4. CASE i = 1
        BY <2>1, <2>2, <2>3, <2>4 DEF Represents, TAILQ_FIRST, Linked
  <2>5. CASE i # 1
    <3>1. i - 1 \in DOMAIN queued /\ i - 1 # Len(queued) /\ (i - 1) + 1 = i
          BY <2>1, <2>5
    <3>2. head.next[queued[i - 1]] = c /\ queued[i - 1] \in Conns
          BY <2>1, <2>2, <3>1 DEF Represents
    <3> QED BY <2>1, <2>3, <3>2 DEF Linked
  <2> QED BY <2>4, <2>5
<1>4. NothingLost
      BY <1>3 DEF ServerInv, Kept, NothingLost
<1> QED BY <1>1, <1>2, <1>4

-----------------------------------------------------------------------------
\* For every number of connections, and whatever fails or is interrupted,
\* ServerInv holds in every state.
THEOREM ServerInvariant == Spec => []ServerInv
BY InitServerInv, StepServerInv, PTL DEF Spec

\* No thread uses its client_queue entry or a descriptor after main has freed
\* or closed it.
THEOREM LiveEntriesTheorem == Spec => []ThreadsUseLiveEntries
BY ServerInvariant, ServerInvImplies, PTL

\* A thread that main joins under queue_lock never needs that lock.
THEOREM JoinTheorem == Spec => []JoinNeverWaitsForLock
BY ServerInvariant, ServerInvImplies, PTL

\* main returns only when every thread has gone: the count of
\* check_for_finished_client_threads is zero only for an empty queue.
THEOREM ExitTheorem == Spec => []ExitLeavesNoThread
BY ServerInvariant, PTL DEF ServerInv

\* The entry and the descriptors of a thread are within main's reach until
\* main has released them.
THEOREM NothingLostTheorem == Spec => []NothingLost
BY ServerInvariant, ServerInvImplies, PTL

\* The links of the queue are those of the entries inserted and not removed.
THEOREM QueueTheorem == Spec => []QueueIsConsistent
BY ServerInvariant, PTL DEF ServerInv, QueueState

-----------------------------------------------------------------------------
(***************************************************************************)
(* The counters.                                                           *)
(***************************************************************************)

ClientType ==
  /\ peer \in [Conns -> {"absent", "connected", "closed", "reset"}]
  /\ sends \in [Conns -> 0 .. MaxSends]
  /\ unread \in [Conns -> 0 .. MaxSends]
  /\ run_connections \in BOOLEAN

\* A thread reads no more than its client has sent.
ReadsWhatWasSent == \A c \in Conns : unread[c] <= sends[c]

\* Everything the scan has passed and not removed is counted: those entries
\* are the ones before e, which the removals leave in their places.
ScanCounts ==
  mainpc = "scan" =>
    /\ e = NONE => outstanding_cons = Len(queued)
    /\ \A i \in DOMAIN queued : queued[i] = e => outstanding_cons = i - 1

CountInv ==
  /\ ClientType
  /\ ReadsWhatWasSent
  /\ ScanCounts
  /\ outstanding_cons <= Cardinality(Conns)

\* A sequence without repetitions is no longer than the set of its elements.
LEMMA DistinctLength ==
  ASSUME NEW S, IsFiniteSet(S), NEW s \in Seq(S), Distinct(s)
  PROVE  Len(s) <= Cardinality(S)
<1>1. s \in Injection(1 .. Len(s), S)
      BY DEF Distinct, Injection, IsInjective
<1>2. Cardinality(1 .. Len(s)) <= Cardinality(S)
      BY <1>1, FS_Injection
<1>3. Cardinality(1 .. Len(s)) = Len(s)
  <2>1. Len(s) \in Nat /\ Len(s) \in Int /\ 1 \in Int
        OBVIOUS
  <2>2. Cardinality(1 .. Len(s)) = IF 1 > Len(s) THEN 0 ELSE Len(s) - 1 + 1
        BY <2>1, FS_Interval
  <2> QED BY <2>1, <2>2
<1> QED BY <1>2, <1>3

LEMMA QueueLength ==
  ASSUME IsFiniteSet(Conns), ServerInv
  PROVE  Len(queued) \in Nat /\ Len(queued) <= Cardinality(Conns)
BY DistinctLength DEF ServerInv, ServerType, QueueState

LEMMA InitCountInv == ASSUME IsFiniteSet(Conns), Init PROVE CountInv
<1>1. Cardinality(Conns) \in Nat
      BY FS_CardinalityType
<1>2. ClientType /\ ReadsWhatWasSent
      BY AesdSocketAssumption DEF Init, ClientType, ReadsWhatWasSent
<1> QED BY <1>1, <1>2 DEF Init, CountInv, ScanCounts

LEMMA ClientCounts ==
  ASSUME ClientType, ReadsWhatWasSent, [Next]_vars
  PROVE  (ClientType /\ ReadsWhatWasSent)'
<1> USE AesdSocketAssumption DEF ClientType, ReadsWhatWasSent
<1>1. CASE UNCHANGED << client, run_connections >>
      BY <1>1 DEF client
<1>2. ASSUME NEW c \in Conns, Connect(c) \/ Send(c) \/ Leave(c)
      PROVE  (ClientType /\ ReadsWhatWasSent)'
  <2>1. CASE Connect(c)
        BY <2>1 DEF Connect, shared
  <2>2. CASE Send(c)
        BY <2>2 DEF Send, shared
  <2>3. CASE Leave(c)
        BY <2>3 DEF Leave, shared
  <2> QED BY <1>2, <2>1, <2>2, <2>3
<1>3. ASSUME NEW c \in Conns, ReadData(c) \/ ReadError(c)
      PROVE  (ClientType /\ ReadsWhatWasSent)'
  <2>1. CASE ReadData(c)
        BY <2>1 DEF ReadData, shared
  <2>2. CASE ReadError(c)
        BY <2>2 DEF ReadError, shared
  <2> QED BY <1>3, <2>1, <2>2
<1>4. CASE sig_handler
      BY <1>4 DEF sig_handler, client
<1>5. CASE UNCHANGED vars
      BY <1>1, <1>5 DEF vars, shared
<1>6. CASE Main \/ MainLock
      BY <1>1, <1>6
      DEF Main, MainLock, Setup, LeaveLoop, AcceptNone, Accepted, CreateThread, ScanUnfinished,
          Reap, ScanDone, Accept, InsertTail, CheckLock, shared
<1>7. CASE Fault
      BY <1>1, <1>7 DEF Fault, AcceptFails, CreateFails, SigPipe, shared
<1>8. ASSUME NEW c \in Conns, Thread(c) \/ FinishLock(c)
      PROVE  UNCHANGED << client, run_connections >> \/ ReadData(c) \/ ReadError(c)
      BY <1>8 DEF Thread, ThreadStart, ReadEnd, Serve, FinishFlag, FinishUnlock, ThreadExit,
                  FinishLock, shared
<1> HIDE DEF ClientType, ReadsWhatWasSent
<1> QED BY <1>1, <1>2, <1>3, <1>4, <1>5, <1>6, <1>7, <1>8 DEF Next, Done, Client

\* The place of the entry after e, when e stays and when e is removed.
LEMMA NextPlace ==
  ASSUME ServerInv, NEW k \in DOMAIN queued, e = queued[k]
  PROVE  /\ TAILQ_NEXT(head, e) = NONE => k = Len(queued)
         /\ \A i \in DOMAIN queued : queued[i] = TAILQ_NEXT(head, e) => i = k + 1
<1>1. queued \in Seq(Conns) /\ Distinct(queued) /\ Represents(head, queued)
      BY DEF ServerInv, ServerType, QueueState, QueueIsConsistent
<1>2. TAILQ_NEXT(head, e) = IF k = Len(queued) THEN NONE ELSE queued[k + 1]
      BY <1>1 DEF Represents, TAILQ_NEXT
<1>3. k # Len(queued) => k + 1 \in DOMAIN queued
      BY <1>1
<1>4. \A i \in DOMAIN queued : queued[i] \in Conns /\ queued[i] # NONE
      BY <1>1, ConnsAreNotSpecial
<1> QED BY <1>1, <1>2, <1>3, <1>4 DEF Distinct

LEMMA ScanUnfinishedCounts ==
  ASSUME IsFiniteSet(Conns), ServerInv, CountInv, ScanUnfinished
  PROVE  ScanCounts' /\ outstanding_cons' <= Cardinality(Conns)
<1>1. /\ mainpc = "scan" /\ e \in Queued /\ outstanding_cons \in Nat
      /\ outstanding_cons' = outstanding_cons + 1
      /\ e' = TAILQ_NEXT(head, e) /\ queued' = queued /\ queued \in Seq(Conns)
      BY DEF ScanUnfinished, ServerInv, ServerType, ScanState, shared, queue
<1>2. PICK k \in DOMAIN queued : queued[k] = e
      BY <1>1 DEF Queued
<1>3. outstanding_cons = k - 1 /\ k \in 1 .. Len(queued)
      BY <1>1, <1>2 DEF CountInv, ScanCounts
<1>4. ScanCounts'
      BY <1>1, <1>2, <1>3, NextPlace DEF ScanCounts
<1>5. Cardinality(Conns) \in Nat
      BY FS_CardinalityType
<1> QED BY <1>1, <1>3, <1>4, <1>5, QueueLength

LEMMA ReapCounts ==
  ASSUME ServerInv, CountInv, Reap
  PROVE  ScanCounts'
<1>1. /\ mainpc = "scan" /\ e \in Queued /\ outstanding_cons \in Nat
      /\ outstanding_cons' = outstanding_cons /\ mainpc' = mainpc
      /\ e' = TAILQ_NEXT(head, e) /\ queued' = Without(queued, e)
      /\ queued \in Seq(Conns) /\ Distinct(queued)
      BY DEF Reap, RemoveAndFree, ServerInv, ServerType, ScanState, QueueState
<1>2. PICK k \in DOMAIN queued : queued[k] = e
      BY <1>1 DEF Queued
<1>3. outstanding_cons = k - 1 /\ k \in 1 .. Len(queued)
      BY <1>1, <1>2 DEF CountInv, ScanCounts
<1>4. queued' = [i \in 1 .. Len(queued) - 1 |-> queued[IF i < k THEN i ELSE i + 1]]
      BY <1>1, <1>2, WithoutElement
<1>5. queued' \in Seq(Conns) /\ Len(queued') = Len(queued) - 1
      BY <1>1, <1>2, <1>4
<1>6. e' = NONE => outstanding_cons' = Len(queued')
      BY <1>1, <1>2, <1>3, <1>5, NextPlace
<1>7. ASSUME NEW i \in DOMAIN queued', queued'[i] = e'
      PROVE  outstanding_cons' = i - 1
  <2>1. i \in 1 .. Len(queued) - 1
        BY <1>4
  <2>2. CASE i < k
        BY <1>1, <1>2, <1>3, <1>4, <1>7, <2>1, <2>2, NextPlace
  <2>3. CASE ~(i < k)
    <3>1. queued[i + 1] = e' /\ i + 1 \in DOMAIN queued
          BY <1>1, <1>3, <1>4, <1>7, <2>1, <2>3
    <3>2. i + 1 = k + 1
          BY <1>1, <1>2, <3>1, NextPlace
    <3> QED BY <1>1, <1>3, <2>1, <3>2
  <2> QED BY <2>2, <2>3
<1> QED BY <1>6, <1>7 DEF ScanCounts

LEMMA StepCountInv ==
  ASSUME IsFiniteSet(Conns), ServerInv, CountInv, [Next]_vars
  PROVE  CountInv'
<1>1. (ClientType /\ ReadsWhatWasSent)'
      BY ClientCounts DEF CountInv
<1>2. Cardinality(Conns) \in Nat
      BY FS_CardinalityType
<1>3. (ScanCounts /\ outstanding_cons <= Cardinality(Conns))'
  <2> USE DEF CountInv, ScanCounts
  <2>1. CASE UNCHANGED << mainpc, queued, e, outstanding_cons >>
        BY <2>1
  <2>2. CASE mainpc' # "scan" /\ outstanding_cons' = outstanding_cons
        BY <2>2
  <2>3. CASE ScanUnfinished
        BY <2>3, ScanUnfinishedCounts
  <2>4. CASE Reap
    <3>1. outstanding_cons' = outstanding_cons
          BY <2>4 DEF Reap
    <3> QED BY <2>4, <3>1, ReapCounts
  <2>5. CASE CheckLock
    <3>1. /\ queued \in Seq(Conns) /\ Distinct(queued) /\ Represents(head, queued)
          /\ e' = TAILQ_FIRST(head) /\ outstanding_cons' = 0 /\ queued' = queued
          BY <2>5 DEF CheckLock, queue, ServerInv, ServerType, QueueState, QueueIsConsistent
    <3>2. e' = IF queued = << >> THEN NONE ELSE queued[1]
          BY <3>1 DEF Represents
    <3>3. \A i \in DOMAIN queued : queued[i] \in Conns /\ queued[i] # NONE
          BY <3>1, ConnsAreNotSpecial
    <3>4. queued # << >> => 1 \in DOMAIN queued
          BY <3>1
    <3>5. e' = NONE => Len(queued) = 0
          BY <3>1, <3>2, <3>3, <3>4
    <3>6. \A i \in DOMAIN queued : queued[i] = e' => i = 1
          BY <3>1, <3>2, <3>3, <3>4 DEF Distinct
    <3> QED BY <1>2, <3>1, <3>5, <3>6
  <2>6. CASE UNCHANGED vars
        BY <2>1, <2>6 DEF vars, main, shared, queue
  <2>7. CASE Setup \/ LeaveLoop \/ AcceptNone \/ AcceptFails \/ Accepted \/ CreateThread
               \/ CreateFails \/ InsertTail \/ ScanDone
        BY <2>2, <2>7 DEF Setup, LeaveLoop, AcceptNone, AcceptFails, Accepted, CreateThread,
                          CreateFails, InsertTail, ScanDone, Goto
  <2>8. ASSUME NEW c \in Conns, Accept(c) \/ SigPipe(c)
        PROVE  mainpc' # "scan" /\ outstanding_cons' = outstanding_cons
        BY <2>8 DEF Accept, SigPipe, Goto
  <2>9. CASE sig_handler
    <3>1. mainpc' = "scan" => mainpc = "scan"
          BY <2>9 DEF sig_handler, Goto
    <3> QED BY <2>9, <3>1 DEF sig_handler, queue
  <2>10. ASSUME NEW c \in Conns, Client(c) \/ Thread(c) \/ FinishLock(c)
         PROVE  UNCHANGED << mainpc, queued, e, outstanding_cons >>
         BY <2>10 DEF Client, Connect, Send, Leave, Thread, ThreadStart, ReadData, ReadError,
                      ReadEnd, Serve, FinishFlag, FinishUnlock, ThreadExit, FinishLock, main,
                      shared, queue
  <2> HIDE DEF CountInv, ScanCounts
  <2> QED BY <2>1, <2>2, <2>3, <2>4, <2>5, <2>6, <2>7, <2>8, <2>9, <2>10
          DEF Next, Done, Main, MainLock, Fault
<1> QED BY <1>1, <1>3 DEF CountInv

\* For finitely many connections, however many: the counters stay in range.
\* What check_for_finished_client_threads returns is never more than the
\* number of connections, because a scan counts every entry once.
THEOREM ServerTypes ==
  ASSUME IsFiniteSet(Conns)
  PROVE  Spec => []TypeOK
<1>1. Init => CountInv
      BY InitCountInv
<1>2. ServerInv /\ CountInv /\ [Next]_vars => CountInv'
      BY StepCountInv
<1>3. ServerInv /\ CountInv => TypeOK
  <2> SUFFICES ASSUME ServerInv, CountInv
               PROVE  TypeOK
      OBVIOUS
  <2>1. Cardinality(Conns) \in Nat /\ Len(queued) <= Cardinality(Conns)
        BY QueueLength, FS_CardinalityType
  <2>2. outstanding_cons \in 0 .. Cardinality(Conns)
        BY <2>1 DEF ServerInv, ServerType, CountInv
  <2> QED BY <2>1, <2>2 DEF ServerInv, ServerType, CountInv, ClientType, TypeOK, Links
<1> QED BY <1>1, <1>2, <1>3, ServerInvariant, PTL DEF Spec

=============================================================================

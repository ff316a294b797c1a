----------------------------- MODULE Threading ------------------------------
(***************************************************************************)
(* threading.c: start_thread_obtaining_mutex starts threads that sleep,    *)
(* obtain a mutex they share, hold it for a while and release it.  Each    *)
(* gets a malloc'ed struct thread_data, which it returns when it ends and  *)
(* which whoever joins it frees.                                           *)
(*                                                                         *)
(* External: malloc, usleep and pthreads, any call of which may fail, the  *)
(* unlock too, and the joiner, of which threading.h speaks.                *)
(***************************************************************************)
EXTENDS FiniteSets

CONSTANTS
  Threads,  \* one for each call of start_thread_obtaining_mutex
  NONE      \* no thread

ASSUME ThreadingAssumption == IsFiniteSet(Threads) /\ NONE \notin Threads

VARIABLES
  mutex,                    \* the thread that holds it
  allocated,                \* the threads whose thread_data is allocated
  started,                  \* what start_thread_obtaining_mutex returned
  thread,                   \* where each thread is
  thread_complete_success,  \* the field of its thread_data
  held,                     \* history: the threads that held the mutex in full
  kept                      \* history: the threads whose unlock failed

vars == << mutex, allocated, started, thread, thread_complete_success, held, kept >>

Init ==
  /\ mutex = NONE
  /\ allocated = {}
  /\ started = [t \in Threads |-> "none"]
  /\ thread = [t \in Threads |-> "none"]
  /\ thread_complete_success = [t \in Threads |-> FALSE]
  /\ held = {}
  /\ kept = {}

Goto(t, p) == thread' = [thread EXCEPT ![t] = p]

-----------------------------------------------------------------------------
(***************************************************************************)
(* start_thread_obtaining_mutex.                                           *)
(***************************************************************************)
Start(t) ==
  /\ started[t] = "none"
  /\ started' = [started EXCEPT ![t] = "true"]
  /\ allocated' = allocated \union {t}
  /\ Goto(t, "start")
  /\ UNCHANGED << mutex, thread_complete_success, held, kept >>

StartFails_KeepsParms(t) ==
  /\ started[t] = "none"
  /\ started' = [started EXCEPT ![t] = "false"]
  /\ allocated' = allocated \union {t}
  /\ UNCHANGED << mutex, thread, thread_complete_success, held, kept >>

\* malloc fails, or pthread_create does and thread_parms is freed again.
StartFails(t) ==
  /\ started[t] = "none"
  /\ started' = [started EXCEPT ![t] = "false"]
  /\ UNCHANGED << mutex, allocated, thread, thread_complete_success, held, kept >>

-----------------------------------------------------------------------------
(***************************************************************************)
(* threadfunc.                                                             *)
(***************************************************************************)

\* pthread_mutex_unlock returns 0, or an error and the mutex stays locked.
Release == mutex' = NONE /\ UNCHANGED kept

ReleaseFails(t) == kept' = kept \union {t} /\ UNCHANGED mutex

\* An error: the flag is cleared and the thread returns.
Fail(t) ==
  /\ thread_complete_success' = [thread_complete_success EXCEPT ![t] = FALSE]
  /\ Goto(t, "ended")

ThreadStart(t) ==
  /\ thread[t] = "start"
  /\ thread_complete_success' = [thread_complete_success EXCEPT ![t] = TRUE]
  /\ Goto(t, "sleep")
  /\ UNCHANGED << mutex, allocated, started, held, kept >>

SleepBefore_Retries(t) ==
  /\ thread[t] = "sleep"
  /\ \E p \in {"start", "lock"} : Goto(t, p)
  /\ UNCHANGED << mutex, allocated, started, thread_complete_success, held, kept >>

SleepBefore(t) ==
  /\ thread[t] = "sleep"
  /\ \/ Goto(t, "lock") /\ UNCHANGED thread_complete_success
     \/ Fail(t)
  /\ UNCHANGED << mutex, allocated, started, held, kept >>

Lock(t) ==
  /\ thread[t] = "lock"
  /\ mutex = NONE
  /\ mutex' = t
  /\ Goto(t, "hold")
  /\ UNCHANGED << allocated, started, thread_complete_success, held, kept >>

LockFails(t) ==
  /\ thread[t] = "lock"
  /\ Fail(t)
  /\ UNCHANGED << mutex, allocated, started, held, kept >>

HoldFails_KeepsMutex(t) ==
  /\ thread[t] = "hold"
  /\ Fail(t)
  /\ UNCHANGED << mutex, allocated, started, held, kept >>

\* usleep fails while the mutex is held: the mutex is released, and what the
\* unlock returns is ignored.
HoldFails(t) ==
  /\ thread[t] = "hold"
  /\ Release \/ ReleaseFails(t)
  /\ Fail(t)
  /\ UNCHANGED << allocated, started, held >>

\* usleep returns, and the mutex is released.
Unlock(t) ==
  /\ thread[t] = "hold"
  /\ held' = held \union {t}
  /\ Release
  /\ Goto(t, "ended")
  /\ UNCHANGED << allocated, started, thread_complete_success >>

UnlockFails_NotReported(t) ==
  /\ thread[t] = "hold"
  /\ ReleaseFails(t)
  /\ Goto(t, "ended")
  /\ UNCHANGED << allocated, started, thread_complete_success, held >>

\* usleep returns, and the unlock fails.
UnlockFails(t) ==
  /\ thread[t] = "hold"
  /\ ReleaseFails(t)
  /\ Fail(t)
  /\ UNCHANGED << allocated, started, held >>

-----------------------------------------------------------------------------
\* The joiner frees the thread_data that the thread has returned.
Join(t) ==
  /\ thread[t] = "ended"
  /\ allocated' = allocated \ {t}
  /\ Goto(t, "joined")
  /\ UNCHANGED << mutex, started, thread_complete_success, held, kept >>

Step(t) ==
  \/ ThreadStart(t) \/ SleepBefore(t) \/ LockFails(t)
  \/ HoldFails(t) \/ Unlock(t) \/ UnlockFails(t)

\* Every thread that was started has been joined.
Done ==
  /\ \A t \in Threads : started[t] = "false" \/ thread[t] = "joined"
  /\ UNCHANGED vars

Next ==
  \/ Done
  \/ \E t \in Threads : Start(t) \/ StartFails(t) \/ Step(t) \/ Lock(t) \/ Join(t)

Spec == Init /\ [][Next]_vars

\* Every thread that can run does, and gets the mutex if it keeps becoming
\* free.  No call is assumed to fail, and none to succeed.
FairSpec ==
  /\ Spec
  /\ \A t \in Threads : /\ WF_vars(ThreadStart(t) \/ SleepBefore(t))
                        /\ WF_vars(HoldFails(t) \/ Unlock(t) \/ UnlockFails(t))
                        /\ SF_vars(Lock(t))

-----------------------------------------------------------------------------
\* A thread between lock and unlock has the mutex to itself, also after the
\* unlock of another one failed, and a thread that has ended still has it only
\* if pthread_mutex_unlock itself failed: every other path gives it back.
MutexIsHeldByOne ==
  /\ mutex \in Threads \union {NONE}
  /\ \A t \in Threads : /\ thread[t] = "hold" => mutex = t
                        /\ mutex = t => thread[t] = "hold" \/ t \in kept

\* What the joiner finds in thread_complete_success: true if and only if the
\* thread obtained the mutex, held it and released it: not when the unlock, the
\* last of the calls, failed.
SuccessIsTruthful ==
  \A t \in Threads :
    thread[t] \in {"ended", "joined"} => (thread_complete_success[t] <=> t \in held)

\* thread_data is there for as long as the thread and its joiner use it, and
\* for no longer: not when the thread could not be started.
ParmsHaveOneOwner ==
  allocated = {t \in Threads : thread[t] \notin {"none", "joined"}}

\* Every thread that was started ends, whatever the others do: the mutex goes
\* round.  Only a failed unlock can leave a thread waiting, at its lock.
ThreadsEnd ==
  \A t \in Threads :
    started[t] = "true" ~> \/ thread[t] \in {"ended", "joined"}
                           \/ thread[t] = "lock" /\ kept # {}

=============================================================================

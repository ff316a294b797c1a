-------------------------- MODULE ThreadingProofs ---------------------------
(***************************************************************************)
(* The invariants of Threading, for every number of threads.               *)
(***************************************************************************)
EXTENDS Threading, TLAPS

ThreadPCs == {"none", "start", "sleep", "lock", "hold", "ended", "joined"}

ThreadingType ==
  /\ mutex \in Threads \union {NONE}
  /\ allocated \subseteq Threads
  /\ started \in [Threads -> {"none", "true", "false"}]
  /\ thread \in [Threads -> ThreadPCs]
  /\ thread_complete_success \in [Threads -> BOOLEAN]

\* The flag a thread has set stands until it fails, and a thread that has not
\* ended is not in the history yet.
FlagFollowsThread ==
  \A t \in Threads :
    /\ thread[t] \in {"sleep", "lock", "hold"} => thread_complete_success[t]
    /\ thread[t] \notin {"ended", "joined"} => t \notin held

\* Only what has been started is anywhere.
CalledOnce == \A t \in Threads : started[t] # "true" => thread[t] = "none"

ThreadingInv ==
  /\ ThreadingType
  /\ MutexIsHeldByOne
  /\ SuccessIsTruthful
  /\ ParmsHaveOneOwner
  /\ FlagFollowsThread
  /\ CalledOnce

-----------------------------------------------------------------------------
LEMMA InitThreadingInv == Init => ThreadingInv
BY ThreadingAssumption
DEF Init, ThreadingInv, ThreadingType, ThreadPCs, MutexIsHeldByOne, SuccessIsTruthful,
    ParmsHaveOneOwner, FlagFollowsThread, CalledOnce

LEMMA StepThreadingInv == ThreadingInv /\ [Next]_vars => ThreadingInv'
<1> SUFFICES ASSUME ThreadingInv, [Next]_vars
             PROVE  ThreadingInv'
    OBVIOUS
<1> USE ThreadingAssumption
    DEF ThreadingInv, ThreadingType, ThreadPCs, MutexIsHeldByOne, SuccessIsTruthful,
        ParmsHaveOneOwner, FlagFollowsThread, CalledOnce, Goto, Fail,
        Release, ReleaseFails
<1>1. ASSUME NEW t \in Threads, Start(t)
      PROVE  ThreadingInv'
      BY <1>1 DEF Start
<1>2. ASSUME NEW t \in Threads, StartFails(t)
      PROVE  ThreadingInv'
      BY <1>2 DEF StartFails
<1>3. ASSUME NEW t \in Threads, ThreadStart(t)
      PROVE  ThreadingInv'
      BY <1>3 DEF ThreadStart
<1>4. ASSUME NEW t \in Threads, SleepBefore(t)
      PROVE  ThreadingInv'
  <2>1. CASE Goto(t, "lock") /\ UNCHANGED thread_complete_success
        BY <1>4, <2>1 DEF SleepBefore
  <2>2. CASE Fail(t)
        BY <1>4, <2>2 DEF SleepBefore
  <2> QED BY <1>4, <2>1, <2>2 DEF SleepBefore
<1>5. ASSUME NEW t \in Threads, Lock(t)
      PROVE  ThreadingInv'
      BY <1>5 DEF Lock
<1>6. ASSUME NEW t \in Threads, LockFails(t)
      PROVE  ThreadingInv'
      BY <1>6 DEF LockFails
<1>7. ASSUME NEW t \in Threads, HoldFails(t)
      PROVE  ThreadingInv'
  <2>1. CASE Release
        BY <1>7, <2>1 DEF HoldFails
  <2>2. CASE ReleaseFails(t)
        BY <1>7, <2>2 DEF HoldFails
  <2> QED BY <1>7, <2>1, <2>2 DEF HoldFails
<1>8. ASSUME NEW t \in Threads, Unlock(t)
      PROVE  ThreadingInv'
      BY <1>8 DEF Unlock
<1>9. ASSUME NEW t \in Threads, Join(t)
      PROVE  ThreadingInv'
      BY <1>9 DEF Join
<1>10. ASSUME NEW t \in Threads, UnlockFails(t)
      PROVE  ThreadingInv'
      BY <1>10 DEF UnlockFails
<1>11. CASE UNCHANGED vars
      BY <1>11 DEF vars
<1>12. CASE Done
      BY <1>11, <1>12 DEF Done
<1> QED BY <1>1, <1>2, <1>3, <1>4, <1>5, <1>6, <1>7, <1>8, <1>9, <1>10, <1>11, <1>12
        DEF Next, Step

\* However many threads share the mutex and whichever calls of threadfunc
\* fail, ThreadingInv holds in every state.
THEOREM ThreadingInvariant == Spec => []ThreadingInv
BY InitThreadingInv, StepThreadingInv, PTL DEF Spec

\* A thread between lock and unlock of threadfunc has the mutex to itself, and
\* one that has ended still has it only if its pthread_mutex_unlock failed.
THEOREM MutexTheorem == Spec => []MutexIsHeldByOne
BY ThreadingInvariant, PTL DEF ThreadingInv

\* thread_complete_success says whether the thread obtained, held and released
\* the mutex.
THEOREM SuccessTheorem == Spec => []SuccessIsTruthful
BY ThreadingInvariant, PTL DEF ThreadingInv

\* thread_data is allocated exactly as long as its thread and its joiner use it.
THEOREM ParmsTheorem == Spec => []ParmsHaveOneOwner
BY ThreadingInvariant, PTL DEF ThreadingInv

=============================================================================

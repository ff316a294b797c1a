------------------------- MODULE SystemcallsProofs --------------------------
(***************************************************************************)
(* The invariants of Systemcalls, for every number of calls.               *)
(***************************************************************************)
EXTENDS Systemcalls, TLAPS

\* What the caller's place says of the call under way and of those to come.
CallState ==
  /\ pc # "idle" => calls \in Calls /\ result[calls] = "none"
  /\ pc \in {"system", "open", "fork"} => child[calls].pc = "none"
  /\ pc = "waitpid" => child[calls].pc \notin {"none", "reaped"}
  /\ pc = "open" => fn[calls] = "do_exec_redirect"
  /\ \A i \in Calls : i > calls => result[i] = "none" /\ child[i].pc = "none" /\ i \notin fds
  /\ \A i \in Calls : (i < calls \/ pc = "idle") /\ child[i].pc # "none" => result[i] # "none"

\* Only do_exec_redirect opens a file.
FilesOfRedirects == \A i \in fds : fn[i] = "do_exec_redirect"

\* What a child has done on its way.
OnItsWay(i) ==
  /\ child[i].pc = "none" => child[i] = NoChild
  /\ child[i].pc = "dup2" => fn[i] = "do_exec_redirect" /\ child[i].stdout = "inherited"
  /\ child[i].pc \in {"execv", "running"} =>
       /\ i \notin child[i].fds
       /\ child[i].stdout = "file" <=> fn[i] = "do_exec_redirect"
  /\ child[i].pc = "running" => child[i].ran
  /\ child[i].pc \in {"ended", "reaped"} /\ child[i].status = 0 => child[i].ran
  /\ child[i].pc = "reaped" => result[i] # "none"

ChildState == \A i \in Calls : OnItsWay(i)

ChildRecord ==
  [pc : {"none", "dup2", "execv", "running", "ended", "reaped"},
   stdout : {"inherited", "file"}, fds : SUBSET Calls,
   ran : BOOLEAN, status : 0 .. ExitMinusOne]

CallsInv ==
  /\ TypeOK
  /\ ResultIsTruthful
  /\ FileIsClosed
  /\ CallState
  /\ FilesOfRedirects
  /\ ChildState

-----------------------------------------------------------------------------
LEMMA InitCallsInv == Init => CallsInv
BY SystemcallsAssumption
DEF Init, CallsInv, TypeOK, ResultIsTruthful, FileIsClosed, CallState, FilesOfRedirects,
    ChildState, OnItsWay, NoChild, Calls, ExitMinusOne, Exited

LEMMA StatusesAreSmall == Statuses \subseteq 0 .. ExitMinusOne
<1>1. \A code \in 0 .. 255 : Exited(code) \in 0 .. ExitMinusOne
      BY DEF Exited, ExitMinusOne
<1>2. \A sig \in 1 .. 126 : sig \in 0 .. ExitMinusOne
      BY DEF Exited, ExitMinusOne
<1> SUFFICES ASSUME NEW st \in Statuses
             PROVE  st \in 0 .. ExitMinusOne
    OBVIOUS
<1>3. CASE st \in Signals
      BY <1>2, <1>3, SystemcallsAssumption
<1>4. CASE \E code \in Codes : st = Exited(code)
      BY <1>1, <1>4, SystemcallsAssumption
<1> QED BY <1>3, <1>4 DEF Statuses

LEMMA ForkStep ==
  ASSUME CallsInv, Fork
  PROVE  CallsInv'
<1> DEFINE p == IF fn[calls] = "do_exec_redirect" THEN "dup2" ELSE "execv"
           ch1 == child'[calls]
<1>1. /\ calls \in Calls /\ pc = "fork" /\ pc' = "waitpid"
      /\ child[calls] = NoChild /\ result[calls] = "none"
      /\ UNCHANGED << calls, fn, result, fds >>
      BY DEF Fork, CallsInv, CallState, ChildState, OnItsWay
<1>2. child \in [Calls -> ChildRecord] /\ fds \in SUBSET Calls /\ calls \in Nat /\ Calls \subseteq Nat
      BY SystemcallsAssumption DEF CallsInv, TypeOK, ChildRecord, Calls
<1>3. child' = [child EXCEPT ![calls] = [child[calls] EXCEPT !.pc = p, !.fds = fds]]
      BY DEF Fork
<1>4. ch1 = [NoChild EXCEPT !.pc = p, !.fds = fds] /\ \A j \in Calls : j # calls => child'[j] = child[j]
      BY <1>1, <1>2, <1>3
<1>5. /\ ch1.pc = p /\ ch1.fds = fds /\ ch1.stdout = "inherited"
      BY <1>4 DEF NoChild
<1>6. ch1 \in ChildRecord
  <2>1. ch1 = [pc |-> p, stdout |-> "inherited", fds |-> fds, ran |-> FALSE, status |-> 0]
        BY <1>4 DEF NoChild
  <2>2. 0 \in 0 .. ExitMinusOne
        BY DEF ExitMinusOne, Exited
  <2> QED BY <1>2, <2>1, <2>2 DEF ChildRecord
<1>7. child' \in [Calls -> ChildRecord]
      BY <1>1, <1>2, <1>3, <1>6
<1> HIDE DEF ch1
<1>8. TypeOK'
      BY <1>1, <1>7 DEF CallsInv, TypeOK, ChildRecord
<1>9. (ResultIsTruthful /\ FileIsClosed)'
      BY <1>1, <1>4 DEF CallsInv, ResultIsTruthful, FileIsClosed, CallState, ch1
<1>10. (CallState /\ FilesOfRedirects)'
      BY <1>1, <1>2, <1>4, <1>5 DEF CallsInv, CallState, FilesOfRedirects, ch1
<1>11. ChildState'
  <2>1. ch1.pc \in {"dup2", "execv"} /\ (ch1.pc = "dup2" <=> fn[calls] = "do_exec_redirect")
        BY <1>5
  <2>2. fn[calls] # "do_exec_redirect" => calls \notin fds
        BY DEF CallsInv, FilesOfRedirects
  <2> HIDE DEF p
  <2>3. \A j \in Calls : j # calls => OnItsWay(j)'
        BY <1>1, <1>4 DEF CallsInv, ChildState, OnItsWay
  <2>4. OnItsWay(calls)'
        BY <1>1, <1>5, <2>1, <2>2 DEF ch1, OnItsWay
  <2> QED BY <1>1, <2>3, <2>4 DEF ChildState
<1> QED BY <1>8, <1>9, <1>10, <1>11 DEF CallsInv

LEMMA CallerSteps ==
  ASSUME CallsInv, Caller \/ WaitpidFails \/ \E f \in {"do_system", "do_exec", "do_exec_redirect"} : Call(f)
  PROVE  CallsInv'
<1> USE SystemcallsAssumption
    DEF CallsInv, TypeOK, ResultIsTruthful, FileIsClosed, CallState, FilesOfRedirects,
        ChildState, OnItsWay, NoChild, Calls, Return
<1>1. ASSUME NEW f \in {"do_system", "do_exec", "do_exec_redirect"}, Call(f)
      PROVE  CallsInv'
      BY <1>1 DEF Call
<1>2. CASE System
      BY <1>2 DEF System
<1>3. CASE Open
  <2>1. CASE fds' = fds \union {calls} /\ pc' = "fork" /\ UNCHANGED result
        BY <1>3, <2>1 DEF Open
  <2>2. CASE Return(TRUE) /\ UNCHANGED fds
        BY <1>3, <2>2 DEF Open
  <2> QED BY <1>3, <2>1, <2>2 DEF Open
<1>4. CASE Fork
      BY <1>4, ForkStep
<1>5. CASE ForkFails
      BY <1>5 DEF ForkFails
<1>6. CASE Waitpid
      BY <1>6 DEF Waitpid
<1>7. CASE WaitpidFails
      BY <1>7 DEF WaitpidFails
<1> HIDE DEF CallsInv
<1> QED BY <1>1, <1>2, <1>3, <1>4, <1>5, <1>6, <1>7 DEF Caller

\* A step of a child changes its own record.
LEMMA ChildSteps ==
  ASSUME CallsInv, NEW i \in Calls, Child(i)
  PROVE  CallsInv'
<1> DEFINE ch == child[i]
           ch1 == child'[i]
<1>1. /\ UNCHANGED << calls, pc, fn, result, fds >>
      /\ child' = [child EXCEPT ![i] = child'[i]]
      BY DEF Child, Dup2, Execv, CommandEnds, Ends, CallsInv, TypeOK
<1>2. /\ child \in [Calls -> ChildRecord] /\ ch \in ChildRecord
      /\ \A j \in Calls : j # i => child'[j] = child[j]
      BY <1>1 DEF CallsInv, TypeOK, ChildRecord
<1>3. ExitMinusOne \in 0 .. ExitMinusOne /\ ExitMinusOne # 0
      BY DEF ExitMinusOne, Exited
<1>4. \/ /\ ch.pc = "dup2"
         /\ ch1 = [ch EXCEPT !.pc = "execv", !.stdout = "file", !.fds = @ \ {i}]
      \/ /\ ch.pc \in {"dup2", "execv"}
         /\ ch1 = [ch EXCEPT !.pc = "ended", !.fds = {}, !.status = ExitMinusOne]
      \/ /\ ch.pc = "execv"
         /\ ch1 = [ch EXCEPT !.pc = "running", !.ran = TRUE]
      \/ /\ ch.pc = "running"
         /\ \E status \in 0 .. ExitMinusOne :
              ch1 = [ch EXCEPT !.pc = "ended", !.fds = {}, !.status = status]
  <2>1. CASE Dup2(i)
        BY <1>2, <2>1 DEF Dup2, Ends, ChildRecord
  <2>2. CASE Execv(i)
        BY <1>2, <2>2 DEF Execv, Ends, ChildRecord
  <2>3. CASE CommandEnds(i)
        BY <1>2, <2>3, StatusesAreSmall DEF CommandEnds, Ends, ChildRecord
  <2> QED BY <2>1, <2>2, <2>3 DEF Child
<1> HIDE DEF ch1
<1>5. /\ ch1 \in ChildRecord
      /\ ch.pc \in {"dup2", "execv", "running"}
      /\ ch1.pc \in {"execv", "running", "ended"}
  <2> HIDE DEF ch
  <2>1. CASE ch1 = [ch EXCEPT !.pc = "execv", !.stdout = "file", !.fds = @ \ {i}]
        BY <1>2, <1>4, <2>1 DEF ChildRecord
  <2>2. CASE ch1 = [ch EXCEPT !.pc = "running", !.ran = TRUE]
        BY <1>2, <1>4, <2>2 DEF ChildRecord
  <2>3. ASSUME NEW status \in 0 .. ExitMinusOne,
               ch1 = [ch EXCEPT !.pc = "ended", !.fds = {}, !.status = status]
        PROVE  ch1 \in ChildRecord /\ ch1.pc = "ended"
        BY <1>2, <2>3 DEF ChildRecord
  <2> QED BY <1>3, <1>4, <2>1, <2>2, <2>3
<1>6. /\ ch1.pc = "execv" => ch.pc = "dup2" /\ ch1.stdout = "file" /\ ch1.fds = ch.fds \ {i}
      /\ ch1.pc = "running"
           => ch.pc = "execv" /\ ch1.stdout = ch.stdout /\ ch1.fds = ch.fds /\ ch1.ran
      /\ ch1.pc = "ended" /\ ch1.status = 0 => ch.pc = "running" /\ ch1.ran = ch.ran
      BY <1>2, <1>3, <1>4 DEF ChildRecord
<1>7. TypeOK'
      BY <1>1, <1>2, <1>5 DEF CallsInv, TypeOK, ChildRecord, ch1
<1>8. (ResultIsTruthful /\ FileIsClosed)'
      BY <1>1, <1>2, <1>5 DEF CallsInv, ResultIsTruthful, FileIsClosed, CallState, ch1
<1>9. (CallState /\ FilesOfRedirects)'
      BY <1>1, <1>2, <1>5 DEF CallsInv, TypeOK, CallState, FilesOfRedirects, ch1
<1>10. ChildState'
      BY <1>1, <1>2, <1>5, <1>6 DEF CallsInv, ChildState, OnItsWay, ch1
<1> QED BY <1>7, <1>8, <1>9, <1>10 DEF CallsInv

LEMMA StepCallsInv == CallsInv /\ [Next]_vars => CallsInv'
<1> SUFFICES ASSUME CallsInv, [Next]_vars
             PROVE  CallsInv'
    OBVIOUS
<1>1. CASE UNCHANGED vars
      BY <1>1 DEF vars, CallsInv, TypeOK, ResultIsTruthful, FileIsClosed, CallState,
         FilesOfRedirects, ChildState, OnItsWay
<1>2. CASE Done
      BY <1>1, <1>2 DEF Done
<1>3. CASE Caller \/ WaitpidFails
      BY <1>3, CallerSteps
<1>4. CASE \E f \in {"do_system", "do_exec", "do_exec_redirect"} : Call(f)
      BY <1>4, CallerSteps
<1>5. CASE \E i \in Calls : Child(i)
      BY <1>5, ChildSteps
<1> QED BY <1>1, <1>2, <1>3, <1>4, <1>5 DEF Next

-----------------------------------------------------------------------------
\* For every number of calls and all outcomes of the system calls, CallsInv
\* holds in every state.
THEOREM CallsInvariant == Spec => []CallsInv
BY InitCallsInv, StepCallsInv, PTL DEF Spec

\* A child never leaves its branch of do_exec or do_exec_redirect.
THEOREM TypeTheorem == Spec => []TypeOK
BY CallsInvariant, PTL DEF CallsInv

\* do_exec and do_exec_redirect, once they have forked, return true exactly
\* for a command that was executed and has succeeded.
THEOREM ResultTheorem == Spec => []ResultIsTruthful
BY CallsInvariant, PTL DEF CallsInv

\* The command of do_exec_redirect has the file as its output and in no other
\* descriptor.
THEOREM OneFileTheorem == Spec => []CommandSeesOneFile
<1>1. CallsInv => CommandSeesOneFile
      BY DEF CallsInv, ChildState, OnItsWay, CommandSeesOneFile
<1> QED BY <1>1, CallsInvariant, PTL

\* A call that has forked has closed its file when it returns.
THEOREM FileTheorem == Spec => []FileIsClosed
BY CallsInvariant, PTL DEF CallsInv

=============================================================================

---------------------------- MODULE Systemcalls -----------------------------
(***************************************************************************)
(* systemcalls.c: a caller runs commands with do_system, do_exec and       *)
(* do_exec_redirect.  The last two fork: the caller waits in waitpid while *)
(* the child redirects its output, executes the command, and ends.  A      *)
(* child whose waitpid was interrupted runs on beside later calls.         *)
(*                                                                         *)
(* External: the system calls, the shell, and the commands, which end with *)
(* some exit code or by a signal.  The arguments of a command are left     *)
(* out: the functions only collect them.                                   *)
(***************************************************************************)
EXTENDS Naturals, FiniteSets

CONSTANTS
  MaxCalls,   \* how many calls are made (bounds the model)
  Codes,      \* the exit codes of the commands
  Signals     \* the signals that may end a command

ASSUME SystemcallsAssumption ==
  /\ MaxCalls \in Nat
  /\ Codes \subseteq 0 .. 255 /\ Signals \subseteq 1 .. 126

VARIABLES
  calls,    \* how many calls have been made; the last is under way or was
  pc,       \* where the caller is
  fn,       \* the function of each call
  result,   \* what each call returned
  fds,      \* the calls whose output file is open in the caller
  child     \* the child process of each call

vars == << calls, pc, fn, result, fds, child >>

Calls == 1 .. MaxCalls

NoChild == [pc |-> "none", stdout |-> "inherited", fds |-> {}, ran |-> FALSE, status |-> 0]

Init ==
  /\ calls = 0
  /\ pc = "idle"
  /\ fn = [i \in Calls |-> "none"]
  /\ result = [i \in Calls |-> "none"]
  /\ fds = {}
  /\ child = [i \in Calls |-> NoChild]

\* The status that waitpid and system report: the exit code in the second
\* byte, or the signal in the first.
Exited(code) == 256 * code
Statuses == {Exited(code) : code \in Codes} \union Signals

\* exit(-1)
ExitMinusOne == Exited(255)

Return(b) ==
  /\ result' = [result EXCEPT ![calls] = IF b THEN "true" ELSE "false"]
  /\ pc' = "idle"

-----------------------------------------------------------------------------
(***************************************************************************)
(* The caller.                                                             *)
(***************************************************************************)
Call(f) ==
  /\ pc = "idle" /\ calls < MaxCalls
  /\ calls' = calls + 1
  /\ fn' = [fn EXCEPT ![calls + 1] = f]
  /\ pc' = CASE f = "do_system" -> "system"
             [] f = "do_exec" -> "fork"
             [] f = "do_exec_redirect" -> "open"
  /\ UNCHANGED << result, fds, child >>

\* system runs the command in a child of its own and waits for it; it
\* returns the status, or fails.
System ==
  /\ pc = "system"
  /\ \/ Return(FALSE)
     \/ \E rc \in Statuses : Return(rc # 127)
  /\ UNCHANGED << calls, fn, fds, child >>

\* When the file cannot be opened, "return -1" is a true bool.
Open ==
  /\ pc = "open"
  /\ \/ /\ fds' = fds \union {calls}
        /\ pc' = "fork"
        /\ UNCHANGED result
     \/ /\ Return(TRUE)
        /\ UNCHANGED fds
  /\ UNCHANGED << calls, fn, child >>

\* The child inherits the open files.
Fork ==
  /\ pc = "fork"
  /\ child' = [child EXCEPT ![calls] =
                 [@ EXCEPT !.pc = IF fn[calls] = "do_exec_redirect" THEN "dup2" ELSE "execv",
                           !.fds = fds]]
  /\ pc' = "waitpid"
  /\ UNCHANGED << calls, fn, result, fds >>

ForkFails ==
  /\ pc = "fork"
  /\ Return(FALSE)
  /\ UNCHANGED << calls, fn, fds, child >>

Waitpid_NoStatus ==
  /\ pc = "waitpid"
  /\ child[calls].pc = "ended"
  /\ child' = [child EXCEPT ![calls].pc = "reaped"]
  /\ fds' = fds \ {calls}
  /\ Return(TRUE)
  /\ UNCHANGED << calls, fn >>

Waitpid_KeepsFile ==
  /\ pc = "waitpid"
  /\ child[calls].pc = "ended"
  /\ child' = [child EXCEPT ![calls].pc = "reaped"]
  /\ Return(child[calls].status = 0)
  /\ UNCHANGED << calls, fn, fds >>

Waitpid_UntilSuccess ==
  /\ pc = "waitpid"
  /\ child[calls].pc = "ended" /\ child[calls].status = 0
  /\ child' = [child EXCEPT ![calls].pc = "reaped"]
  /\ fds' = fds \ {calls}
  /\ Return(TRUE)
  /\ UNCHANGED << calls, fn >>

\* waitpid returns when the child has ended; do_exec_redirect closes the
\* file; and the status decides the result.
Waitpid ==
  /\ pc = "waitpid"
  /\ child[calls].pc = "ended"
  /\ child' = [child EXCEPT ![calls].pc = "reaped"]
  /\ fds' = fds \ {calls}
  /\ Return(child[calls].status = 0)
  /\ UNCHANGED << calls, fn >>

\* waitpid returns -1: a signal handler has run in the caller.
WaitpidFails ==
  /\ pc = "waitpid"
  /\ fds' = fds \ {calls}
  /\ Return(FALSE)
  /\ UNCHANGED << calls, fn, child >>

-----------------------------------------------------------------------------
(***************************************************************************)
(* The children.                                                           *)
(***************************************************************************)
Ends(i, status) ==
  child' = [child EXCEPT ![i].pc = "ended", ![i].fds = {}, ![i].status = status]

Dup2_NoClose(i) ==
  /\ child[i].pc = "dup2"
  /\ child' = [child EXCEPT ![i].pc = "execv", ![i].stdout = "file"]
  /\ UNCHANGED << calls, pc, fn, result, fds >>

\* dup2(fd, 1) and close(fd).
Dup2(i) ==
  /\ child[i].pc = "dup2"
  /\ \/ child' = [child EXCEPT ![i].pc = "execv", ![i].stdout = "file",
                               ![i].fds = @ \ {i}]
     \/ Ends(i, ExitMinusOne)
  /\ UNCHANGED << calls, pc, fn, result, fds >>

Execv_NoExit(i) ==
  /\ child[i].pc = "execv"
  /\ \E p \in {"running", "returned"} : child' = [child EXCEPT ![i].pc = p, ![i].ran = TRUE]
  /\ UNCHANGED << calls, pc, fn, result, fds >>

\* execv returns only when it fails.
Execv(i) ==
  /\ child[i].pc = "execv"
  /\ \/ child' = [child EXCEPT ![i].pc = "running", ![i].ran = TRUE]
     \/ Ends(i, ExitMinusOne)
  /\ UNCHANGED << calls, pc, fn, result, fds >>

CommandEnds(i) ==
  /\ child[i].pc = "running"
  /\ \E status \in Statuses : Ends(i, status)
  /\ UNCHANGED << calls, pc, fn, result, fds >>

-----------------------------------------------------------------------------
Caller == System \/ Open \/ Fork \/ ForkFails \/ Waitpid

Child(i) == Dup2(i) \/ Execv(i) \/ CommandEnds(i)

\* All calls have been made and no command runs.
Done ==
  /\ pc = "idle" /\ calls = MaxCalls
  /\ \A i \in Calls : child[i].pc \in {"none", "ended", "reaped"}
  /\ UNCHANGED vars

Next ==
  \/ Caller \/ WaitpidFails \/ Done
  \/ \E f \in {"do_system", "do_exec", "do_exec_redirect"} : Call(f)
  \/ \E i \in Calls : Child(i)

Spec == Init /\ [][Next]_vars

\* The caller and the children run, and the commands end.  That a signal
\* interrupts waitpid is not assumed.
FairSpec == Spec /\ WF_vars(Caller) /\ \A i \in Calls : WF_vars(Child(i))

-----------------------------------------------------------------------------
\* A child is never anywhere but in the code of its branch of the if: one
\* that has come to "returned" would go on as a second caller.
TypeOK ==
  /\ calls \in 0 .. MaxCalls
  /\ pc \in {"idle", "system", "open", "fork", "waitpid"}
  /\ fn \in [Calls -> {"none", "do_system", "do_exec", "do_exec_redirect"}]
  /\ result \in [Calls -> {"none", "true", "false"}]
  /\ fds \subseteq Calls
  /\ child \in [Calls -> [pc : {"none", "dup2", "execv", "running", "ended", "reaped"},
                          stdout : {"inherited", "file"}, fds : SUBSET Calls,
                          ran : BOOLEAN, status : 0 .. ExitMinusOne]]

\* A call that has forked returns true exactly when its command was executed
\* and reported success; a failed dup2 or execv in the child, a signal, and
\* an interrupted wait all come back as false.  (do_exec_redirect without a
\* child has not opened its file, and returns true.)
ResultIsTruthful ==
  \A i \in Calls :
    result[i] # "none" /\ child[i].pc # "none"
      => (result[i] = "true"
            <=> child[i].pc = "reaped" /\ child[i].ran /\ child[i].status = 0)

\* The command of do_exec_redirect runs with its output in the file, and no
\* command has another descriptor of the file of its own call.
CommandSeesOneFile ==
  \A i \in Calls :
    child[i].pc = "running" =>
      /\ i \notin child[i].fds
      /\ child[i].stdout = "file" <=> fn[i] = "do_exec_redirect"

\* "This file will be closed at completion of the function call": also when
\* waitpid fails or the command does.  (Not when fork fails.)
FileIsClosed ==
  \A i \in Calls : result[i] # "none" /\ child[i].pc # "none" => i \notin fds

\* Every call returns, if its command ends.
CallsComplete == pc # "idle" ~> pc = "idle"

=============================================================================

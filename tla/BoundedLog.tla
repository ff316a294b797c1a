----------------------------- MODULE BoundedLog -----------------------------
(***************************************************************************)
(* What the circular buffer promises its callers: a log of the last        *)
(* Capacity entries.  Adding to a full log drops the oldest entry and      *)
(* nothing else; no other step changes the log.                            *)
(***************************************************************************)
EXTENDS Naturals, Sequences

CONSTANTS
  Capacity,  \* how many entries the log keeps
  Entry      \* the set of entries

VARIABLE log

Init == log = << >>

Add(e) ==
  log' = Append(IF Len(log) = Capacity THEN Tail(log) ELSE log, e)

Next == \E e \in Entry : Add(e)

Spec == Init /\ [][Next]_log

=============================================================================

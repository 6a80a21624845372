------------------------------ MODULE EventLog ------------------------------
(***************************************************************************)
(* The event log as the controls above it see it, and the processes that   *)
(* append to it.  A control freezes the head, validates a draft against    *)
(* the fold of the frozen prefix, and appends under the frozen head; a     *)
(* head that moved in between is a conflict.  RunControl models the store  *)
(* statement by statement and shows that a commit lands on exactly the     *)
(* fold it was validated against; here the log is its last sequence and    *)
(* the folds are kept by the modules that extend this one.                 *)
(***************************************************************************)
EXTENDS Integers

CONSTANT Callers    \* processes that append

VARIABLES head,     \* the last sequence of the log
          job       \* [caller -> what it is doing], its frozen head included

Unset == -1

Frozen(x) == job[x].frozen # Unset

AppendHead(x) == Frozen(x) /\ job[x].frozen = head

(* Caller x goes on at pc; the frozen head of its last append is forgotten. *)
Go(x, pc) == job' = [job EXCEPT ![x].pc = pc, ![x].frozen = Unset]

(* The caller's own head binds the first append of a call only.            *)
HeadExpected(x) == job[x].expected = Unset \/ job[x].expected = head
=============================================================================

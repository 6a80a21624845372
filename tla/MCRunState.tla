---------------------------- MODULE MCRunState ----------------------------
(* TLC instance of RunState: three attempt identifiers, two revisions (so that *)
(* a drifted binding is tried), retries allowed, nine log positions.        *)
EXTENDS RunState, TLC

Symmetric == Permutations(AttemptIds)

=============================================================================

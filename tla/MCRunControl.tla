---------------------------- MODULE MCRunControl ----------------------------
(* TLC instance of RunControl: two processes, one run of one attempt.        *)
EXTENDS RunControl, TLC

Symmetric == Permutations(Controls)

=============================================================================

---------------------------- MODULE RunContract ----------------------------
(***************************************************************************)
(* What a Run promises, without its events: a bounded series of tries, one *)
(* at a time, each resolved exactly once; another try only after a         *)
(* failure and never after the run was asked to stop; and an outcome that  *)
(* is decided by the last try and never revised.                           *)
(*                                                                         *)
(* RunState implements this specification (its reducer keeps eight run     *)
(* statuses and a list of attempt records instead of the three variables   *)
(* below); RunContract itself models no code.                              *)
(***************************************************************************)
EXTENDS Naturals

CONSTANT TryLimit  \* MAX_ATTEMPTS

VARIABLES
    tries,    \* how many attempts were queued
    last,     \* "none", "live", or how the last try was resolved
    stop,     \* cancellation of the run was requested
    outcome   \* "open" until the run is closed

contractVars == <<tries, last, stop, outcome>>

ContractInit == tries = 0 /\ last = "none" /\ stop = FALSE /\ outcome = "open"

Try ==
    /\ outcome = "open" /\ ~stop
    /\ last \in {"none", "failed"}
    /\ tries < TryLimit
    /\ tries' = tries + 1 /\ last' = "live"
    /\ UNCHANGED <<stop, outcome>>

Resolve ==
    /\ outcome = "open" /\ last = "live"
    /\ last' \in {"succeeded", "failed", "cancelled"}
    /\ UNCHANGED <<tries, stop, outcome>>

RequestStop ==
    /\ outcome = "open"
    /\ stop' = TRUE
    /\ UNCHANGED <<tries, last, outcome>>

Close ==
    /\ outcome = "open"
    /\ \/ last = "succeeded" /\ outcome' = "completed"
       \/ last = "failed" /\ outcome' = "failed"
       \/ last \in {"none", "cancelled"} /\ stop /\ outcome' = "cancelled"
    /\ UNCHANGED <<tries, last, stop>>

ContractNext == Try \/ Resolve \/ RequestStop \/ Close

ContractSpec == ContractInit /\ [][ContractNext]_contractVars

=============================================================================

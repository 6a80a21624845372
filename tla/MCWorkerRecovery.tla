-------------------------- MODULE MCWorkerRecovery --------------------------
(* TLC instance of WorkerRecovery.  SequenceMax is out of reach of the bounds *)
(* on flips and leases, so the log never fills up.                            *)
EXTENDS WorkerRecovery

=============================================================================

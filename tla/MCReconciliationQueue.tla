------------------------ MODULE MCReconciliationQueue ------------------------
(* Small instances of ReconciliationQueue for TLC. *)
EXTENDS ReconciliationQueue, TLC

CONSTANTS a1, a2, r1

\* A market order's approval lasts a shorter time than the others'
\* (approval_ttl_minutes: 10 minutes against 60).
MCTTL == (a1 :> 1) @@ (a2 :> 2)

=============================================================================

------------------------------ MODULE MCLifecycle ------------------------------
(****************************************************************************)
(* Lifecycle in four deployments: one that keeps to ARCHITECTURE.md (a      *)
(* delay of twice the probe period, a drain longer than a request), the     *)
(* local one without a delay, one whose requests have no deadline, and one  *)
(* whose requests may outlast the drain.                                    *)
(****************************************************************************)
EXTENDS Lifecycle

Deployment(delay, shutdown, request) ==
  [preStopDelay |-> delay, shutdownTimeout |-> shutdown, requestTimeout |-> request]

MCEnvironment ==
  {Deployment(2 * ProbePeriod, 2, 1), Deployment(0, 2, 1),
   Deployment(ProbePeriod + 1, 1, 0), Deployment(0, 1, 2)}
=============================================================================

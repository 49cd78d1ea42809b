---------------------------- MODULE ReplayClaims ----------------------------
(***************************************************************************)
(* What the repository's docs, comments and tests say of a replay and its  *)
(* code does not keep.  Each is violated by a run of its own.              *)
(***************************************************************************)
EXTENDS Replay, FiniteSets

\* schema/intervention.py:34 "a one-step risky approval", session.py's approve_once and
\* test_approve_runs_the_risky_step_exactly_once: one approval, one execution.
ApprovalIsForOneExecution ==
  \A i \in Risky : run.approve_risky \/ charged[i] <= Cardinality(Approvals(i))

\* engine.py:14 "Failures never raise out of replay()"; only the caller's errors do.
FailuresComeBackClassified == raised \in {"none", "MissingParameter", "EscalationError"}
=============================================================================

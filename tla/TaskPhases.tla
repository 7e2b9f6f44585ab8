----------------------------- MODULE TaskPhases -----------------------------
(***************************************************************************)
(* The phase table of a modelling task and the two pure decisions taken on *)
(* it: which durable status a phase stands for, and whether a failed       *)
(* attempt is retried.  (apps/api/src/domain/task-state.ts and             *)
(* apps/api/src/services/repair-policy.ts)                                 *)
(***************************************************************************)
EXTENDS Naturals

Phase ==
    {"DOMAIN_GUARD", "ANALYZE", "WAITING_USER", "RETRIEVE", "PLAN", "CODE",
     "EXECUTE", "VALIDATE", "VISUAL_REVIEW", "PUBLISH", "CASE_PACKAGE",
     "CASE_CANDIDATE", "REJECTED", "NEEDS_USER", "FAILED", "COMPLETED"}

Status ==
    {"QUEUED", "RUNNING", "WAITING_USER", "NEEDS_USER", "ABORTING", "ABORTED",
     "FAILED", "COMPLETED"}

phaseTransitions ==
    [DOMAIN_GUARD   |-> {"ANALYZE", "REJECTED", "FAILED"},
     ANALYZE        |-> {"WAITING_USER", "RETRIEVE", "FAILED"},
     WAITING_USER   |-> {"ANALYZE", "FAILED"},
     RETRIEVE       |-> {"PLAN", "FAILED"},
     PLAN           |-> {"CODE", "COMPLETED", "FAILED"},
     CODE           |-> {"EXECUTE", "NEEDS_USER", "FAILED"},
     EXECUTE        |-> {"VALIDATE", "CODE", "NEEDS_USER", "FAILED"},
     VALIDATE       |-> {"CODE", "VISUAL_REVIEW", "NEEDS_USER", "FAILED"},
     VISUAL_REVIEW  |-> {"CODE", "PUBLISH", "NEEDS_USER", "FAILED"},
     PUBLISH        |-> {"CASE_PACKAGE", "FAILED"},
     CASE_PACKAGE   |-> {"CASE_CANDIDATE", "FAILED"},
     CASE_CANDIDATE |-> {"COMPLETED", "FAILED"},
     REJECTED       |-> {},
     NEEDS_USER     |-> {"ANALYZE", "CODE", "FAILED"},
     FAILED         |-> {},
     COMPLETED      |-> {}]

terminalPhases == {"REJECTED", "FAILED", "COMPLETED"}

statusForPhase(phase) ==
    CASE phase \in {"WAITING_USER", "NEEDS_USER", "FAILED"} -> phase
      [] phase \in {"COMPLETED", "REJECTED"} -> "COMPLETED"
      [] OTHER -> "RUNNING"

(* The attempt that may still be followed by another one in the same run. *)
RetryOnceMore(runAttempt, maxIterations) == runAttempt <= maxIterations
RetryAllowed(runAttempt, maxIterations) == runAttempt < maxIterations
=============================================================================

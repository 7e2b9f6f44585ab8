------------------------ MODULE TaskWorkflowClaims --------------------------
(***************************************************************************)
(* What the repository says of the workflow and the code does not keep.    *)
(***************************************************************************)
EXTENDS MCTaskWorkflow

(* A resumed task is handed to a worker: the handler reports "Analyzing    *)
(* requirements" (messages.ts:142) and the stable job id only absorbs      *)
(* repeated deliveries of one run (task-queue.ts:51-52).                   *)
QueuedTaskHasJob ==
    \A t \in Having({"QUEUED"}) :
        \/ \E r \in Request : post[r].task = t /\ HandlerHolds(r)
        \/ \E n \in Run : Live(<<t, n>>)
=============================================================================

------------------------------ MODULE AgentProps ------------------------------
(* What must hold of a sandbox, its runs, and CodeExecutionTool.           *)
EXTENDS AgentTool

(* User code starts from a clean state: nothing that earlier user code did *)
(* is in the guest's memory or in the output directory, whichever steps of *)
(* earlier calls failed ("preventing side effects from leaking",           *)
(* CodeExecutionTool.cs:134).                                              *)
CleanStart ==
    step = "userRuns" =>
        LET earlier == userRuns \ {runs}
        IN memory \cap earlier = {} /\ output \cap earlier = {}

(* The answer of a run has the output of that run and of no other, also    *)
(* after runs that were interrupted or failed with text in the buffer.     *)
StdoutOfRun == phase = "idle" => reply.stdout \subseteq {runs}
===============================================================================

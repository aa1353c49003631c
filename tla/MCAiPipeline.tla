--------------------------- MODULE MCAiPipeline ---------------------------
(***************************************************************************)
(* Instances of AiPipeline for TLC.                                        *)
(***************************************************************************)
EXTENDS AiPipeline, TLC

MCJobs == Pipelines \X Tasks
MCBodies == 1..(2 * MaxAttempts * LastTask + 1)
KeepsBody == [b \in MCBodies |-> b]

\* app/server.js: every worker of a task passes the same name.
SharedId == [p \in Runs |-> "ai-pipeline-worker"]
NoDelay == [n \in 1..MaxAttempts |-> 0]
NoHint == {0}

Symmetry == Permutations(Runs)
=============================================================================

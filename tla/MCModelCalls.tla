---------------------------- MODULE MCModelCalls ----------------------------
(***************************************************************************)
(* A pipeline of AiPipeline that runs to its end, and the calls of models  *)
(* that its tasks make.  They share no variable, so one run checks both:   *)
(* focus says which of them moves.                                         *)
(***************************************************************************)
EXTENDS MCAiPipeline, ModelCalls

VARIABLE focus

CallsInit ==
    /\ focus \in {"pipeline", "models"}
    /\ PipelineInit
    /\ ModelInit
    /\ focus # "models" =>
          \A k \in ModelCallers : /\ caller[k].model = CHOOSE m \in Models : TRUE
                                  /\ caller[k].size = CHOOSE s \in Sizes : TRUE

\* One component moves in a behaviour, from its start to its end.
MovesOnly(component) == focus = component /\ UNCHANGED focus

\* The calls are over some day; the queue never rests.
Rest == focus = "models" /\ UNCHANGED <<focus, allVars, modelVars>>

CallsNext ==
    \/ MovesOnly("pipeline") /\ PipelineNext /\ UNCHANGED modelVars
    \/ MovesOnly("models") /\ ModelNext /\ UNCHANGED allVars
    \/ Rest

CallsSpec ==
    /\ CallsInit /\ [][CallsNext]_<<focus, allVars, modelVars>>
    /\ \/ focus = "pipeline" /\ PipelineFairness
       \/ focus = "models" /\ ModelFairness
=============================================================================

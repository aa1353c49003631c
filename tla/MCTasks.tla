------------------------------ MODULE MCTasks ------------------------------
(***************************************************************************)
(* A pipeline of AiPipeline under faults, and what its tasks do: the       *)
(* reading of articles, the two classifications, the analysis of an issue, *)
(* the report on it, and the calls of models.  They share no variable, so  *)
(* one run checks them all: focus says which of them moves.                *)
(***************************************************************************)
EXTENDS MCAiPipeline, SourceReading, Relevance, IssueAnalysis, Reports, ModelCalls

VARIABLE focus

\* Texts of one article, by the signals the gates find in them.
SomeTexts == {{}, {"self", "bridge"}, {"rival", "listed"}, {"overlap"},
              {"product", "commercial"}, {"region", "project"}}
SomeAnswers == {[relevance |-> "high",   relation |-> "self"],
                [relevance |-> "medium", relation |-> "market"],
                [relevance |-> "low",    relation |-> "unrelated"]}

\* An article of the CMS, referred to in both ways, and a crawled one, as it
\* should be and as another source that may not enter.
SomeReferences == {[form |-> f, key |-> "a1"] : f \in {"bare", "cms"}}
                  \cup {[form |-> f, key |-> "h1"] : f \in {"crawl", "viral"}}
Contents == [k \in {"a1", "h1"} |-> IF k = "a1" THEN <<"full", "thin">> ELSE <<"full", "full">>]

\* The runs of the queue, the classifiers, the narrators and two of the callers
\* are the same model values, so that one permutation serves them all.
TasksSymmetry == Permutations(Runs \cup Classifiers \cup Narrators)

taskVars == <<readingVars, relevanceVars, analysisVars, reportVars, modelVars>>

\* A task that does not move starts in one state.
TasksInit ==
    /\ focus \in {"pipeline", "reading", "relevance", "analysis", "reports", "models"}
    /\ PipelineInit
    /\ ReadingInit
    /\ RelevanceInit /\ (focus # "relevance" => texts = <<{}>>)
    /\ AnalysisInit
    /\ ReportsInit
    /\ ModelInit
    /\ focus # "models" => \A k \in ModelCallers : /\ caller[k].model = CHOOSE m \in Models : TRUE
                                                  /\ caller[k].size = CHOOSE s \in Sizes : TRUE

\* One component moves in a behaviour, from its start to its end.
MovesOnly(component) == focus = component /\ UNCHANGED focus

\* The calls of a task are over some day; the queue never rests.
Rest == focus # "pipeline" /\ UNCHANGED <<focus, allVars, taskVars>>

TasksNext ==
    \/ /\ MovesOnly("pipeline") /\ PipelineNext
       /\ UNCHANGED taskVars
    \/ /\ MovesOnly("reading") /\ ReadingNext
       /\ UNCHANGED <<allVars, relevanceVars, analysisVars, reportVars, modelVars>>
    \/ /\ MovesOnly("relevance") /\ RelevanceNext
       /\ UNCHANGED <<allVars, readingVars, analysisVars, reportVars, modelVars>>
    \/ /\ MovesOnly("analysis") /\ AnalysisNext
       /\ UNCHANGED <<allVars, readingVars, relevanceVars, reportVars, modelVars>>
    \/ /\ MovesOnly("reports") /\ ReportsNext
       /\ UNCHANGED <<allVars, readingVars, relevanceVars, analysisVars, modelVars>>
    \/ /\ MovesOnly("models") /\ ModelNext
       /\ UNCHANGED <<allVars, readingVars, relevanceVars, analysisVars, reportVars>>
    \/ Rest

TasksSpec == TasksInit /\ [][TasksNext]_<<focus, allVars, taskVars>>

-----------------------------------------------------------------------------
(* What T02 to T10 read and write.                                         *)

\* From the article that T02 judges to the reason that T10 gives, each task works
\* on what an earlier one left, though the article and the issue change in
\* between: what is written about an article is about the published version that
\* was judged, under one name (ReadingSafe); the analysis that readers see passed
\* the gate, the priority was decided on it, and the reason explains that
\* (AnalysisSafe).
IssueTextsSafe == ReadingSafe /\ AnalysisSafe
=============================================================================

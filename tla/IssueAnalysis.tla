---------------------------- MODULE IssueAnalysis ----------------------------
(***************************************************************************)
(* What an issue means (T07), which of its claims are facts (T08), the     *)
(* citation gate that makes one analysis the current one, how urgent the   *)
(* issue is (T09) and why (T10).                                           *)
(*                                                                         *)
(* Several pipelines, one for each article, work on one issue: a pipeline  *)
(* attaches its article and then runs the tasks in turn.  A task that      *)
(* fails is repeated by the queue, or given up.  The issue is in memory of *)
(* the host; analyses, labels, priorities and reasons are rows in          *)
(* PostgreSQL, and every statement on them is a step of its own.           *)
(***************************************************************************)
EXTENDS Naturals, Sequences, FiniteSets

CONSTANTS Analysts,         \* pipelines on the issue, and
          Callers,          \* those of them that are calls of the internal routes
          Sources,          \* articles
          Priorities,       \* "tinggi", "sedang", "rendah"
          MaxRevisions,      \* bound: how often the newsroom publishes an article
          MaxIssueVersion,  \* bound: writes to the issue
          MaxDecisions      \* bound: rows of priorities

ASSUME IssueAnalysisAssumption ==
    /\ Callers \subseteq Analysts
    /\ MaxRevisions \in Nat \ {0} /\ MaxIssueVersion \in Nat \ {0} /\ MaxDecisions \in Nat

VARIABLES revision,     \* the published revision of each article
          issue,        \* the issue, as the host holds it
          analyses,     \* rows of ai.issue_analyses, in order of creation
          labels,       \* rows of ai.stage_runs for T08; two that say the same count once
          priorities,   \* rows of ai.issue_priorities
          reasons,      \* the decisions that have a row of ai.stage_runs for T10
          analyst,      \* where each pipeline is
          applied       \* history: the decisions that the issue was given

analysisVars == <<revision, issue, analyses, labels, priorities, reasons, analyst, applied>>

Evidence == Sources \X (1 .. MaxRevisions)   \* a linked article: an article as of a revision
None == 0                                   \* no analysis, no decision
Issue == [open : BOOLEAN, version : 1 .. MaxIssueVersion, links : SUBSET Evidence,
          analysis : Nat, decision : Nat, priority : Priorities \cup {"none"}]
\* Version and evidence are what the fingerprint is made of.  A claim stands for
\* the article it cites.
Analysis == [version : 1 .. MaxIssueVersion, evidence : SUBSET Evidence, claims : SUBSET Sources,
             status : {"validated", "current", "superseded"}, gated : BOOLEAN]
Labels == [analysis : Nat, claims : SUBSET Sources]
Decided == [analysis : Nat, priority : Priorities]
Step07 == {"t07", "links", "lookup", "analyze"}
Step08 == {"t08", "label", "insert labels", "gate", "evidence", "promote", "supersede", "current"}
Step09 == {"t09", "decide", "apply"}
Step10 == {"t10", "explain"}
Analyst == [at : {"attach"} \cup Step07 \cup Step08 \cup Step09 \cup Step10,
            version : 0 .. MaxIssueVersion, evidence : SUBSET Evidence, analysis : Nat, decision : Nat]

AnalystIdle == [at |-> "attach", version |-> 0, evidence |-> {}, analysis |-> None, decision |-> None]
AtTask(task, id, d) == [AnalystIdle EXCEPT !.at = task, !.analysis = id, !.decision = d]

AnalysisTypeOK ==
    /\ revision \in [Sources -> 1 .. MaxRevisions]
    /\ issue \in Issue
    /\ analyses \in Seq(Analysis) /\ labels \subseteq Labels /\ priorities \in Seq(Decided)
    /\ reasons \subseteq 1 .. MaxDecisions
    /\ analyst \in [Analysts -> Analyst]
    /\ applied \subseteq 1 .. MaxDecisions

AnalysisInit ==
    /\ revision = [a \in Sources |-> 1]
    /\ \E a \in Sources :   \* created with its first article
          issue = [open |-> TRUE, version |-> 1, links |-> {<<a, 1>>}, analysis |-> None, decision |-> None,
                   priority |-> "none"]
    /\ analyses = <<>> /\ labels = {} /\ priorities = <<>> /\ reasons = {}
    /\ analyst = [p \in Analysts |-> AnalystIdle]
    /\ applied = {}

-----------------------------------------------------------------------------
(* The surroundings.                                                       *)

SourcesOf(evidence) == {e[1] : e \in evidence}
Fresh(evidence) == \A e \in evidence : revision[e[1]] = e[2]

Publish(a) ==
    /\ revision[a] < MaxRevisions
    /\ revision' = [revision EXCEPT ![a] = @ + 1]
    /\ UNCHANGED <<issue, analyses, labels, priorities, reasons, analyst, applied>>

CloseIssue ==
    /\ issue.open /\ issue.version < MaxIssueVersion
    /\ issue' = [issue EXCEPT !.open = FALSE, !.version = @ + 1]
    /\ UNCHANGED <<revision, analyses, labels, priorities, reasons, analyst, applied>>

StepAt(p, at) == analyst[p].at = at
NowAt(p, at) == analyst' = [analyst EXCEPT ![p].at = at]
FirstOf(at) == IF at \in Step07 THEN "t07" ELSE IF at \in Step08 THEN "t08"
               ELSE IF at \in Step09 THEN "t09" ELSE "t10"

\* The queue repeats the task from its first step; after the last attempt the
\* pipeline is dead, and the next one may start.
Repeat(p) ==
    /\ \/ analyst' = [analyst EXCEPT ![p] = AtTask(FirstOf(@.at), @.analysis,
                                                   IF @.at \in Step10 THEN @.decision ELSE None)]
       \/ analyst' = [analyst EXCEPT ![p] = AnalystIdle]
    /\ UNCHANGED <<revision, issue, analyses, labels, priorities, reasons, applied>>

\* The host, the database or the provider fails, or the answer is refused.
TaskFails(p) == ~StepAt(p, "attach") /\ Repeat(p)

\* T04 matches the article of the pipeline to the issue.
AttachArticle(p) ==
    /\ StepAt(p, "attach") /\ p \notin Callers /\ issue.open
    /\ \E a \in Sources :
          LET link == <<a, revision[a]>>
              new == link \notin issue.links
          IN  /\ new => issue.version < MaxIssueVersion
              /\ issue' = IF new THEN [issue EXCEPT !.links = @ \cup {link}, !.version = @ + 1] ELSE issue
    /\ NowAt(p, "t07")
    /\ UNCHANGED <<revision, analyses, labels, priorities, reasons, applied>>

\* The internal routes run one task, on whatever analysis or decision the caller
\* names; what follows is as if the caller went on with the next one.
CallTask(p) ==
    /\ StepAt(p, "attach") /\ p \in Callers
    /\ \/ NowAt(p, "t07")
       \/ \E at \in {"t08", "gate", "t09"}, i \in DOMAIN analyses :
             analyst' = [analyst EXCEPT ![p] = AtTask(at, i, None)]
       \/ \E d \in DOMAIN priorities :
             analyst' = [analyst EXCEPT ![p] = AtTask("t10", priorities[d].analysis, d)]
    /\ UNCHANGED <<revision, issue, analyses, labels, priorities, reasons, applied>>

-----------------------------------------------------------------------------
(* T07.                                                                    *)

ReadWholeIssue(p) ==
    /\ StepAt(p, "t07") /\ issue.open
    /\ analyst' = [analyst EXCEPT ![p].at = "links", ![p].version = issue.version]
    /\ UNCHANGED <<revision, issue, analyses, labels, priorities, reasons, applied>>

\* _validateLinkedArticles: there is one link for each article.
Unambiguous(links) == links # {} /\ Cardinality(SourcesOf(links)) = Cardinality(links)

\* Each article is read again, and is published as it was when it was linked.
LoadEvidence(p) ==
    /\ StepAt(p, "links")
    /\ Unambiguous(issue.links) /\ Fresh(issue.links)
    /\ analyst' = [analyst EXCEPT ![p].at = "lookup", ![p].evidence = issue.links]
    /\ UNCHANGED <<revision, issue, analyses, labels, priorities, reasons, applied>>

SameInput(p) == {i \in DOMAIN analyses : /\ analyses[i].version = analyst[p].version
                                         /\ analyses[i].evidence = analyst[p].evidence}
ValidAnalysis(claims, evidence) == claims # {} /\ claims \subseteq SourcesOf(evidence)

LookupAnalysis(p) ==
    /\ StepAt(p, "lookup")
    /\ IF SameInput(p) = {} THEN NowAt(p, "analyze")
       ELSE \E i \in SameInput(p) : analyst' = [analyst EXCEPT ![p] = AtTask("t08", i, None)]
    /\ UNCHANGED <<revision, issue, analyses, labels, priorities, reasons, applied>>

\* The model answers, and the answer is validated.
Candidates(evidence) == {claims \in SUBSET Sources : ValidAnalysis(claims, evidence)}

\* A second call reviews the candidate: it passes, or it is replaced by a corrected
\* analysis, which is validated like the candidate.
PerspectiveReview(candidate, evidence) ==
    {candidate} \cup {corrected \in Candidates(evidence) : corrected # candidate}

Reviewed(evidence) == UNION {PerspectiveReview(candidate, evidence) : candidate \in Candidates(evidence)}

\* The fingerprint is unique: a second insert fails.
CreateAnalysis(p) ==
    /\ StepAt(p, "analyze") /\ SameInput(p) = {}
    /\ \E claims \in Reviewed(analyst[p].evidence) :
          analyses' = Append(analyses, [version |-> analyst[p].version, evidence |-> analyst[p].evidence,
                                        claims |-> claims, status |-> "validated", gated |-> FALSE])
    /\ analyst' = [analyst EXCEPT ![p] = AtTask("t08", Len(analyses) + 1, None)]
    /\ UNCHANGED <<revision, issue, labels, priorities, reasons, applied>>

-----------------------------------------------------------------------------
(* T08, and the gate in the same task.                                     *)

Mine(p) == analyses[analyst[p].analysis]
LabelsOf(id) == {row \in labels : row.analysis = id}
ValidLabels(claims, id) == claims = analyses[id].claims

ReadAnalysis(p) ==
    /\ StepAt(p, "t08") /\ Mine(p).status = "validated"
    /\ NowAt(p, IF LabelsOf(analyst[p].analysis) = {} THEN "label" ELSE "gate")
    /\ UNCHANGED <<revision, issue, analyses, labels, priorities, reasons, applied>>

\* The model has answered; the store looks once more ...
LookupLabels(p) ==
    /\ StepAt(p, "label")
    /\ NowAt(p, IF LabelsOf(analyst[p].analysis) = {} THEN "insert labels" ELSE "gate")
    /\ UNCHANGED <<revision, issue, analyses, labels, priorities, reasons, applied>>

\* ... and inserts, beside a row of another pipeline if there is one by now.
InsertLabels(p) ==
    /\ StepAt(p, "insert labels")
    /\ \E claims \in SUBSET Sources :
          /\ ValidLabels(claims, analyst[p].analysis)
          /\ labels' = labels \cup {[analysis |-> analyst[p].analysis, claims |-> claims]}
    /\ NowAt(p, "gate")
    /\ UNCHANGED <<revision, issue, analyses, priorities, reasons, applied>>

BeginGate(p) ==
    /\ StepAt(p, "gate") /\ Mine(p).status = "validated"
    /\ NowAt(p, "evidence")
    /\ UNCHANGED <<revision, issue, analyses, labels, priorities, reasons, applied>>

\* The evidence is what is linked now, and what is published now.
EvidenceHolds(row) ==
    /\ issue.links = row.evidence
    /\ Fresh(row.evidence)
    /\ row.claims \subseteq SourcesOf(row.evidence)

CheckEvidence(p) ==
    /\ StepAt(p, "evidence") /\ EvidenceHolds(Mine(p))
    /\ NowAt(p, "promote")
    /\ UNCHANGED <<revision, issue, analyses, labels, priorities, reasons, applied>>

LabelsHold(id) == \E row \in LabelsOf(id) : row.claims = analyses[id].claims

\* Mutant: the labels are not looked at.
CheckEvidenceOnly(p) ==
    /\ StepAt(p, "promote") /\ Mine(p).status = "validated"
    /\ NowAt(p, "supersede")
    /\ UNCHANGED <<revision, issue, analyses, labels, priorities, reasons, applied>>
CheckLabels(p) ==
    /\ StepAt(p, "promote") /\ LabelsHold(analyst[p].analysis) /\ Mine(p).status = "validated"
    /\ NowAt(p, "supersede")
    /\ UNCHANGED <<revision, issue, analyses, labels, priorities, reasons, applied>>

Supersede(p) ==
    /\ StepAt(p, "supersede")
    /\ analyses' = [i \in DOMAIN analyses |->
           IF i # analyst[p].analysis /\ analyses[i].status = "current"
           THEN [analyses[i] EXCEPT !.status = "superseded"] ELSE analyses[i]]
    /\ NowAt(p, "current")
    /\ UNCHANGED <<revision, issue, labels, priorities, reasons, applied>>

\* Mutant: the second UPDATE has no WHERE status.
PromoteAnyway(p) ==
    /\ StepAt(p, "current")
    /\ analyses' = [analyses EXCEPT ![analyst[p].analysis].status = "current",
                                    ![analyst[p].analysis].gated = TRUE]
    /\ NowAt(p, "t09")
    /\ UNCHANGED <<revision, issue, labels, priorities, reasons, applied>>
\* WHERE status = 'validated': if it no longer is, whatever is current is returned.
PromoteCurrent(p) ==
    /\ StepAt(p, "current")
    /\ analyses' = IF Mine(p).status = "validated"
                   THEN [analyses EXCEPT ![analyst[p].analysis].status = "current",
                                         ![analyst[p].analysis].gated = TRUE]
                   ELSE analyses
    /\ NowAt(p, "t09")
    /\ UNCHANGED <<revision, issue, labels, priorities, reasons, applied>>

-----------------------------------------------------------------------------
(* T09 and T10.                                                            *)

\* getCurrent returns one current row: the one promoted last, by the clock of the
\* host that gated it.
IsAnalysis(id) == analyses[id].status # "superseded"   \* Mutant: any analysis will do
IsCurrent(id) == analyses[id].status = "current" /\ analyses[id].gated
DecisionsOn(id) == {d \in DOMAIN priorities : priorities[d].analysis = id}
LatestOn(id) == CHOOSE d \in DecisionsOn(id) : \A e \in DecisionsOn(id) : e <= d

ReadCurrent(p) ==
    /\ StepAt(p, "t09") /\ issue.open /\ IsCurrent(analyst[p].analysis)
    /\ analyst' = IF DecisionsOn(analyst[p].analysis) = {} THEN [analyst EXCEPT ![p].at = "decide"]
                  ELSE [analyst EXCEPT ![p].at = "t10", ![p].decision = LatestOn(analyst[p].analysis)]
    /\ UNCHANGED <<revision, issue, analyses, labels, priorities, reasons, applied>>

\* Mutant: the answer of the model is not compared with the three priorities.
CreateAnyRow(p) ==
    /\ StepAt(p, "decide") /\ Len(priorities) < MaxDecisions
    /\ priorities' = Append(priorities, [analysis |-> analyst[p].analysis, priority |-> "urgent"])
    /\ analyst' = [analyst EXCEPT ![p].at = "apply", ![p].decision = Len(priorities) + 1]
    /\ UNCHANGED <<revision, issue, analyses, labels, reasons, applied>>
CreateDecisionRow(p) ==
    /\ StepAt(p, "decide") /\ Len(priorities) < MaxDecisions
    /\ \E priority \in Priorities :
          priorities' = Append(priorities, [analysis |-> analyst[p].analysis, priority |-> priority])
    /\ analyst' = [analyst EXCEPT ![p].at = "apply", ![p].decision = Len(priorities) + 1]
    /\ UNCHANGED <<revision, issue, analyses, labels, reasons, applied>>

ApplyCurrentPriority(p) ==
    /\ StepAt(p, "apply") /\ issue.open /\ issue.version < MaxIssueVersion
    /\ issue' = [issue EXCEPT !.analysis = analyst[p].analysis, !.decision = analyst[p].decision,
                              !.priority = priorities[analyst[p].decision].priority, !.version = @ + 1]
    /\ applied' = applied \cup {analyst[p].decision}
    /\ NowAt(p, "t10")
    /\ UNCHANGED <<revision, analyses, labels, priorities, reasons>>

\* Mutant: the decision is compared with the rows only, not with the issue.
Latest(p) == DecisionsOn(analyst[p].analysis) # {} /\ LatestOn(analyst[p].analysis) = analyst[p].decision
\* A decision that was stored and never applied is refused here for good.
Applied(p) ==
    LET id == analyst[p].analysis
        d == analyst[p].decision
    IN  /\ DecisionsOn(id) # {} /\ LatestOn(id) = d
        /\ issue.priority = priorities[d].priority /\ issue.analysis = id /\ issue.decision = d

Explained(p) == analyst[p].decision \in reasons

ReadDecisionRow(p) ==
    /\ StepAt(p, "t10") /\ issue.open /\ IsCurrent(analyst[p].analysis) /\ Applied(p)
    /\ LabelsHold(analyst[p].analysis)
    /\ analyst' = [analyst EXCEPT ![p] = IF Explained(p) THEN AnalystIdle ELSE [@ EXCEPT !.at = "explain"]]
    /\ UNCHANGED <<revision, issue, analyses, labels, priorities, reasons, applied>>

\* get, then INSERT: as with the labels, a reason may be stored twice.
CreateReason(p) ==
    /\ StepAt(p, "explain")
    /\ reasons' = reasons \cup {analyst[p].decision}
    /\ analyst' = [analyst EXCEPT ![p] = AnalystIdle]
    /\ UNCHANGED <<revision, issue, analyses, labels, priorities, applied>>

AnalysisNext ==
    \/ CloseIssue
    \/ \E a \in Sources : Publish(a)
    \/ \E p \in Analysts :
          \/ AttachArticle(p) \/ CallTask(p) \/ TaskFails(p)
          \/ ReadWholeIssue(p) \/ LoadEvidence(p) \/ LookupAnalysis(p) \/ CreateAnalysis(p)
          \/ ReadAnalysis(p) \/ LookupLabels(p) \/ InsertLabels(p)
          \/ BeginGate(p) \/ CheckEvidence(p) \/ CheckLabels(p) \/ Supersede(p) \/ PromoteCurrent(p)
          \/ ReadCurrent(p) \/ CreateDecisionRow(p) \/ ApplyCurrentPriority(p)
          \/ ReadDecisionRow(p) \/ CreateReason(p)

AnalysisSpec == AnalysisInit /\ [][AnalysisNext]_analysisVars

-----------------------------------------------------------------------------
(* An analysis that readers see passed the gate: all of its claims are     *)
(* labelled, and they cite evidence of the issue.  Two pipelines may gate  *)
(* it at once (citation-analysis-gate.js).                                 *)
PromotedWasGated ==
    \A i \in DOMAIN analyses : analyses[i].status # "validated" =>
        /\ analyses[i].gated /\ LabelsHold(i)
        /\ analyses[i].claims \subseteq SourcesOf(issue.links)

(* A superseded analysis never comes back, whichever of two promotions     *)
(* ends last.                                                              *)
SupersededStays ==
    [][\A i \in DOMAIN analyses :
          /\ analyses[i].status = "superseded" => analyses'[i].status = "superseded"
          /\ analyses[i].status # "validated" => analyses'[i].status # "validated"]_analysisVars

(* The priority of the issue is the decision it names, and that decision   *)
(* was made on the analysis it names, which passed the gate.               *)
PriorityIsGrounded ==
    issue.decision # None =>
        /\ issue.decision \in applied
        /\ priorities[issue.decision] = [analysis |-> issue.analysis, priority |-> issue.priority]
        /\ analyses[issue.analysis].gated

(* A reason explains a decision that the issue was given, made on an       *)
(* analysis whose claims are labelled.                                     *)
ReasonsExplainApplied ==
    \A d \in reasons : d \in applied /\ LabelsHold(priorities[d].analysis)

(* The safety of T07 to T10: what readers see was gated, is the analysis   *)
(* the priority was decided on, and is what the reason explains.           *)
AnalysisSafe == AnalysisTypeOK /\ PromotedWasGated /\ PriorityIsGrounded /\ ReasonsExplainApplied
=============================================================================

------------------------------ MODULE Relevance ------------------------------
(***************************************************************************)
(* Is an article relevant to a company (task T02), and why (task T03)?     *)
(* The model is asked several times, its votes are merged, two gates that  *)
(* compare the text with the company context correct the verdict, and the  *)
(* verdict decides whether the pipeline goes on to form an issue.          *)
(*                                                                         *)
(* The editors may change the article at any time: a classification that   *)
(* runs goes on with the text that it read.  Decisions are kept in         *)
(* PostgreSQL, one row for each article and context.                       *)
(***************************************************************************)
EXTENDS Naturals, Sequences, FiniteSets

CONSTANTS Classifiers,   \* pipelines that classify the article
          Texts,         \* texts of the article: the signals found in each
          Answers,       \* what the model may answer
          Calls,         \* consensusCalls
          MaxText,       \* bound: versions of the article
          IncludeBody    \* T02_INCLUDE_BODY_SNIPPET

Relevant == {"high", "medium", "low", "none"}
Relation == {"self", "competitor", "market", "unrelated"}
ModelAnswer == [relevance : Relevant, relation : Relation]
NoAnswer == [relevance |-> "none", relation |-> "unrelated"]

\* What the gates find in title, summary and body, given the context: names of
\* the company or of a listed rival, a text too thin to tell, words shared with
\* industry and priorities ...
IdentitySignal == {"self", "rival", "listed", "thin", "overlap"}
\* ... and of the market: an event that a bridge ties to the context, ...
BridgeSignal == {"bridge"}
\* ... the product itself or its category, an action, a project, a place.
MarketSignal == {"product", "category", "commercial", "project", "region", "operating",
                 "demand", "macro", "dependency"}
Signal == IdentitySignal \cup BridgeSignal \cup MarketSignal

ASSUME RelevanceAssumption ==
    /\ Texts \subseteq SUBSET Signal /\ \A t \in Texts : "rival" \in t => "listed" \in t
    /\ Answers \subseteq ModelAnswer /\ Calls \in 1 .. 3
    /\ MaxText \in Nat \ {0} /\ IncludeBody \in BOOLEAN

VARIABLES texts,       \* the versions of the article, the last one is published
          decision,    \* the row of ai.article_relevance
          rationales,  \* versions whose decision was explained, for the id of that row
          classifier   \* where each pipeline is

relevanceVars == <<texts, decision, rationales, classifier>>

NoVersion == 0
\* A version stands for the input fingerprint: the hash of what it is made of.
Decision == [version : 0 .. MaxText, answer : ModelAnswer]
NoDecision == [version |-> NoVersion, answer |-> NoAnswer]

Classifier == [at : {"start", "vote", "create", "reread", "rationale", "source", "explain",
                     "done", "stopped", "failed"},
               version : 0 .. MaxText, votes : Seq(Answers), verdict : Decision, why : 0 .. MaxText]

RelevanceTypeOK ==
    /\ texts \in Seq(Texts) /\ Len(texts) \in 1 .. MaxText
    /\ decision \in Decision
    /\ rationales \subseteq 1 .. MaxText
    /\ classifier \in [Classifiers -> Classifier] /\ \A c \in Classifiers : Len(classifier[c].votes) <= Calls

RelevanceInit ==
    /\ \E text \in Texts : texts = <<text>>
    /\ decision = NoDecision /\ rationales = {}
    /\ classifier = [c \in Classifiers |->
           [at |-> "start", version |-> NoVersion, votes |-> <<>>, verdict |-> NoDecision, why |-> NoVersion]]

-----------------------------------------------------------------------------
(* The policy: which verdicts go on.                                       *)

Continuing(relevance) == relevance \in {"high", "medium"}
FormsIssue(answer) == Continuing(answer.relevance) /\ answer.relation # "unrelated"

-----------------------------------------------------------------------------
(* The votes: a majority, else the more cautious.                          *)

Majority(votes, P(_)) == 2 * Cardinality({i \in DOMAIN votes : P(votes[i])}) > Len(votes)
Some(votes, P(_)) == \E i \in DOMAIN votes : P(votes[i])

MergedRelation(votes) ==
    IF \E r \in Relation : Majority(votes, LAMBDA v : v.relation = r)
    THEN CHOOSE r \in Relation : Majority(votes, LAMBDA v : v.relation = r)
    ELSE IF Some(votes, LAMBDA v : v.relation = "market") THEN "market"
    ELSE IF Some(votes, LAMBDA v : v.relation = "unrelated") THEN "unrelated"
    ELSE "competitor"

MergedRelevance(votes) ==
    IF ~Some(votes, LAMBDA v : Continuing(v.relevance))
    THEN IF Len(votes) = 1 THEN votes[1].relevance ELSE "none"
    ELSE IF \E r \in Relevant : Majority(votes, LAMBDA v : v.relevance = r)
    THEN CHOOSE r \in Relevant : Majority(votes, LAMBDA v : v.relevance = r)
    ELSE IF Some(votes, LAMBDA v : ~Continuing(v.relevance)) THEN "none"
    ELSE "medium"

Merged(votes) == [relevance |-> MergedRelevance(votes), relation |-> MergedRelation(votes)]

-----------------------------------------------------------------------------
(* The gates.                                                              *)

\* The names in the text decide who it is about; a claim without a name is a
\* signal of the market at most.
GatedRelation(text, relation) ==
    IF "self" \in text THEN "self"
    ELSE IF "rival" \in text THEN "competitor"
    ELSE IF relation = "market" \/ "overlap" \in text THEN "market"
    ELSE "unrelated"

IdentityGate(text, answer) ==
    LET relation == GatedRelation(text, answer.relation)
    IN  IF "thin" \in text /\ text \cap {"self", "rival"} = {} THEN NoAnswer
        ELSE [relevance |-> IF relation = "unrelated" /\ Continuing(answer.relevance) THEN "none"
                            ELSE answer.relevance,
              relation |-> relation]

\* An action on the company's own kind of product.
PeerAction(text) == "commercial" \in text /\ text \cap {"category", "product"} # {}

\* What ties a market signal to the company.
Hook(text) ==
    \/ text \cap {"bridge", "product", "macro"} # {}
    \/ {"category", "commercial"} \subseteq text
    \/ {"region", "project"} \subseteq text
    \/ {"operating", "project", "demand"} \subseteq text
    \/ "dependency" \in text /\ text \cap {"commercial", "project"} # {}

MaterialityGate(text, answer) ==
    [answer EXCEPT !.relevance =
        IF answer.relation # "market" THEN @
        ELSE IF Continuing(@) THEN IF Hook(text) THEN @ ELSE "low"
        ELSE IF "bridge" \in text \/ PeerAction(text) THEN "medium" ELSE @]

\* Mutant: the market gate is left out.
NamedVerdict(text, votes) == IdentityGate(text, Merged(votes))
FinalVerdict(text, votes) == MaterialityGate(text, IdentityGate(text, Merged(votes)))

-----------------------------------------------------------------------------
(* T02.                                                                    *)

ClassifierAt(c, from) == classifier[c].at = from
ClassifierGoes(c, to) == classifier' = [classifier EXCEPT ![c].at = to]

EditArticle ==
    /\ Len(texts) < MaxText
    /\ \E text \in Texts : texts' = Append(texts, text)
    /\ UNCHANGED <<decision, rationales, classifier>>

\* The pipeline goes on with T03, or the article is left.
Branch(c, verdict) ==
    classifier' = [classifier EXCEPT ![c].verdict = verdict, ![c].votes = <<>>,
                                     ![c].at = IF FormsIssue(verdict.answer) THEN "rationale" ELSE "stopped"]

\* The context and the article are read; a decision on this very input is used
\* again.  The task may be one that is tried again, or that of a next pipeline.
ReadArticle(c) ==
    /\ classifier[c].at \in {"start", "stopped", "done", "failed"}
    /\ classifier' = [classifier EXCEPT ![c] = [@ EXCEPT !.version = Len(texts), !.at = "vote", !.votes = <<>>,
                                                        !.verdict = NoDecision, !.why = NoVersion]]
    /\ UNCHANGED <<texts, decision, rationales>>

ReuseDecision(c) ==
    /\ ClassifierAt(c, "vote") /\ classifier[c].votes = <<>>
    /\ decision.version = classifier[c].version
    /\ Branch(c, decision)
    /\ UNCHANGED <<texts, decision, rationales>>

\* Mutant: one call too many.
VoteAgain(c) ==
    /\ ClassifierAt(c, "vote")
    /\ \E answer \in Answers :
          LET votes == Append(classifier[c].votes, answer)
          IN  classifier' = [classifier EXCEPT ![c].votes = votes,
                                               ![c].at = IF Len(votes) > Calls THEN "create" ELSE "vote"]
    /\ UNCHANGED <<texts, decision, rationales>>
\* One call after another; each may be the first one to see no decision.
Vote(c) ==
    /\ ClassifierAt(c, "vote")
    /\ classifier[c].votes = <<>> => decision.version # classifier[c].version
    /\ \E answer \in Answers :
          LET votes == Append(classifier[c].votes, answer)
          IN  classifier' = [classifier EXCEPT ![c].votes = votes,
                                               ![c].at = IF Len(votes) = Calls THEN "create" ELSE "vote"]
    /\ UNCHANGED <<texts, decision, rationales>>

\* The row is inserted, or takes the place of a decision on another input; a
\* decision on the same input stays, and is read again.
CreateDecision(c) ==
    /\ ClassifierAt(c, "create")
    /\ LET made == [version |-> classifier[c].version,
                    answer |-> FinalVerdict(texts[classifier[c].version], classifier[c].votes)]
       IN  IF decision.version = made.version
           THEN /\ classifier' = [classifier EXCEPT ![c].at = "reread", ![c].votes = <<>>]
                /\ UNCHANGED decision
           ELSE /\ decision' = made /\ Branch(c, made)
    /\ UNCHANGED <<texts, rationales>>

\* Mutant: the row is taken whatever its fingerprint.
RereadAny(c) ==
    /\ ClassifierAt(c, "reread")
    /\ Branch(c, decision)
    /\ UNCHANGED <<texts, decision, rationales>>
\* By then a third pipeline may have replaced it: there is nothing to return.
RereadDecision(c) ==
    /\ ClassifierAt(c, "reread")
    /\ IF decision.version = classifier[c].version THEN Branch(c, decision) ELSE ClassifierGoes(c, "failed")
    /\ UNCHANGED <<texts, decision, rationales>>

-----------------------------------------------------------------------------
(* T03.  The row keeps its id when it is replaced: the decision is read    *)
(* again by that id, and so is an explanation.                             *)

ReadDecision(c) ==
    /\ ClassifierAt(c, "rationale")
    /\ \E why \in rationales \cup {NoVersion} :
          /\ why = NoVersion => rationales = {}
          /\ classifier' = [classifier EXCEPT ![c].verdict = decision, ![c].why = why,
                                              ![c].at = IF why = NoVersion THEN "source" ELSE "done"]
    /\ UNCHANGED <<texts, decision, rationales>>

\* The fingerprint is made without the options of T02.
StaleSnapshot(c) == IncludeBody \/ Len(texts) # classifier[c].verdict.version

CheckSnapshot(c) ==
    /\ ClassifierAt(c, "source")
    /\ ClassifierGoes(c, IF StaleSnapshot(c) THEN "failed" ELSE "explain")
    /\ UNCHANGED <<texts, decision, rationales>>

\* The store looks once more before it inserts.
CreateRationale(c) ==
    /\ ClassifierAt(c, "explain")
    /\ LET version == classifier[c].verdict.version
       IN  \E why \in IF rationales = {} THEN {version} ELSE rationales :
              /\ rationales' = rationales \cup {why}
              /\ classifier' = [classifier EXCEPT ![c].why = why, ![c].at = "done"]
    /\ UNCHANGED <<texts, decision>>

\* The article is no longer published, the provider fails, the answer is invalid.
ClassifierFails(c) ==
    /\ classifier[c].at \in {"start", "vote", "rationale", "source", "explain"}
    /\ classifier' = [classifier EXCEPT ![c].at = "failed", ![c].votes = <<>>, ![c].verdict = NoDecision]
    /\ UNCHANGED <<texts, decision, rationales>>

RelevanceNext ==
    \/ EditArticle
    \/ \E c \in Classifiers :
          \/ ReadArticle(c) \/ ReuseDecision(c) \/ Vote(c) \/ CreateDecision(c) \/ RereadDecision(c)
          \/ ReadDecision(c) \/ CheckSnapshot(c) \/ CreateRationale(c) \/ ClassifierFails(c)

RelevanceSpec == RelevanceInit /\ [][RelevanceNext]_relevanceVars

-----------------------------------------------------------------------------
(* An issue is formed for a reason that is in the text: the company or a   *)
(* listed rival is named, or a market signal has a hook in the context.    *)
(* And most of the votes asked for it, unless an event or an action of a   *)
(* peer did.                                                               *)
ContinuesForAReason ==
    \A c \in Classifiers :
        LET call == classifier[c]
            made == FinalVerdict(texts[call.version], call.votes)
        IN  call.at = "create" /\ FormsIssue(made) =>
                LET text == texts[call.version]
                IN  /\ CASE made.relation = "self" -> "self" \in text
                         [] made.relation = "competitor" -> {"rival", "listed"} \subseteq text
                         [] OTHER -> Hook(text)
                    /\ \/ Majority(call.votes, LAMBDA v : Continuing(v.relevance))
                       \/ made.relation = "market" /\ ("bridge" \in text \/ PeerAction(text))

(* A classification acts on a verdict about the text that it read, however *)
(* often the article is edited and the one row replaced meanwhile.         *)
VerdictIsOfItsText ==
    \A c \in Classifiers :
        classifier[c].at \in {"stopped", "rationale"} => classifier[c].verdict.version = classifier[c].version

(* The explanation a pipeline is given is one of the decision it asked     *)
(* about (service.js: T03 refuses when the snapshot is stale).  The code   *)
(* does not keep this: a decision that is classified again under the same  *)
(* id keeps the explanation of its earlier verdict.                        *)
RationaleFitsDecision ==
    \A c \in Classifiers :
        classifier[c].at = "done" => classifier[c].why = classifier[c].verdict.version

(* The safety of T02 and T03: what continues does so for a reason, on a    *)
(* verdict about the text that was read.                                   *)
RelevanceSafe == RelevanceTypeOK /\ ContinuesForAReason /\ VerdictIsOfItsText
=============================================================================

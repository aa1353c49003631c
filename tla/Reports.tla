------------------------------- MODULE Reports -------------------------------
(***************************************************************************)
(* A report from its draft to its publication: T13 writes the narrative of *)
(* a draft, people rewrite spans of it with T14, submit it for review,     *)
(* approve it and share it.                                                *)
(*                                                                         *)
(* The report is one row of ai.reports, with a version that every write    *)
(* adds to; the narrative is a row of ai.report_versions, and each rewrite *)
(* inserts the next one, under UNIQUE (report_id, version).  A call stops  *)
(* at every statement, at the model and at the publisher.                  *)
(***************************************************************************)
EXTENDS Naturals, Sequences, FiniteSets

CONSTANTS Narrators,   \* calls of T13 for the report
          Rewriters,   \* calls of T14
          Reviewers    \* requests of people to submit, approve or share

VARIABLES report,      \* the row of ai.reports
          narratives,  \* the rows of ai.report_versions: by which call, in order of version
          published,   \* the versions of the narrative the publisher was given
          approved,    \* history: the version that was approved, or 0
          overwritten, \* history: a failed T13 wrote over a report that had moved on
          author       \* where each call is

reportVars == <<report, narratives, published, approved, overwritten, author>>

\* Mutant: what is in review may be shared.
Shortcut == [submit_review |-> [from |-> "draft",     to |-> "in_review"],
             approve       |-> [from |-> "in_review", to |-> "approved"],
             share         |-> [from |-> "in_review", to |-> "shared"]]
TRANSITIONS == [submit_review |-> [from |-> "draft",     to |-> "in_review"],
                approve       |-> [from |-> "in_review", to |-> "approved"],
                share         |-> [from |-> "approved",  to |-> "shared"]]
Actions == DOMAIN TRANSITIONS

\* "activity" is the list of the actions of people that the row holds.
Report == [status : {"draft", "in_review", "approved", "shared", "needs_review"},
           version : Nat \ {0}, activity : Seq(Actions)]
Author == [at : {"start", "find", "write", "create", "read", "spoil", "narrative", "publish",
                 "persist", "apply", "over"},
           report : Report, seen : Nat, action : Actions]

NewReport == [status |-> "draft", version |-> 1, activity |-> <<>>]
Fresh13 == [at |-> "start", report |-> NewReport, seen |-> 0, action |-> "share"]

\* The actions that lead to a status, in their order.
ActivityOf == [draft |-> <<>>, in_review |-> <<"submit_review">>,
               approved |-> <<"submit_review", "approve">>,
               shared |-> <<"submit_review", "approve", "share">>]

ReportsTypeOK ==
    /\ report \in Report
    /\ narratives \in Seq(Narrators \cup Rewriters)
    /\ published \in Seq(1 .. Len(narratives))
    /\ approved \in 0 .. Len(narratives) /\ overwritten \in BOOLEAN
    /\ author \in [Narrators \cup Rewriters \cup Reviewers -> Author]

ReportsInit ==
    /\ report = NewReport
    /\ narratives = <<>> /\ published = <<>> /\ approved = 0 /\ overwritten = FALSE
    /\ author = [k \in Narrators \cup Rewriters \cup Reviewers |-> Fresh13]

Turn(k, from, to) == author[k].at = from /\ author' = [author EXCEPT ![k].at = to]
Stop(k) == author' = [author EXCEPT ![k] = [Fresh13 EXCEPT !.at = "over"]]
Written == UNCHANGED <<narratives, published, approved, overwritten>>

-----------------------------------------------------------------------------
(* ReportNarrativeService.generate                                         *)

StartNarrative(k) ==
    /\ Turn(k, "start", IF report.status = "draft" THEN "find" ELSE "over")
    /\ Written /\ UNCHANGED report

FindNarrative(k) ==
    /\ Turn(k, "find", IF narratives = <<>> THEN "write" ELSE "over")
    /\ Written /\ UNCHANGED report

\* The pack is valid, and so is what the model wrote; or else it throws.
WriteNarrative(k) ==
    /\ \/ Turn(k, "write", "create") \/ Turn(k, "write", "read")
    /\ Written /\ UNCHANGED report

\* A narrative that another call inserted is reused, or, if it was inserted after
\* the read, makes the INSERT fail.
CreateNarrative(k) ==
    /\ IF narratives = <<>>
       THEN Turn(k, "create", "over") /\ narratives' = <<k>>
       ELSE (Turn(k, "create", "over") \/ Turn(k, "create", "read")) /\ UNCHANGED narratives
    /\ UNCHANGED <<report, published, approved, overwritten>>

\* markNarrativeInvalid reads the row and then writes all of it, whatever it holds by then.
ReadForInvalid(k) ==
    /\ author[k].at = "read"
    /\ author' = [author EXCEPT ![k].at = "spoil", ![k].report = report]
    /\ Written /\ UNCHANGED report

MarkNarrativeInvalid(k) ==
    /\ author[k].at = "spoil" /\ Stop(k)
    /\ report' = [author[k].report EXCEPT !.status = "needs_review", !.version = @ + 1]
    /\ overwritten' = (overwritten \/ report.version # author[k].report.version)
    /\ UNCHANGED <<narratives, published, approved>>

-----------------------------------------------------------------------------
(* ConstrainedRewriteService.rewrite                                       *)

\* The person rewrites the version they have seen.
StartRewrite(k) ==
    /\ author[k].at = "start"
    /\ \E v \in 1 .. Len(narratives) :
          IF report.status = "draft" THEN author' = [author EXCEPT ![k].at = "apply", ![k].seen = v]
          ELSE Stop(k)
    /\ Written /\ UNCHANGED report

\* The report is not looked at again.  The next version may exist by now.
ApplyConstrainedRewrite(k) ==
    /\ author[k].at = "apply" /\ Stop(k)
    /\ narratives' = IF Len(narratives) = author[k].seen THEN Append(narratives, k) ELSE narratives
    /\ UNCHANGED <<report, published, approved, overwritten>>

\* The model fails, or the host dies: nothing is written.
RewriteFails(k) ==
    /\ author[k].at = "apply" /\ Stop(k)
    /\ Written /\ UNCHANGED report

-----------------------------------------------------------------------------
(* ReportLifecycleService                                                  *)

\* _loadAndAuthorize and _assertTransition; the client has seen some version, and
\* is refused unless it is the one that is there.
StartReview(k) ==
    /\ author[k].at = "start"
    /\ \E action \in Actions :
          /\ report.status = TRANSITIONS[action].from
          /\ author' = [author EXCEPT ![k].at = "narrative", ![k].action = action, ![k].report = report]
    /\ Written /\ UNCHANGED report

\* Mutant: any report may be submitted.
NoNeed(k) == TRUE
HasNarrative(k) == narratives # <<>>

CheckNarrative(k) ==
    /\ HasNarrative(k)
    /\ author[k].at = "narrative"
    /\ author' = [author EXCEPT ![k].seen = Len(narratives),
                               ![k].at = IF author[k].action = "share" THEN "publish" ELSE "persist"]
    /\ Written /\ UNCHANGED report

\* The narrative goes out before the transition is written.
Share(k) ==
    /\ Turn(k, "publish", "persist")
    /\ published' = Append(published, author[k].seen)
    /\ UNCHANGED <<report, narratives, approved, overwritten>>

\* Mutant: the update does not ask for the version.
Whatever(k) == TRUE
Expected(k) == report.version = author[k].report.version

\* UPDATE ... WHERE version = expected: the row keeps what the call read, but for
\* its own action.  The status is not asked for again.
PersistTransition(k) ==
    /\ author[k].at = "persist" /\ Expected(k) /\ Stop(k)
    /\ report' = [report EXCEPT !.status = TRANSITIONS[author[k].action].to, !.version = @ + 1,
                                !.activity = Append(@, author[k].action)]
    /\ approved' = IF author[k].action = "approve" THEN author[k].seen ELSE approved
    /\ UNCHANGED <<narratives, published, overwritten>>

\* There is no narrative, the version conflicts, a statement or the publisher
\* fails, or the host dies.
ReviewRefused(k) ==
    /\ author[k].at \in {"narrative", "publish", "persist"} /\ Stop(k)
    /\ Written /\ UNCHANGED report

ReportsNext ==
    \/ \E k \in Narrators : \/ StartNarrative(k) \/ FindNarrative(k) \/ WriteNarrative(k)
                          \/ CreateNarrative(k) \/ ReadForInvalid(k) \/ MarkNarrativeInvalid(k)
    \/ \E k \in Rewriters : StartRewrite(k) \/ ApplyConstrainedRewrite(k) \/ RewriteFails(k)
    \/ \E k \in Reviewers : \/ StartReview(k) \/ CheckNarrative(k) \/ Share(k)
                          \/ PersistTransition(k) \/ ReviewRefused(k)

ReportsSpec == ReportsInit /\ [][ReportsNext]_reportVars

-----------------------------------------------------------------------------
(* Nothing goes out that nobody approved: whatever is published, there is  *)
(* a narrative that was approved before.                                   *)
PublishedWasApproved == published # <<>> => approved > 0

(* What is submitted, approved or shared has a narrative to be read.       *)
ReviewedHasNarrative ==
    report.status \in {"in_review", "approved", "shared"} => narratives # <<>>

(* The activity of a report tells how it came to its status: each action   *)
(* once and in order, whichever requests ran at the same time; unless a    *)
(* failed T13 wrote the row back as it was before.                         *)
ActivityTellsStatus ==
    overwritten \/ report.status = "needs_review" \/ report.activity = ActivityOf[report.status]

(* "Only an approved report may be shared, and editing an approved report  *)
(* makes a new version that goes back to review": what is published is the *)
(* version of the narrative that was approved.  The code does not keep     *)
(* this: a rewrite that started before the approval may land after it.     *)
SharedAsApproved == \A i \in DOMAIN published : published[i] = approved

(* The safety of reports: whatever reviewers, writers and shares overlap,  *)
(* only an approved report is published, one under review has a narrative, *)
(* and the activity tells how it came to its status.  SharedAsApproved is  *)
(* not among the parts: it does not hold.                                  *)
ReportsSafe == ReportsTypeOK /\ PublishedWasApproved /\ ReviewedHasNarrative /\ ActivityTellsStatus
=============================================================================

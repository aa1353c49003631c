----------------------------- MODULE TaskProofs -----------------------------
(***************************************************************************)
(* What the tasks of a pipeline promise, for any number of articles,       *)
(* pipelines, people and calls: reports, the classification of articles,   *)
(* the reading of their sources, the analysis of issues, and the limiter   *)
(* of the model calls.  Each is proved on its own, as they share no        *)
(* variable.                                                               *)
(***************************************************************************)
EXTENDS MCTasks, SequenceTheorems, FiniteSetTheorems, WellFoundedInduction, TLAPS

-----------------------------------------------------------------------------
(* Reports.  A call that waits to write holds the report as it read it,    *)
(* and while no call has written over it, the version tells whether that   *)
(* is still the report there is.                                           *)

ReportCalls == Narrators \cup Rewriters \cup Reviewers
Reviewing == {"narrative", "publish", "persist"}

\* What a call holds: what is about to go out or to be written was looked at; a
\* request began where its action may begin, and only a share publishes.
NarrativeSeen(h) == h.at \in {"publish", "persist"} => h.seen \in 1 .. Len(narratives)
BeganInOrder(h) ==
    /\ h.at = "publish" => h.action = "share"
    /\ h.at \in Reviewing => /\ h.report.status = TRANSITIONS[h.action].from
                             /\ h.action = "share" => approved > 0

\* One version, one report.
HoldsReport(h) ==
    ~overwritten /\ h.at \in Reviewing \cup {"spoil"} =>
        /\ h.report.version <= report.version
        /\ h.report.version = report.version => h.report = report

CallHolds(h) == NarrativeSeen(h) /\ BeganInOrder(h) /\ HoldsReport(h)
ApprovalIsRecorded == report.status \in {"approved", "shared"} => approved > 0

ReportsInv ==
    /\ ReportsTypeOK /\ ApprovalIsRecorded
    /\ \A k \in ReportCalls : CallHolds(author[k])
    /\ PublishedWasApproved /\ ReviewedHasNarrative /\ ActivityTellsStatus

\* The three transitions.
LEMMA TransitionsOfReports ==
    /\ Actions = {"submit_review", "approve", "share"}
    /\ TRANSITIONS["submit_review"].from = "draft" /\ TRANSITIONS["submit_review"].to = "in_review"
    /\ TRANSITIONS["approve"].from = "in_review" /\ TRANSITIONS["approve"].to = "approved"
    /\ TRANSITIONS["share"].from = "approved" /\ TRANSITIONS["share"].to = "shared"
BY DEF Actions, TRANSITIONS

\* One more action after one and after two.
LEMMA AppendSecond ==
    ASSUME NEW a, NEW b
    PROVE  Append(<<a>>, b) = <<a, b>>
<1>. SUFFICES ASSUME NEW s, s = Append(<<a>>, b), NEW t, t = <<a, b>> PROVE s = t
  OBVIOUS
<1>1. s \in Seq({a, b}) /\ Len(s) = 2 /\ s[1] = a /\ s[2] = b
  <2>1. <<a>> \in Seq({a, b}) /\ Len(<<a>>) = 1 /\ <<a>>[1] = a
    OBVIOUS
  <2>. QED
    BY <2>1
<1>2. t \in Seq({a, b}) /\ Len(t) = 2 /\ t[1] = a /\ t[2] = b
  OBVIOUS
<1>3. \A i \in 1 .. 2 : i = 1 \/ i = 2
  OBVIOUS
<1>. QED
  BY <1>1, <1>2, <1>3, SeqEqual

\* (See AppendSecond.)
LEMMA AppendThird ==
    ASSUME NEW a, NEW b, NEW c
    PROVE  Append(<<a, b>>, c) = <<a, b, c>>
<1>. SUFFICES ASSUME NEW s, s = Append(<<a, b>>, c), NEW t, t = <<a, b, c>> PROVE s = t
  OBVIOUS
<1>1. s \in Seq({a, b, c}) /\ Len(s) = 3 /\ s[1] = a /\ s[2] = b /\ s[3] = c
  <2>1. <<a, b>> \in Seq({a, b, c}) /\ Len(<<a, b>>) = 2 /\ <<a, b>>[1] = a /\ <<a, b>>[2] = b
    OBVIOUS
  <2>. QED
    BY <2>1
<1>2. t \in Seq({a, b, c}) /\ Len(t) = 3 /\ t[1] = a /\ t[2] = b /\ t[3] = c
  OBVIOUS
<1>3. \A i \in 1 .. 3 : i = 1 \/ i = 2 \/ i = 3
  OBVIOUS
<1>. QED
  BY <1>1, <1>2, <1>3, SeqEqual

\* A call moves on, and the report and its narratives rest.
LEMMA CallMoves ==
    ASSUME ReportsInv, UNCHANGED <<report, narratives, approved, overwritten>>,
           published' \in Seq(1 .. Len(narratives)), published' # <<>> => approved > 0,
           NEW k \in ReportCalls, NEW h \in Author, CallHolds(h),
           author' = [author EXCEPT ![k] = h]
    PROVE  ReportsInv'
<1>1. author \in [ReportCalls -> Author]
  BY DEF ReportsInv, ReportsTypeOK, ReportCalls
<1>2. ReportsTypeOK'
  BY <1>1 DEF ReportsInv, ReportsTypeOK, ReportCalls
<1>3. \A g : CallHolds(g) => CallHolds(g)'
  BY DEF CallHolds, NarrativeSeen, BeganInOrder, HoldsReport
<1>4. ASSUME NEW q \in ReportCalls PROVE CallHolds(author[q])'
  <2>1. author'[q] = IF q = k THEN h ELSE author[q]
    BY <1>1
  <2>2. CallHolds(IF q = k THEN h ELSE author[q])
    BY DEF ReportsInv
  <2>. SUFFICES ASSUME NEW g, g = author'[q] PROVE CallHolds(g)'
    BY DEF CallHolds, NarrativeSeen, BeganInOrder, HoldsReport
  <2>. QED
    BY <1>3, <2>1, <2>2
<1>. QED
  BY <1>2, <1>4 DEF ReportsInv, ApprovalIsRecorded, PublishedWasApproved, ReviewedHasNarrative,
                   ActivityTellsStatus

\* A call goes somewhere it holds nothing.
LEMMA CallRests ==
    ASSUME ReportsInv, UNCHANGED <<report, narratives, approved, overwritten, published>>,
           NEW k \in ReportCalls, NEW at \in {"start", "find", "write", "create", "read", "apply", "over"},
           author' = [author EXCEPT ![k].at = at]
    PROVE  ReportsInv'
<1>1. author \in [ReportCalls -> Author] /\ author[k] \in Author
  BY DEF ReportsInv, ReportsTypeOK, ReportCalls
<1>. SUFFICES ASSUME NEW h, h = [author[k] EXCEPT !.at = at] PROVE ReportsInv'
  OBVIOUS
<1>2. h \in Author /\ h.at = at
  BY <1>1 DEF Author
<1>3. CallHolds(h)
  BY <1>2 DEF CallHolds, NarrativeSeen, BeganInOrder, HoldsReport, Reviewing
<1>4. author' = [author EXCEPT ![k] = h]
  OBVIOUS
<1>5. published' \in Seq(1 .. Len(narratives)) /\ (published' # <<>> => approved > 0)
  BY DEF ReportsInv, ReportsTypeOK, PublishedWasApproved
<1>. QED
  BY <1>2, <1>3, <1>4, <1>5, CallMoves

\* A call ends.
LEMMA CallEnds ==
    ASSUME ReportsInv, NEW k \in ReportCalls, Stop(k)
    PROVE  /\ author' \in [ReportCalls -> Author] /\ author'[k].at = "over"
           /\ \A q \in ReportCalls \ {k} : author'[q] = author[q]
<1>1. author \in [ReportCalls -> Author]
  BY DEF ReportsInv, ReportsTypeOK, ReportCalls
<1>2. [Fresh13 EXCEPT !.at = "over"] \in Author /\ [Fresh13 EXCEPT !.at = "over"].at = "over"
  <2>1. NewReport \in Report
    BY DEF NewReport, Report
  <2>2. "share" \in Actions
    BY TransitionsOfReports
  <2>. QED
    BY <2>1, <2>2 DEF Fresh13, Author
<1>. QED
  BY <1>1, <1>2 DEF Stop

\* A call ends and writes nothing.
LEMMA CallStops ==
    ASSUME ReportsInv, UNCHANGED <<report, narratives, approved, overwritten, published>>,
           NEW k \in ReportCalls, Stop(k)
    PROVE  ReportsInv'
<1>. SUFFICES ASSUME NEW h, h = [Fresh13 EXCEPT !.at = "over"] PROVE ReportsInv'
  OBVIOUS
<1>1. author' = [author EXCEPT ![k] = h] /\ author \in [ReportCalls -> Author]
  BY DEF Stop, ReportsInv, ReportsTypeOK, ReportCalls
<1>2. h \in Author /\ h.at = "over"
  BY <1>1, CallEnds
<1>3. CallHolds(h)
  BY <1>2 DEF CallHolds, NarrativeSeen, BeganInOrder, HoldsReport, Reviewing
<1>4. published' \in Seq(1 .. Len(narratives)) /\ (published' # <<>> => approved > 0)
  BY DEF ReportsInv, ReportsTypeOK, PublishedWasApproved
<1>. QED
  BY <1>1, <1>2, <1>3, <1>4, CallMoves

\* A narrative is added: by T13 the first, by T14 the next.
LEMMA NarrativeAdded ==
    ASSUME ReportsInv, UNCHANGED <<report, published, approved, overwritten>>,
           NEW k \in Narrators \cup Rewriters, narratives' = Append(narratives, k),
           NEW at \in {"apply", "over"},
           author' = [author EXCEPT ![k].at = at] \/ Stop(k)
    PROVE  ReportsInv'
<1>1. /\ narratives \in Seq(Narrators \cup Rewriters) /\ author \in [ReportCalls -> Author]
      /\ published \in Seq(1 .. Len(narratives)) /\ approved \in 0 .. Len(narratives)
      /\ report \in Report /\ overwritten \in BOOLEAN /\ k \in ReportCalls
  BY DEF ReportsInv, ReportsTypeOK, ReportCalls
<1>2. /\ narratives' \in Seq(Narrators \cup Rewriters) /\ Len(narratives') = Len(narratives) + 1
      /\ Len(narratives) \in Nat
  BY <1>1
<1>3. /\ author' \in [ReportCalls -> Author] /\ author'[k].at \in {"apply", "over"}
      /\ \A q \in ReportCalls \ {k} : author'[q] = author[q]
  <2>1. CASE author' = [author EXCEPT ![k].at = at]
    BY <1>1, <2>1 DEF Author
  <2>2. CASE Stop(k)
    BY <1>1, <2>2, CallEnds
  <2>. QED
    BY <2>1, <2>2
<1>4. 1 .. Len(narratives) \subseteq 1 .. Len(narratives') /\ approved \in 0 .. Len(narratives')
  BY <1>1, <1>2
<1>5. published' \in Seq(1 .. Len(narratives'))
  BY <1>1, <1>4
<1>6. ReportsTypeOK'
  BY <1>1, <1>2, <1>3, <1>4, <1>5 DEF ReportsTypeOK, ReportCalls
<1>7. ASSUME NEW q \in ReportCalls PROVE CallHolds(author[q])'
  <2>1. CASE q = k
    BY <1>3, <2>1 DEF CallHolds, NarrativeSeen, BeganInOrder, HoldsReport, Reviewing
  <2>2. CASE q # k
    <3>1. author'[q] = author[q] /\ CallHolds(author[q])
      BY <1>3, <2>2 DEF ReportsInv
    <3>. QED
      BY <1>4, <3>1 DEF CallHolds, NarrativeSeen, BeganInOrder, HoldsReport
  <2>. QED
    BY <2>1, <2>2
<1>8. narratives' # <<>>
  BY <1>2
<1>. QED
  BY <1>6, <1>7, <1>8 DEF ReportsInv, ApprovalIsRecorded, PublishedWasApproved, ReviewedHasNarrative,
                          ActivityTellsStatus

\* The report is written: the calls that hold it are behind it from now on, unless
\* it was overwritten.
LEMMA ReportWritten ==
    ASSUME ReportsInv, UNCHANGED <<narratives, published>>, NEW k \in ReportCalls, Stop(k),
           report' \in Report, approved' \in 0 .. Len(narratives), approved > 0 => approved' > 0,
           overwritten' \in BOOLEAN, overwritten => overwritten',
           ~overwritten' => report'.version > report.version,
           ApprovalIsRecorded', ReviewedHasNarrative', ActivityTellsStatus'
    PROVE  ReportsInv'
<1>1. /\ author' \in [ReportCalls -> Author] /\ author'[k].at = "over"
      /\ \A q \in ReportCalls \ {k} : author'[q] = author[q]
  BY CallEnds
<1>2. ReportsTypeOK'
  BY <1>1 DEF ReportsInv, ReportsTypeOK, ReportCalls
<1>3. /\ author \in [ReportCalls -> Author] /\ report \in Report
      /\ report.version \in Nat /\ report'.version \in Nat
  BY DEF ReportsInv, ReportsTypeOK, ReportCalls, Report
<1>4. ASSUME NEW q \in ReportCalls PROVE CallHolds(author[q])'
  <2>1. CASE q = k
    BY <1>1, <2>1 DEF CallHolds, NarrativeSeen, BeganInOrder, HoldsReport, Reviewing
  <2>2. CASE q # k
    <3>1. author'[q] = author[q] /\ CallHolds(author[q])
      BY <1>1, <2>2 DEF ReportsInv
    <3>2. NarrativeSeen(author[q])' /\ BeganInOrder(author[q])'
      BY <3>1 DEF CallHolds, NarrativeSeen, BeganInOrder
    <3>3. author[q].report.version \in Nat
      BY <1>3 DEF Author, Report
    <3>4. HoldsReport(author[q])'
      BY <1>3, <3>1, <3>3 DEF CallHolds, HoldsReport
    <3>. QED
      BY <3>2, <3>4 DEF CallHolds
  <2>. QED
    BY <2>1, <2>2
<1>5. PublishedWasApproved'
  BY DEF ReportsInv, PublishedWasApproved
<1>. QED
  BY <1>2, <1>4, <1>5 DEF ReportsInv

\* T13.
LEMMA NarratorKeeps ==
    ASSUME ReportsInv, NEW k \in Narrators,
           \/ StartNarrative(k) \/ FindNarrative(k) \/ WriteNarrative(k)
           \/ CreateNarrative(k) \/ ReadForInvalid(k) \/ MarkNarrativeInvalid(k)
    PROVE  ReportsInv'
<1>. k \in ReportCalls /\ author \in [ReportCalls -> Author]
  BY DEF ReportsInv, ReportsTypeOK, ReportCalls
<1>1. CASE StartNarrative(k) \/ FindNarrative(k) \/ WriteNarrative(k)
  BY <1>1, CallRests DEF StartNarrative, FindNarrative, WriteNarrative, Turn, Written
<1>2. CASE CreateNarrative(k)
  <2>1. CASE narratives = <<>>
    <3>1. narratives' = Append(narratives, k)
      BY <1>2, <2>1 DEF CreateNarrative
    <3>. QED
      BY <1>2, <2>1, <3>1, NarrativeAdded DEF CreateNarrative, Turn
  <2>2. CASE narratives # <<>>
    BY <1>2, <2>2, CallRests DEF CreateNarrative, Turn
  <2>. QED
    BY <2>1, <2>2
<1>3. CASE ReadForInvalid(k)
  <2>. SUFFICES ASSUME NEW h, h = [author[k] EXCEPT !.at = "spoil", !.report = report]
                PROVE  ReportsInv'
    OBVIOUS
  <2>1. author' = [author EXCEPT ![k] = h]
    BY <1>3 DEF ReadForInvalid
  <2>2. h \in Author /\ h.at = "spoil" /\ h.report = report
    BY DEF ReportsInv, ReportsTypeOK, Author
  <2>3. CallHolds(h)
    BY <2>2 DEF ReportsInv, ReportsTypeOK, Report, CallHolds, NarrativeSeen, BeganInOrder,
                HoldsReport, Reviewing
  <2>4. published' \in Seq(1 .. Len(narratives)) /\ (published' # <<>> => approved > 0)
    BY <1>3 DEF ReportsInv, ReportsTypeOK, PublishedWasApproved, ReadForInvalid, Written
  <2>. QED
    BY <1>3, <2>1, <2>2, <2>3, <2>4, CallMoves DEF ReadForInvalid, Written
<1>4. CASE MarkNarrativeInvalid(k)
  <2>1. author[k].report \in Report /\ author[k].at = "spoil" /\ CallHolds(author[k])
    BY <1>4 DEF ReportsInv, Author, MarkNarrativeInvalid
  <2>2. /\ report' \in Report /\ report'.status = "needs_review"
        /\ report'.version = author[k].report.version + 1
    <3>1. ASSUME NEW r \in Report, NEW new,
                 new = [r EXCEPT !.status = "needs_review", !.version = @ + 1]
          PROVE  new \in Report /\ new.status = "needs_review" /\ new.version = r.version + 1
      <4>1. r.version \in Nat /\ r.version + 1 \in Nat \ {0}
        BY DEF Report
      <4>. QED
        BY <3>1, <4>1 DEF Report
    <3>2. report' = [author[k].report EXCEPT !.status = "needs_review", !.version = @ + 1]
      BY <1>4 DEF MarkNarrativeInvalid
    <3>. QED
      BY <2>1, <3>1, <3>2
  <2>3. ~overwritten' => report'.version > report.version
    <3>1. ~overwritten' => report.version = author[k].report.version
      BY <1>4 DEF MarkNarrativeInvalid
    <3>2. author[k].report.version \in Nat
      BY <2>1 DEF Report
    <3>. QED
      BY <2>2, <3>1, <3>2
  <2>4. overwritten \in BOOLEAN /\ overwritten' \in BOOLEAN /\ (overwritten => overwritten')
    BY <1>4 DEF ReportsInv, ReportsTypeOK, MarkNarrativeInvalid
  <2>5. approved' = approved /\ approved \in 0 .. Len(narratives)
    BY <1>4 DEF ReportsInv, ReportsTypeOK, MarkNarrativeInvalid
  <2>6. ApprovalIsRecorded' /\ ReviewedHasNarrative' /\ ActivityTellsStatus'
    BY <2>2 DEF ApprovalIsRecorded, ReviewedHasNarrative, ActivityTellsStatus
  <2>. QED
    BY <1>4, <2>2, <2>3, <2>4, <2>5, <2>6, ReportWritten DEF MarkNarrativeInvalid
<1>. QED
  BY <1>1, <1>2, <1>3, <1>4

\* T14.
LEMMA RewriterKeeps ==
    ASSUME ReportsInv, NEW k \in Rewriters,
           StartRewrite(k) \/ ApplyConstrainedRewrite(k) \/ RewriteFails(k)
    PROVE  ReportsInv'
<1>. k \in ReportCalls /\ author \in [ReportCalls -> Author]
  BY DEF ReportsInv, ReportsTypeOK, ReportCalls
<1>1. CASE StartRewrite(k)
  <2>1. UNCHANGED <<report, narratives, approved, overwritten, published>>
    BY <1>1 DEF StartRewrite, Written
  <2>2. CASE Stop(k)
    BY <2>1, <2>2, CallStops
  <2>3. ASSUME NEW v \in 1 .. Len(narratives),
               author' = [author EXCEPT ![k].at = "apply", ![k].seen = v]
        PROVE  ReportsInv'
    <3>. SUFFICES ASSUME NEW h, h = [author[k] EXCEPT !.at = "apply", !.seen = v]
                  PROVE  ReportsInv'
      OBVIOUS
    <3>1. author' = [author EXCEPT ![k] = h]
      BY <2>3
    <3>2. h \in Author /\ h.at = "apply"
      <4>1. v \in Nat
        OBVIOUS
      <4>. QED
        BY <4>1 DEF Author
    <3>3. CallHolds(h)
      BY <3>2 DEF CallHolds, NarrativeSeen, BeganInOrder, HoldsReport, Reviewing
    <3>4. published' \in Seq(1 .. Len(narratives)) /\ (published' # <<>> => approved > 0)
      BY <2>1 DEF ReportsInv, ReportsTypeOK, PublishedWasApproved
    <3>. QED
      BY <2>1, <3>1, <3>2, <3>3, <3>4, CallMoves
  <2>. QED
    BY <1>1, <2>2, <2>3 DEF StartRewrite
<1>2. CASE ApplyConstrainedRewrite(k)
  BY <1>2, CallStops, NarrativeAdded DEF ApplyConstrainedRewrite
<1>3. CASE RewriteFails(k)
  BY <1>3, CallStops DEF RewriteFails, Written
<1>. QED
  BY <1>1, <1>2, <1>3

\* What people ask for.
LEMMA ReviewerKeeps ==
    ASSUME ReportsInv, NEW k \in Reviewers,
           StartReview(k) \/ CheckNarrative(k) \/ Share(k) \/ PersistTransition(k) \/ ReviewRefused(k)
    PROVE  ReportsInv'
<1>. k \in ReportCalls /\ author \in [ReportCalls -> Author] /\ author[k] \in Author
     /\ CallHolds(author[k])
  BY DEF ReportsInv, ReportsTypeOK, ReportCalls
<1>1. published \in Seq(1 .. Len(narratives)) /\ (published # <<>> => approved > 0)
      /\ narratives \in Seq(Narrators \cup Rewriters) /\ report \in Report
  BY DEF ReportsInv, ReportsTypeOK, PublishedWasApproved
<1>2. CASE StartReview(k)
  <2>1. PICK action \in Actions :
          /\ report.status = TRANSITIONS[action].from
          /\ author' = [author EXCEPT ![k].at = "narrative", ![k].action = action, ![k].report = report]
    BY <1>2 DEF StartReview
  <2>. SUFFICES ASSUME NEW h, h = [author[k] EXCEPT !.at = "narrative", !.action = action, !.report = report]
                PROVE  ReportsInv'
    OBVIOUS
  <2>2. author' = [author EXCEPT ![k] = h]
    BY <2>1
  <2>3. h \in Author /\ h.at = "narrative" /\ h.action = action /\ h.report = report
    BY <1>1 DEF Author
  <2>4. action = "share" => approved > 0
    BY <2>1, TransitionsOfReports DEF ReportsInv, ApprovalIsRecorded
  <2>5. CallHolds(h)
    BY <1>1, <2>1, <2>3, <2>4 DEF Report, CallHolds, NarrativeSeen, BeganInOrder, HoldsReport
  <2>. QED
    BY <1>1, <1>2, <2>2, <2>3, <2>5, CallMoves DEF StartReview, Written
<1>3. CASE CheckNarrative(k)
  <2>. SUFFICES ASSUME NEW at, at = IF author[k].action = "share" THEN "publish" ELSE "persist",
                       NEW h, h = [author[k] EXCEPT !.seen = Len(narratives), !.at = at]
                PROVE  ReportsInv'
    OBVIOUS
  <2>1. author' = [author EXCEPT ![k] = h] /\ author[k].at = "narrative" /\ narratives # <<>>
    BY <1>3 DEF CheckNarrative, HasNarrative
  <2>2. Len(narratives) \in 1 .. Len(narratives)
    BY <1>1, <2>1
  <2>3. /\ h \in Author /\ h.at = at /\ h.seen = Len(narratives)
        /\ h.action = author[k].action /\ h.report = author[k].report
    <3>1. at \in {"publish", "persist"} /\ Len(narratives) \in Nat
      BY <1>1
    <3>. QED
      BY <3>1 DEF Author
  <2>4. CallHolds(h)
    BY <2>1, <2>2, <2>3 DEF CallHolds, NarrativeSeen, BeganInOrder, HoldsReport, Reviewing
  <2>. QED
    BY <1>1, <1>3, <2>1, <2>3, <2>4, CallMoves DEF CheckNarrative, Written
<1>4. CASE Share(k)
  <2>. SUFFICES ASSUME NEW h, h = [author[k] EXCEPT !.at = "persist"] PROVE ReportsInv'
    OBVIOUS
  <2>1. /\ author' = [author EXCEPT ![k] = h] /\ author[k].at = "publish"
        /\ published' = Append(published, author[k].seen)
    BY <1>4 DEF Share, Turn
  <2>2. /\ h \in Author /\ h.at = "persist" /\ h.seen = author[k].seen
        /\ h.action = author[k].action /\ h.report = author[k].report
    BY DEF Author
  <2>3. author[k].seen \in 1 .. Len(narratives) /\ approved > 0
    BY <2>1 DEF CallHolds, NarrativeSeen, BeganInOrder, Reviewing
  <2>4. published' \in Seq(1 .. Len(narratives))
    BY <1>1, <2>1, <2>3
  <2>5. CallHolds(h)
    BY <2>1, <2>2 DEF CallHolds, NarrativeSeen, BeganInOrder, HoldsReport, Reviewing
  <2>. QED
    BY <1>4, <2>1, <2>2, <2>3, <2>4, <2>5, CallMoves DEF Share
<1>5. CASE PersistTransition(k)
  <2>. SUFFICES ASSUME NEW action, action = author[k].action PROVE ReportsInv'
    OBVIOUS
  <2>1. /\ author[k].at = "persist" /\ report.version = author[k].report.version
        /\ report' = [report EXCEPT !.status = TRANSITIONS[action].to, !.version = @ + 1,
                                    !.activity = Append(@, action)]
        /\ approved' = IF action = "approve" THEN author[k].seen ELSE approved
        /\ UNCHANGED <<narratives, published, overwritten>>
    BY <1>5 DEF PersistTransition, Expected
  <2>2. action \in Actions /\ author[k].seen \in 1 .. Len(narratives)
        /\ (action = "share" => approved > 0)
        /\ author[k].report.status = TRANSITIONS[action].from
    BY <2>1 DEF Author, CallHolds, NarrativeSeen, BeganInOrder, Reviewing
  <2>3. /\ report'.status = TRANSITIONS[action].to /\ report'.version = report.version + 1
        /\ report'.activity = Append(report.activity, action)
        /\ report.version \in Nat /\ report' \in Report
    <3>1. TRANSITIONS[action].to \in {"in_review", "approved", "shared"}
      BY <2>2, TransitionsOfReports
    <3>2. Append(report.activity, action) \in Seq(Actions)
      BY <1>1, <2>2 DEF Report
    <3>3. report.version \in Nat /\ report.version + 1 \in Nat \ {0}
      BY <1>1 DEF Report
    <3>. QED
      BY <1>1, <2>1, <3>1, <3>2, <3>3 DEF Report
  <2>4. approved \in 0 .. Len(narratives) /\ approved' \in 0 .. Len(narratives)
        /\ (approved > 0 => approved' > 0)
    BY <2>1, <2>2 DEF ReportsInv, ReportsTypeOK
  <2>5. ApprovalIsRecorded'
    BY <2>1, <2>2, <2>3, TransitionsOfReports DEF ApprovalIsRecorded
  <2>6. ReviewedHasNarrative'
    BY <1>1, <2>1, <2>2 DEF ReviewedHasNarrative
  <2>7. ActivityTellsStatus'
    <3>. SUFFICES ASSUME ~overwritten PROVE report'.activity = ActivityOf[report'.status]
      BY <2>1 DEF ActivityTellsStatus
    <3>1. report = author[k].report
      BY <2>1 DEF CallHolds, HoldsReport, Reviewing
    <3>2. report.status = TRANSITIONS[action].from
      BY <2>2, <3>1
    <3>3. report.activity = ActivityOf[report.status]
      BY <2>2, <3>2, TransitionsOfReports DEF ReportsInv, ActivityTellsStatus
    <3>4. /\ Append(<<>>, "submit_review") = <<"submit_review">>
          /\ Append(<<"submit_review">>, "approve") = <<"submit_review", "approve">>
          /\ Append(<<"submit_review", "approve">>, "share") = <<"submit_review", "approve", "share">>
      BY AppendSecond, AppendThird
    <3>5. CASE action = "submit_review"
      BY <2>3, <3>2, <3>3, <3>4, <3>5, TransitionsOfReports DEF ActivityOf
    <3>6. CASE action = "approve"
      BY <2>3, <3>2, <3>3, <3>4, <3>6, TransitionsOfReports DEF ActivityOf
    <3>7. CASE action = "share"
      BY <2>3, <3>2, <3>3, <3>4, <3>7, TransitionsOfReports DEF ActivityOf
    <3>. QED
      BY <2>2, <3>5, <3>6, <3>7, TransitionsOfReports
  <2>8. overwritten \in BOOLEAN /\ overwritten' \in BOOLEAN /\ Stop(k)
    BY <1>5, <2>1 DEF ReportsInv, ReportsTypeOK, PersistTransition
  <2>. QED
    BY <2>1, <2>3, <2>4, <2>5, <2>6, <2>7, <2>8, ReportWritten
<1>6. CASE ReviewRefused(k)
  BY <1>6, CallStops DEF ReviewRefused, Written
<1>. QED
  BY <1>2, <1>3, <1>4, <1>5, <1>6

\* The invariant holds at the start, and every step keeps it.
LEMMA ReportsInvariant == ReportsSpec => []ReportsInv
<1>1. ReportsInit => ReportsInv
  <2>. SUFFICES ASSUME ReportsInit PROVE ReportsInv
    OBVIOUS
  <2>1. report = NewReport /\ NewReport \in Report /\ NewReport.status = "draft"
        /\ NewReport.activity = <<>>
    BY DEF ReportsInit, NewReport, Report
  <2>2. Fresh13 \in Author /\ Fresh13.at = "start"
    <3>1. "share" \in Actions
      BY TransitionsOfReports
    <3>. QED
      BY <2>1, <3>1 DEF Fresh13, Author
  <2>3. ReportsTypeOK
    <3>1. narratives = <<>> /\ published = <<>> /\ approved = 0 /\ overwritten = FALSE
      BY DEF ReportsInit
    <3>2. Len(<<>>) = 0
      OBVIOUS
    <3>3. narratives \in Seq(Narrators \cup Rewriters) /\ published \in Seq(1 .. Len(narratives))
      BY <3>1
    <3>4. approved \in 0 .. Len(narratives) /\ overwritten \in BOOLEAN
      <4>1. Len(narratives) = 0
        BY <3>1, <3>2
      <4>2. approved = 0 /\ overwritten = FALSE
        BY <3>1
      <4>3. overwritten \in BOOLEAN
        BY <4>2
      <4>4. approved \in 0 .. Len(narratives)
        BY <4>1, <4>2
      <4>. QED
        BY <4>3, <4>4
    <3>5. author \in [Narrators \cup Rewriters \cup Reviewers -> Author]
      BY <2>2 DEF ReportsInit
    <3>. QED
      BY <2>1, <3>3, <3>4, <3>5 DEF ReportsTypeOK
  <2>4. \A k \in ReportCalls : CallHolds(author[k])
    BY <2>2 DEF ReportsInit, ReportCalls, CallHolds, NarrativeSeen, BeganInOrder, HoldsReport, Reviewing
  <2>5. ApprovalIsRecorded /\ PublishedWasApproved /\ ReviewedHasNarrative
    BY <2>1 DEF ReportsInit, ApprovalIsRecorded, PublishedWasApproved, ReviewedHasNarrative
  <2>6. ActivityTellsStatus
    BY <2>1 DEF ActivityTellsStatus, ActivityOf
  <2>. QED
    BY <2>3, <2>4, <2>5, <2>6 DEF ReportsInv
<1>2. ReportsInv /\ [ReportsNext]_reportVars => ReportsInv'
  <2>. SUFFICES ASSUME ReportsInv, [ReportsNext]_reportVars PROVE ReportsInv'
    OBVIOUS
  <2>1. CASE UNCHANGED reportVars
    <3>1. UNCHANGED <<report, narratives, published, approved, overwritten, author>>
      BY <2>1 DEF reportVars
    <3>2. ReportsTypeOK'
      BY <3>1 DEF ReportsInv, ReportsTypeOK
    <3>3. \A k \in ReportCalls : CallHolds(author[k])'
      BY <3>1 DEF ReportsInv, CallHolds, NarrativeSeen, BeganInOrder, HoldsReport
    <3>. QED
      BY <3>1, <3>2, <3>3 DEF ReportsInv, ApprovalIsRecorded, PublishedWasApproved,
                              ReviewedHasNarrative, ActivityTellsStatus
  <2>. QED
    BY <2>1, NarratorKeeps, RewriterKeeps, ReviewerKeeps DEF ReportsNext
<1>. QED
  BY <1>1, <1>2, PTL DEF ReportsSpec

\* Only an approved report goes out, one under review has a narrative, and the
\* activity tells how the report came to its status, however many people, rewrites
\* and narrators work on it at once (reports/report-lifecycle.service.js).
THEOREM ReportsAreSafe == ReportsSpec => []ReportsSafe
<1>1. ReportsInv => ReportsSafe
  BY DEF ReportsInv, ReportsSafe
<1>. QED
  BY <1>1, ReportsInvariant, PTL

-----------------------------------------------------------------------------
(* Relevance.  First the policy, for any text and any votes.               *)

USE RelevanceAssumption

LEMMA RelevanceNames ==
    /\ Relevant = {"high", "medium", "low", "none"}
    /\ Relation = {"self", "competitor", "market", "unrelated"}
    /\ \A r : Continuing(r) <=> r \in {"high", "medium"}
BY DEF Relevant, Relation, Continuing

Asking(votes) == {i \in DOMAIN votes : Continuing(votes[i].relevance)}
VotesFor(votes, r) == {i \in DOMAIN votes : votes[i].relevance = r}

\* There are as many votes as the sequence is long, and finitely many of each kind.
LEMMA VotesAreFinite ==
    ASSUME NEW votes \in Seq(ModelAnswer)
    PROVE  /\ IsFiniteSet(DOMAIN votes) /\ Cardinality(DOMAIN votes) = Len(votes)
           /\ \A T \in SUBSET DOMAIN votes :
                 IsFiniteSet(T) /\ Cardinality(T) \in Nat
<1>. DEFINE n == Len(votes)
<1>1. n \in Nat /\ DOMAIN votes = 1 .. n
  OBVIOUS
<1>. HIDE DEF n
<1>2. IsFiniteSet(1 .. n) /\ Cardinality(1 .. n) = n
  BY <1>1, FS_Interval
<1>3. IsFiniteSet(DOMAIN votes) /\ Cardinality(DOMAIN votes) = n
  BY <1>1, <1>2
<1>4. \A T \in SUBSET DOMAIN votes : IsFiniteSet(T) /\ Cardinality(T) \in Nat
  BY <1>3, FS_Subset, FS_CardinalityType
<1>. QED
  BY <1>3, <1>4 DEF n

\* The merged relevance goes on only if most of the votes do.
LEMMA MergedRelevanceAsked ==
    ASSUME NEW votes \in Seq(ModelAnswer), votes # <<>>
    PROVE  /\ MergedRelevance(votes) \in Relevant
           /\ Continuing(MergedRelevance(votes)) =>
                 Majority(votes, LAMBDA v : Continuing(v.relevance))
<1>. DEFINE most(r) == Majority(votes, LAMBDA v : v.relevance = r)
<1>1. /\ Len(votes) \in Nat \ {0} /\ DOMAIN votes = 1 .. Len(votes)
      /\ \A i \in DOMAIN votes : votes[i].relevance \in Relevant
  <2>1. Len(votes) # 0
    OBVIOUS
  <2>2. \A i \in DOMAIN votes : votes[i] \in ModelAnswer
    OBVIOUS
  <2>. QED
    BY <2>1, <2>2 DEF ModelAnswer
<1>2. Majority(votes, LAMBDA v : Continuing(v.relevance)) <=>
         2 * Cardinality(Asking(votes)) > Len(votes)
  BY DEF Majority, Asking
<1>3. \A r : most(r) <=> 2 * Cardinality(VotesFor(votes, r)) > Len(votes)
  BY DEF Majority, VotesFor
<1>4. /\ Some(votes, LAMBDA v : Continuing(v.relevance)) <=> \E i \in DOMAIN votes : Continuing(votes[i].relevance)
      /\ Some(votes, LAMBDA v : ~Continuing(v.relevance)) <=> \E i \in DOMAIN votes : ~Continuing(votes[i].relevance)
  BY DEF Some
<1>5. MergedRelevance(votes) =
        IF ~(\E i \in DOMAIN votes : Continuing(votes[i].relevance))
        THEN IF Len(votes) = 1 THEN votes[1].relevance ELSE "none"
        ELSE IF \E r \in Relevant : most(r) THEN CHOOSE r \in Relevant : most(r)
        ELSE IF \E i \in DOMAIN votes : ~Continuing(votes[i].relevance) THEN "none" ELSE "medium"
  BY DEF MergedRelevance, Some
<1>. HIDE DEF most
<1>6. CASE ~(\E i \in DOMAIN votes : Continuing(votes[i].relevance))
  <2>1. CASE Len(votes) = 1
    <3>1. 1 \in DOMAIN votes
      BY <1>1
    <3>. QED
      BY <1>1, <1>5, <1>6, <2>1, <3>1
  <2>2. CASE Len(votes) # 1
    BY <1>5, <1>6, <2>2, RelevanceNames
  <2>. QED
    BY <2>1, <2>2
<1>7. CASE /\ \E i \in DOMAIN votes : Continuing(votes[i].relevance)
           /\ \E r \in Relevant : most(r)
  <2>. DEFINE chosen == CHOOSE r \in Relevant : most(r)
  <2>1. chosen \in Relevant /\ most(chosen)
    BY <1>7
  <2>2. MergedRelevance(votes) = chosen
    BY <1>5, <1>7
  <2>. HIDE DEF chosen
  <2>3. ASSUME Continuing(chosen) PROVE 2 * Cardinality(Asking(votes)) > Len(votes)
    <3>1. VotesFor(votes, chosen) \subseteq Asking(votes) /\ Asking(votes) \subseteq DOMAIN votes
      BY <2>3 DEF VotesFor, Asking
    <3>2. /\ IsFiniteSet(Asking(votes)) /\ Cardinality(Asking(votes)) \in Nat
          /\ Cardinality(VotesFor(votes, chosen)) \in Nat
      BY <3>1, VotesAreFinite
    <3>3. Cardinality(VotesFor(votes, chosen)) <= Cardinality(Asking(votes))
      BY <3>1, <3>2, FS_Subset
    <3>4. 2 * Cardinality(VotesFor(votes, chosen)) > Len(votes)
      BY <1>3, <2>1
    <3>. QED
      BY <1>1, <3>2, <3>3, <3>4
  <2>. QED
    BY <1>2, <2>1, <2>2, <2>3
<1>8. CASE /\ ~(\E r \in Relevant : most(r)) /\ \E i \in DOMAIN votes : Continuing(votes[i].relevance)
           /\ \E i \in DOMAIN votes : ~Continuing(votes[i].relevance)
  BY <1>5, <1>8, RelevanceNames
<1>9. CASE /\ ~(\E r \in Relevant : most(r))
           /\ \A i \in DOMAIN votes : Continuing(votes[i].relevance)
           /\ \E i \in DOMAIN votes : Continuing(votes[i].relevance)
  <2>1. Asking(votes) = DOMAIN votes
    BY <1>9 DEF Asking
  <2>2. 2 * Cardinality(Asking(votes)) > Len(votes)
    BY <1>1, <2>1, VotesAreFinite
  <2>3. MergedRelevance(votes) = "medium"
    BY <1>5, <1>9
  <2>. QED
    BY <1>2, <2>2, <2>3, RelevanceNames
<1>. QED
  BY <1>6, <1>7, <1>8, <1>9

\* The merged relation is one of the four.
LEMMA MergedRelationTyped ==
    ASSUME NEW votes \in Seq(ModelAnswer)
    PROVE  MergedRelation(votes) \in Relation
<1>. DEFINE most(r) == Majority(votes, LAMBDA v : v.relation = r)
<1>1. MergedRelation(votes) \in {CHOOSE r \in Relation : most(r), "market", "unrelated", "competitor"}
      /\ ((\E r \in Relation : most(r)) => MergedRelation(votes) = CHOOSE r \in Relation : most(r))
      /\ (~(\E r \in Relation : most(r)) => MergedRelation(votes) \in {"market", "unrelated", "competitor"})
  BY DEF MergedRelation
<1>. HIDE DEF most
<1>2. (\E r \in Relation : most(r)) => (CHOOSE r \in Relation : most(r)) \in Relation
  OBVIOUS
<1>. QED
  BY <1>1, <1>2, RelevanceNames

\* What the gates make of an answer.
LEMMA GatedAnswer ==
    ASSUME NEW text, NEW answer \in ModelAnswer, "rival" \in text => "listed" \in text
    PROVE  LET named == IdentityGate(text, answer)
               made == MaterialityGate(text, named)
           IN  /\ made \in ModelAnswer
               /\ FormsIssue(made) =>
                     /\ made.relation = "self" => "self" \in text
                     /\ made.relation = "competitor" => {"rival", "listed"} \subseteq text
                     /\ made.relation = "market" => Hook(text)
                     /\ \/ Continuing(answer.relevance)
                        \/ made.relation = "market" /\ ("bridge" \in text \/ PeerAction(text))
<1>. SUFFICES ASSUME NEW named, named = IdentityGate(text, answer),
                     NEW made, made = MaterialityGate(text, named)
              PROVE  /\ made \in ModelAnswer
                     /\ FormsIssue(made) =>
                           /\ made.relation = "self" => "self" \in text
                           /\ made.relation = "competitor" => {"rival", "listed"} \subseteq text
                           /\ made.relation = "market" => Hook(text)
                           /\ \/ Continuing(answer.relevance)
                              \/ made.relation = "market" /\ ("bridge" \in text \/ PeerAction(text))
  OBVIOUS
<1>1. answer.relevance \in Relevant /\ answer.relation \in Relation
  BY DEF ModelAnswer
<1>2. /\ named.relevance \in {answer.relevance, "none"} /\ named.relation \in Relation
      /\ named.relation = "self" => "self" \in text
      /\ named.relation = "competitor" => "rival" \in text
      /\ named = [relevance |-> named.relevance, relation |-> named.relation]
  <2>1. CASE "thin" \in text /\ text \cap {"self", "rival"} = {}
    BY <2>1, RelevanceNames DEF IdentityGate, NoAnswer
  <2>2. CASE ~("thin" \in text /\ text \cap {"self", "rival"} = {})
    <3>. DEFINE relation == GatedRelation(text, answer.relation)
    <3>1. /\ relation \in Relation /\ (relation = "self" => "self" \in text)
          /\ (relation = "competitor" => "rival" \in text)
      BY RelevanceNames DEF GatedRelation
    <3>. HIDE DEF relation
    <3>2. named = [relevance |-> IF relation = "unrelated" /\ Continuing(answer.relevance) THEN "none"
                                 ELSE answer.relevance,
                   relation |-> relation]
      BY <2>2 DEF IdentityGate, relation
    <3>. QED
      BY <3>1, <3>2
  <2>. QED
    BY <2>1, <2>2
<1>3. made = [named EXCEPT !.relevance =
                IF named.relation # "market" THEN named.relevance
                ELSE IF Continuing(named.relevance) THEN IF Hook(text) THEN named.relevance ELSE "low"
                ELSE IF "bridge" \in text \/ PeerAction(text) THEN "medium" ELSE named.relevance]
  BY DEF MaterialityGate
<1>4. /\ made.relation = named.relation /\ made \in ModelAnswer
      /\ \/ made.relevance = named.relevance /\ (named.relation # "market" \/ ~Continuing(named.relevance) \/ Hook(text))
         \/ made.relevance = "low"
         \/ named.relation = "market" /\ ("bridge" \in text \/ PeerAction(text))
  BY <1>1, <1>2, <1>3, RelevanceNames DEF ModelAnswer
<1>5. "bridge" \in text \/ PeerAction(text) => Hook(text)
  BY DEF PeerAction, Hook
<1>6. Continuing(named.relevance) => Continuing(answer.relevance)
  BY <1>2, RelevanceNames
<1>. QED
  BY <1>2, <1>4, <1>5, <1>6, RelevanceNames DEF FormsIssue

\* The verdict of any votes on any text.
LEMMA VerdictHasReason ==
    ASSUME NEW text, NEW votes \in Seq(ModelAnswer), votes # <<>>,
           "rival" \in text => "listed" \in text,
           NEW made, made = FinalVerdict(text, votes)
    PROVE  /\ made \in ModelAnswer
           /\ FormsIssue(made) =>
                 /\ made.relation = "self" => "self" \in text
                 /\ made.relation = "competitor" => {"rival", "listed"} \subseteq text
                 /\ made.relation = "market" => Hook(text)
                 /\ \/ Majority(votes, LAMBDA v : Continuing(v.relevance))
                    \/ made.relation = "market" /\ ("bridge" \in text \/ PeerAction(text))
<1>. SUFFICES ASSUME NEW answer, answer = Merged(votes)
              PROVE  /\ made \in ModelAnswer
                     /\ FormsIssue(made) =>
                           /\ made.relation = "self" => "self" \in text
                           /\ made.relation = "competitor" => {"rival", "listed"} \subseteq text
                           /\ made.relation = "market" => Hook(text)
                           /\ \/ Majority(votes, LAMBDA v : Continuing(v.relevance))
                              \/ made.relation = "market" /\ ("bridge" \in text \/ PeerAction(text))
  OBVIOUS
<1>1. answer \in ModelAnswer /\ answer.relevance = MergedRelevance(votes)
  BY MergedRelevanceAsked, MergedRelationTyped DEF Merged, ModelAnswer
<1>2. Continuing(answer.relevance) => Majority(votes, LAMBDA v : Continuing(v.relevance))
  BY <1>1, MergedRelevanceAsked
<1>3. made = MaterialityGate(text, IdentityGate(text, answer))
  BY DEF FinalVerdict
<1>. QED
  BY <1>1, <1>2, <1>3, GatedAnswer

-----------------------------------------------------------------------------
(* Then the calls.                                                         *)

\* What a classification holds.
VotesCounted(h) ==
    /\ h.at \in {"vote", "create", "reread"} => h.version > 0
    /\ h.version <= Len(texts)
    /\ h.at = "vote" => Len(h.votes) < Calls
    /\ h.at = "create" => Len(h.votes) = Calls
VerdictHeld(h) ==
    /\ h.at \in {"stopped", "rationale"} => h.verdict.version = h.version
    /\ h.at = "rationale" => h.version > 0 /\ decision.version > 0
    /\ h.at \in {"source", "explain"} => h.verdict.version > 0
ClassifierHolds(h) == VotesCounted(h) /\ VerdictHeld(h) /\ Len(h.votes) <= Calls

RelevanceInv ==
    /\ RelevanceTypeOK
    /\ \A c \in Classifiers : ClassifierHolds(classifier[c])

\* Fields of what a pipeline holds.
LEMMA ClassifierFields ==
    ASSUME RelevanceInv, NEW c \in Classifiers
    PROVE  /\ classifier \in [Classifiers -> Classifier] /\ classifier[c] \in Classifier
           /\ classifier[c].version \in 0 .. MaxText /\ classifier[c].votes \in Seq(Answers)
           /\ classifier[c].verdict \in Decision /\ classifier[c].verdict.version \in 0 .. MaxText
           /\ ClassifierHolds(classifier[c]) /\ texts \in Seq(Texts) /\ Len(texts) \in 1 .. MaxText
           /\ decision \in Decision /\ decision.version \in 0 .. MaxText
BY DEF RelevanceInv, RelevanceTypeOK, Classifier, Decision

\* A pipeline moves on; the decision may be replaced, and an explanation be added.
LEMMA ClassifierStep ==
    ASSUME RelevanceInv, UNCHANGED texts, NEW c \in Classifiers, NEW h \in Classifier,
           classifier' = [classifier EXCEPT ![c] = h],
           decision' \in Decision, decision.version > 0 => decision'.version > 0,
           rationales' \subseteq 1 .. MaxText,
           VotesCounted(h), VerdictHeld(h)', Len(h.votes) <= Calls
    PROVE  RelevanceInv'
<1>1. classifier \in [Classifiers -> Classifier]
  BY ClassifierFields
<1>2. ASSUME NEW q \in Classifiers PROVE ClassifierHolds(classifier[q])'
  <2>1. CASE q = c
    <3>1. classifier'[q] = h
      BY <1>1, <2>1
    <3>. QED
      BY <3>1 DEF ClassifierHolds, VotesCounted, VerdictHeld
  <2>2. CASE q # c
    <3>1. classifier'[q] = classifier[q] /\ ClassifierHolds(classifier[q])
      BY <1>1, <2>2 DEF RelevanceInv
    <3>. QED
      BY <3>1 DEF ClassifierHolds, VotesCounted, VerdictHeld
  <2>. QED
    BY <2>1, <2>2
<1>3. classifier' \in [Classifiers -> Classifier]
  BY <1>1
<1>4. \A q \in Classifiers : Len(classifier'[q].votes) <= Calls
  BY <1>2 DEF ClassifierHolds
<1>. QED
  BY <1>2, <1>3, <1>4 DEF RelevanceInv, RelevanceTypeOK

\* A pipeline goes somewhere else, with its votes or without.
LEMMA ClassifierRests ==
    ASSUME RelevanceInv, UNCHANGED <<texts, decision, rationales>>, NEW c \in Classifiers,
           NEW at \in {"vote", "reread", "explain", "failed"},
           NEW votes \in Seq(Answers), Len(votes) <= Calls,
           NEW verdict \in Decision,
           classifier' = [classifier EXCEPT ![c].at = at, ![c].votes = votes, ![c].verdict = verdict],
           at = "vote" => Len(votes) < Calls,
           at \in {"vote", "reread"} => classifier[c].version > 0,
           at = "explain" => verdict.version > 0
    PROVE  RelevanceInv'
<1>. SUFFICES ASSUME NEW h, h = [classifier[c] EXCEPT !.at = at, !.votes = votes, !.verdict = verdict]
              PROVE  RelevanceInv'
  OBVIOUS
<1>1. classifier' = [classifier EXCEPT ![c] = h]
  OBVIOUS
<1>2. /\ h \in Classifier /\ h.at = at /\ h.votes = votes /\ h.verdict = verdict
      /\ h.version = classifier[c].version
  BY ClassifierFields DEF Classifier
<1>3. VotesCounted(h) /\ VerdictHeld(h)' /\ Len(h.votes) <= Calls
  BY <1>2, ClassifierFields DEF ClassifierHolds, VotesCounted, VerdictHeld
<1>. QED
  BY <1>1, <1>2, <1>3, ClassifierFields, ClassifierStep DEF RelevanceInv, RelevanceTypeOK

\* The pipeline branches on a verdict about what it read.
LEMMA BranchKeeps ==
    ASSUME RelevanceInv, UNCHANGED <<texts, rationales>>, NEW c \in Classifiers,
           NEW verdict \in Decision, verdict.version = classifier[c].version,
           classifier[c].version > 0, decision' = verdict, Branch(c, verdict)
    PROVE  RelevanceInv'
<1>. SUFFICES ASSUME NEW at, at = IF FormsIssue(verdict.answer) THEN "rationale" ELSE "stopped",
                     NEW h, h = [classifier[c] EXCEPT !.verdict = verdict, !.votes = <<>>, !.at = at]
              PROVE  RelevanceInv'
  OBVIOUS
<1>1. classifier' = [classifier EXCEPT ![c] = h] /\ at \in {"rationale", "stopped"}
  BY DEF Branch
<1>2. /\ h \in Classifier /\ h.at = at /\ h.votes = <<>> /\ h.verdict = verdict
      /\ h.version = classifier[c].version
  <2>1. <<>> \in Seq(Answers)
    OBVIOUS
  <2>. QED
    BY <1>1, <2>1, ClassifierFields DEF Classifier
<1>3. VotesCounted(h) /\ VerdictHeld(h)' /\ Len(h.votes) <= Calls
  BY <1>1, <1>2, ClassifierFields DEF ClassifierHolds, VotesCounted, VerdictHeld
<1>. QED
  BY <1>1, <1>2, <1>3, ClassifierFields, ClassifierStep DEF RelevanceInv, RelevanceTypeOK

\* T02.
LEMMA ClassifyKeeps ==
    ASSUME RelevanceInv, NEW c \in Classifiers,
           \/ ReadArticle(c) \/ ReuseDecision(c) \/ Vote(c) \/ CreateDecision(c)
           \/ RereadDecision(c) \/ ClassifierFails(c)
    PROVE  RelevanceInv'
<1>1. CASE ReadArticle(c)
  <2>. SUFFICES ASSUME NEW h, h = [classifier[c] EXCEPT !.version = Len(texts), !.at = "vote", !.votes = <<>>,
                                                        !.verdict = NoDecision, !.why = NoVersion]
                PROVE  RelevanceInv'
    OBVIOUS
  <2>1. classifier' = [classifier EXCEPT ![c] = h] /\ UNCHANGED <<texts, decision, rationales>>
    BY <1>1 DEF ReadArticle
  <2>2. NoDecision \in Decision /\ NoVersion \in 0 .. MaxText /\ Len(texts) \in 0 .. MaxText
    BY ClassifierFields, RelevanceNames DEF NoDecision, NoVersion, Decision, NoAnswer, ModelAnswer
  <2>3. /\ h \in Classifier /\ h.at = "vote" /\ h.votes = <<>> /\ h.version = Len(texts)
    <3>1. <<>> \in Seq(Answers)
      OBVIOUS
    <3>. QED
      BY <2>2, <3>1, ClassifierFields DEF Classifier
  <2>4. VotesCounted(h) /\ VerdictHeld(h)' /\ Len(h.votes) <= Calls
    BY <2>3, ClassifierFields DEF VotesCounted, VerdictHeld
  <2>. QED
    BY <2>1, <2>3, <2>4, ClassifierFields, ClassifierStep DEF RelevanceInv, RelevanceTypeOK
<1>2. CASE ReuseDecision(c)
  BY <1>2, ClassifierFields, BranchKeeps
     DEF ReuseDecision, ClassifierAt, ClassifierHolds, VotesCounted
<1>3. CASE Vote(c)
  <2>1. PICK answer \in Answers :
          classifier' = [classifier EXCEPT ![c].votes = Append(classifier[c].votes, answer),
                           ![c].at = IF Len(Append(classifier[c].votes, answer)) = Calls
                                     THEN "create" ELSE "vote"]
    BY <1>3 DEF Vote
  <2>. SUFFICES ASSUME NEW votes, votes = Append(classifier[c].votes, answer),
                       NEW at, at = IF Len(votes) = Calls THEN "create" ELSE "vote",
                       NEW h, h = [classifier[c] EXCEPT !.votes = votes, !.at = at]
                PROVE  RelevanceInv'
    OBVIOUS
  <2>2. classifier[c].at = "vote" /\ UNCHANGED <<texts, decision, rationales>>
    BY <1>3 DEF Vote, ClassifierAt
  <2>3. votes \in Seq(Answers) /\ Len(votes) = Len(classifier[c].votes) + 1
        /\ Len(classifier[c].votes) \in Nat /\ Len(classifier[c].votes) < Calls
    BY <2>2, ClassifierFields DEF ClassifierHolds, VotesCounted
  <2>4. classifier' = [classifier EXCEPT ![c] = h] /\ at \in {"vote", "create"}
    BY <2>1
  <2>5. h \in Classifier /\ h.at = at /\ h.votes = votes /\ h.version = classifier[c].version
    BY <2>3, <2>4, ClassifierFields DEF Classifier
  <2>6. VotesCounted(h) /\ VerdictHeld(h)' /\ Len(h.votes) <= Calls
    BY <2>2, <2>3, <2>5, ClassifierFields DEF ClassifierHolds, VotesCounted, VerdictHeld
  <2>. QED
    BY <2>2, <2>4, <2>5, <2>6, ClassifierFields, ClassifierStep DEF RelevanceInv, RelevanceTypeOK
<1>4. CASE CreateDecision(c)
  <2>. SUFFICES ASSUME NEW made, made = [version |-> classifier[c].version,
                         answer |-> FinalVerdict(texts[classifier[c].version], classifier[c].votes)]
                PROVE  RelevanceInv'
    OBVIOUS
  <2>1. classifier[c].at = "create" /\ UNCHANGED <<texts, rationales>>
        /\ classifier[c].version \in 1 .. Len(texts) /\ Len(classifier[c].votes) = Calls
    BY <1>4, ClassifierFields DEF CreateDecision, ClassifierAt, ClassifierHolds, VotesCounted
  <2>2. made \in Decision /\ made.version = classifier[c].version
    <3>1. /\ classifier[c].votes \in Seq(ModelAnswer) /\ classifier[c].votes # <<>>
          /\ "rival" \in texts[classifier[c].version] => "listed" \in texts[classifier[c].version]
      BY <2>1, ClassifierFields
    <3>2. FinalVerdict(texts[classifier[c].version], classifier[c].votes) \in ModelAnswer
      BY <3>1, VerdictHasReason
    <3>. QED
      BY <3>2, ClassifierFields DEF Decision
  <2>3. CASE decision.version = made.version
    <3>1. /\ classifier' = [classifier EXCEPT ![c].at = "reread", ![c].votes = <<>>,
                                              ![c].verdict = classifier[c].verdict]
          /\ UNCHANGED decision
      <4>1. classifier' = [classifier EXCEPT ![c].at = "reread", ![c].votes = <<>>] /\ UNCHANGED decision
        BY <1>4, <2>3 DEF CreateDecision
      <4>2. [classifier[c] EXCEPT !.at = "reread", !.votes = <<>>]
              = [classifier[c] EXCEPT !.at = "reread", !.votes = <<>>, !.verdict = classifier[c].verdict]
        BY ClassifierFields DEF Classifier
      <4>. QED
        BY <4>1, <4>2
    <3>2. <<>> \in Seq(Answers) /\ Len(<<>>) <= Calls /\ classifier[c].version > 0
      BY <2>1
    <3>. QED
      BY <2>1, <3>1, <3>2, ClassifierFields, ClassifierRests
  <2>4. CASE decision.version # made.version
    BY <1>4, <2>1, <2>2, <2>4, BranchKeeps DEF CreateDecision
  <2>. QED
    BY <2>3, <2>4
<1>5. CASE RereadDecision(c)
  <2>1. /\ classifier[c].at = "reread" /\ UNCHANGED <<texts, decision, rationales>>
        /\ classifier[c].version > 0
    BY <1>5, ClassifierFields DEF RereadDecision, ClassifierAt, ClassifierHolds, VotesCounted
  <2>2. CASE decision.version = classifier[c].version
    BY <1>5, <2>1, <2>2, ClassifierFields, BranchKeeps DEF RereadDecision
  <2>3. CASE decision.version # classifier[c].version
    <3>1. classifier' = [classifier EXCEPT ![c].at = "failed"]
      BY <1>5, <2>3 DEF RereadDecision, ClassifierGoes
    <3>2. [classifier[c] EXCEPT !.at = "failed"]
            = [classifier[c] EXCEPT !.at = "failed", !.votes = classifier[c].votes,
                                    !.verdict = classifier[c].verdict]
      BY ClassifierFields DEF Classifier
    <3>3. classifier' = [classifier EXCEPT ![c].at = "failed", ![c].votes = classifier[c].votes,
                                           ![c].verdict = classifier[c].verdict]
      BY <3>1, <3>2
    <3>. QED
      BY <2>1, <3>3, ClassifierFields, ClassifierRests DEF ClassifierHolds
  <2>. QED
    BY <2>2, <2>3
<1>6. CASE ClassifierFails(c)
  <2>1. NoDecision \in Decision
    BY RelevanceNames DEF NoDecision, NoVersion, Decision, NoAnswer, ModelAnswer
  <2>2. <<>> \in Seq(Answers) /\ Len(<<>>) <= Calls
    OBVIOUS
  <2>. QED
    BY <1>6, <2>1, <2>2, ClassifierRests DEF ClassifierFails
<1>. QED
  BY <1>1, <1>2, <1>3, <1>4, <1>5, <1>6

\* T03.
LEMMA ExplainKeeps ==
    ASSUME RelevanceInv, NEW c \in Classifiers,
           ReadDecision(c) \/ CheckSnapshot(c) \/ CreateRationale(c)
    PROVE  RelevanceInv'
<1>1. rationales \subseteq 1 .. MaxText
  BY DEF RelevanceInv, RelevanceTypeOK
<1>2. CASE ReadDecision(c)
  <2>1. PICK why \in rationales \cup {NoVersion} :
          classifier' = [classifier EXCEPT ![c].verdict = decision, ![c].why = why,
                                           ![c].at = IF why = NoVersion THEN "source" ELSE "done"]
    BY <1>2 DEF ReadDecision
  <2>. SUFFICES ASSUME NEW at, at = IF why = NoVersion THEN "source" ELSE "done",
                       NEW h, h = [classifier[c] EXCEPT !.verdict = decision, !.why = why, !.at = at]
                PROVE  RelevanceInv'
    OBVIOUS
  <2>2. classifier' = [classifier EXCEPT ![c] = h] /\ at \in {"source", "done"} /\ why \in 0 .. MaxText
    <3>1. why \in 0 .. MaxText
      BY <1>1 DEF NoVersion
    <3>. QED
      BY <2>1, <3>1
  <2>3. /\ h \in Classifier /\ h.at = at /\ h.verdict = decision /\ h.version = classifier[c].version
        /\ h.votes = classifier[c].votes
    BY <2>2, ClassifierFields DEF Classifier
  <2>4. UNCHANGED <<texts, decision, rationales>> /\ decision.version > 0
    BY <1>2, ClassifierFields DEF ReadDecision, ClassifierAt, ClassifierHolds, VerdictHeld
  <2>5. VotesCounted(h) /\ VerdictHeld(h)' /\ Len(h.votes) <= Calls
    BY <2>2, <2>3, <2>4, ClassifierFields DEF ClassifierHolds, VotesCounted, VerdictHeld
  <2>. QED
    BY <1>1, <2>2, <2>3, <2>4, <2>5, ClassifierFields, ClassifierStep
<1>3. CASE CheckSnapshot(c)
  <2>. SUFFICES ASSUME NEW at, at = IF StaleSnapshot(c) THEN "failed" ELSE "explain"
                PROVE  RelevanceInv'
    OBVIOUS
  <2>1. [classifier[c] EXCEPT !.at = at]
          = [classifier[c] EXCEPT !.at = at, !.votes = classifier[c].votes,
                                  !.verdict = classifier[c].verdict]
    BY ClassifierFields DEF Classifier
  <2>2. classifier' = [classifier EXCEPT ![c].at = at]
    BY <1>3 DEF CheckSnapshot, ClassifierGoes
  <2>3. classifier' = [classifier EXCEPT ![c].at = at, ![c].votes = classifier[c].votes,
                                         ![c].verdict = classifier[c].verdict]
    BY <2>1, <2>2
  <2>4. UNCHANGED <<texts, decision, rationales>> /\ classifier[c].verdict.version > 0
    BY <1>3, ClassifierFields DEF CheckSnapshot, ClassifierAt, ClassifierHolds, VerdictHeld
  <2>. QED
    BY <2>3, <2>4, ClassifierFields, ClassifierRests DEF ClassifierHolds
<1>4. CASE CreateRationale(c)
  <2>1. classifier[c].at = "explain" /\ classifier[c].verdict.version \in 1 .. MaxText
        /\ UNCHANGED <<texts, decision>>
    BY <1>4, ClassifierFields DEF CreateRationale, ClassifierAt, ClassifierHolds, VerdictHeld
  <2>2. PICK why \in 1 .. MaxText :
          /\ rationales' = rationales \cup {why}
          /\ classifier' = [classifier EXCEPT ![c].why = why, ![c].at = "done"]
    BY <1>1, <1>4, <2>1 DEF CreateRationale
  <2>. SUFFICES ASSUME NEW h, h = [classifier[c] EXCEPT !.why = why, !.at = "done"]
                PROVE  RelevanceInv'
    OBVIOUS
  <2>3. classifier' = [classifier EXCEPT ![c] = h] /\ rationales' \subseteq 1 .. MaxText
    BY <1>1, <2>2
  <2>4. h \in Classifier /\ h.at = "done" /\ h.version = classifier[c].version
        /\ h.votes = classifier[c].votes
    <3>1. why \in 0 .. MaxText
      OBVIOUS
    <3>. QED
      BY <3>1, ClassifierFields DEF Classifier
  <2>5. VotesCounted(h) /\ VerdictHeld(h)' /\ Len(h.votes) <= Calls
    BY <2>4, ClassifierFields DEF ClassifierHolds, VotesCounted, VerdictHeld
  <2>. QED
    BY <2>1, <2>3, <2>4, <2>5, ClassifierFields, ClassifierStep
<1>. QED
  BY <1>2, <1>3, <1>4

\* The invariant holds at the start, and every step keeps it.
LEMMA RelevanceInvariant == RelevanceSpec => []RelevanceInv
<1>1. RelevanceInit => RelevanceInv
  <2>. SUFFICES ASSUME RelevanceInit PROVE RelevanceInv
    OBVIOUS
  <2>1. NoDecision \in Decision /\ NoVersion \in 0 .. MaxText /\ NoDecision.version = 0
    BY RelevanceNames DEF NoDecision, NoVersion, Decision, NoAnswer, ModelAnswer
  <2>2. PICK text \in Texts : texts = <<text>>
    BY DEF RelevanceInit
  <2>3. texts \in Seq(Texts) /\ Len(texts) = 1 /\ 1 \in 1 .. MaxText
    BY <2>2
  <2>. DEFINE first == [at |-> "start", version |-> NoVersion, votes |-> <<>>, verdict |-> NoDecision,
                        why |-> NoVersion]
  <2>4. first \in Classifier /\ first.at = "start" /\ first.version = 0 /\ first.votes = <<>>
    BY <2>1 DEF Classifier, NoVersion
  <2>5. \A c \in Classifiers : classifier[c] = first
    BY DEF RelevanceInit
  <2>6. classifier \in [Classifiers -> Classifier]
    BY <2>4 DEF RelevanceInit
  <2>. HIDE DEF first
  <2>7. Len(<<>>) = 0 /\ 0 <= Calls
    OBVIOUS
  <2>8. \A c \in Classifiers : ClassifierHolds(classifier[c])
    BY <2>3, <2>4, <2>5, <2>7 DEF ClassifierHolds, VotesCounted, VerdictHeld
  <2>9. decision = NoDecision /\ rationales = {}
    BY DEF RelevanceInit
  <2>10. RelevanceTypeOK
    BY <2>1, <2>3, <2>6, <2>8, <2>9 DEF RelevanceTypeOK, ClassifierHolds
  <2>. QED
    BY <2>8, <2>10 DEF RelevanceInv
<1>2. RelevanceInv /\ [RelevanceNext]_relevanceVars => RelevanceInv'
  <2>. SUFFICES ASSUME RelevanceInv, [RelevanceNext]_relevanceVars PROVE RelevanceInv'
    OBVIOUS
  <2>1. CASE EditArticle
    <3>1. PICK text \in Texts : texts' = Append(texts, text)
      BY <2>1 DEF EditArticle
    <3>2. UNCHANGED <<decision, rationales, classifier>> /\ Len(texts) < MaxText
      BY <2>1 DEF EditArticle
    <3>3. texts \in Seq(Texts) /\ Len(texts) \in 1 .. MaxText
      BY DEF RelevanceInv, RelevanceTypeOK
    <3>4. texts' \in Seq(Texts) /\ Len(texts') = Len(texts) + 1 /\ Len(texts') \in 1 .. MaxText
      BY <3>1, <3>2, <3>3
    <3>5. RelevanceTypeOK'
      BY <3>2, <3>4 DEF RelevanceInv, RelevanceTypeOK
    <3>6. ASSUME NEW c \in Classifiers PROVE ClassifierHolds(classifier[c])'
      <4>1. ClassifierHolds(classifier[c]) /\ classifier[c].version \in Nat
        BY ClassifierFields
      <4>. QED
        BY <3>2, <3>3, <3>4, <4>1 DEF ClassifierHolds, VotesCounted, VerdictHeld
    <3>. QED
      BY <3>5, <3>6 DEF RelevanceInv
  <2>2. CASE UNCHANGED relevanceVars
    <3>1. UNCHANGED <<texts, decision, rationales, classifier>>
      BY <2>2 DEF relevanceVars
    <3>. QED
      BY <3>1 DEF RelevanceInv, RelevanceTypeOK, ClassifierHolds, VotesCounted, VerdictHeld
  <2>. QED
    BY <2>1, <2>2, ClassifyKeeps, ExplainKeeps DEF RelevanceNext
<1>. QED
  BY <1>1, <1>2, PTL DEF RelevanceSpec

\* An issue is formed for a reason that is in the text and was voted for, and on a
\* verdict about the very text that was read, whatever is edited and replaced
\* meanwhile (ai/tasks/t02-relevance-class/service.js and its two gates).
THEOREM RelevanceIsSafe == RelevanceSpec => []RelevanceSafe
<1>1. ASSUME RelevanceInv PROVE RelevanceSafe
  <2>1. VerdictIsOfItsText
    BY <1>1 DEF RelevanceInv, ClassifierHolds, VerdictHeld, VerdictIsOfItsText
  <2>2. ContinuesForAReason
    <3>. SUFFICES ASSUME NEW c \in Classifiers, classifier[c].at = "create",
                         NEW text, text = texts[classifier[c].version],
                         NEW votes, votes = classifier[c].votes,
                         NEW made, made = FinalVerdict(text, votes), FormsIssue(made)
                  PROVE  /\ CASE made.relation = "self" -> "self" \in text
                              [] made.relation = "competitor" -> {"rival", "listed"} \subseteq text
                              [] OTHER -> Hook(text)
                         /\ \/ Majority(votes, LAMBDA v : Continuing(v.relevance))
                            \/ made.relation = "market" /\ ("bridge" \in text \/ PeerAction(text))
      BY DEF ContinuesForAReason
    <3>1. /\ votes \in Seq(ModelAnswer) /\ votes # <<>> /\ text \in Texts
      BY <1>1, ClassifierFields DEF ClassifierHolds, VotesCounted
    <3>2. /\ made \in ModelAnswer
          /\ made.relation = "self" => "self" \in text
          /\ made.relation = "competitor" => {"rival", "listed"} \subseteq text
          /\ made.relation = "market" => Hook(text)
          /\ \/ Majority(votes, LAMBDA v : Continuing(v.relevance))
             \/ made.relation = "market" /\ ("bridge" \in text \/ PeerAction(text))
      BY <3>1, VerdictHasReason
    <3>3. made.relation \in {"self", "competitor", "market"}
      BY <3>2, RelevanceNames DEF ModelAnswer, FormsIssue
    <3>. QED
      BY <3>2, <3>3
  <2>. QED
    BY <1>1, <2>1, <2>2 DEF RelevanceSafe, RelevanceInv
<1>. QED
  BY <1>1, RelevanceInvariant, PTL

-----------------------------------------------------------------------------
(* Analysis.  Rows are only added to and completed, so that what a         *)
(* pipeline once saw of them stays true until it uses it.                  *)

USE IssueAnalysisAssumption

\* What a pipeline holds.
AnalystHolds(h) ==
    /\ h.at \in {"links", "lookup", "analyze"} => h.version > 0
    /\ h.at \in {"lookup", "analyze"} => h.evidence \subseteq issue.links
    /\ h.at \in Step08 \cup Step09 \cup Step10 => h.analysis \in DOMAIN analyses
    /\ h.at \in {"supersede", "current", "explain"} => LabelsHold(h.analysis)
    /\ h.at \in {"decide", "apply"} => analyses[h.analysis].gated
    /\ h.at \in Step10 \cup {"apply"} => /\ h.decision \in DOMAIN priorities
                                         /\ priorities[h.decision].analysis = h.analysis
    /\ h.at = "explain" => h.decision \in applied

\* What the rows hold: evidence is linked for ever, claims cite it, and decisions
\* are on analyses.
EvidenceIsLinked ==
    \A i \in DOMAIN analyses : /\ analyses[i].evidence \subseteq issue.links
                               /\ analyses[i].claims \subseteq SourcesOf(analyses[i].evidence)
DecisionsAreOnAnalyses ==
    /\ Len(priorities) <= MaxDecisions /\ applied \subseteq DOMAIN priorities
    /\ \A d \in DOMAIN priorities : priorities[d].analysis \in DOMAIN analyses

AnalysisInv ==
    /\ AnalysisTypeOK /\ EvidenceIsLinked /\ DecisionsAreOnAnalyses
    /\ \A p \in Analysts : AnalystHolds(analyst[p])
    /\ PromotedWasGated /\ PriorityIsGrounded /\ ReasonsExplainApplied

\* A set of numbers up to a bound has a largest one.
LEMMA LargestExists ==
    ASSUME NEW n \in Nat, NEW S \in SUBSET (0 .. n), S # {}
    PROVE  \E d \in S : \A e \in S : e <= d
<1>. DEFINE T == {n - d : d \in S}
<1>1. T \subseteq Nat
  <2>1. \A d \in S : d \in 0 .. n
    OBVIOUS
  <2>2. \A d \in 0 .. n : n - d \in Nat
    OBVIOUS
  <2>. QED
    BY <2>1, <2>2
<1>2. T # {}
  OBVIOUS
<1>3. PICK m \in T : \A y \in T : ~(<<y, m>> \in OpToRel(<, Nat))
  <2>. HIDE DEF T
  <2>. QED
    BY <1>1, <1>2, NatLessThanWellFounded, WFMin
<1>4. \A y \in T : ~(y < m)
  BY <1>1, <1>3 DEF OpToRel
<1>5. PICK d \in S : m = n - d
  OBVIOUS
<1>6. ASSUME NEW e \in S PROVE e <= d
  <2>1. ~(n - e < n - d)
    BY <1>4, <1>5
  <2>. QED
    BY <2>1
<1>. QED
  BY <1>6

\* Steps only add: links, analyses, labels, decisions.
Grows ==
    /\ issue.links \subseteq issue'.links
    /\ DOMAIN analyses \subseteq DOMAIN analyses'
    /\ \A i \in DOMAIN analyses :
          /\ analyses'[i].claims = analyses[i].claims /\ analyses'[i].evidence = analyses[i].evidence
          /\ analyses[i].gated => analyses'[i].gated
    /\ labels \subseteq labels'
    /\ DOMAIN priorities \subseteq DOMAIN priorities'
    /\ \A d \in DOMAIN priorities : priorities'[d] = priorities[d]
    /\ applied \subseteq applied'

\* Labels that hold go on to hold.
LEMMA LabelsStay ==
    ASSUME Grows, NEW id \in DOMAIN analyses, LabelsHold(id)
    PROVE  LabelsHold(id)'
BY DEF Grows, LabelsHold, LabelsOf

\* What a pipeline holds stays true while it waits.
LEMMA AnalystWaits ==
    ASSUME Grows, NEW h, AnalystHolds(h)
    PROVE  AnalystHolds(h)'
<1>1. h.at \in {"supersede", "current", "explain"} => h.at \in Step08 \cup Step10
  BY DEF Step08, Step10
<1>2. h.at \in {"decide", "apply"} => h.at \in Step09
  BY DEF Step09
<1>3. h.at \in {"supersede", "current", "explain"} => LabelsHold(h.analysis)'
  BY <1>1, LabelsStay DEF AnalystHolds
<1>4. h.at \in {"decide", "apply"} => analyses'[h.analysis].gated
  BY <1>2 DEF AnalystHolds, Grows
<1>. QED
  BY <1>3, <1>4 DEF AnalystHolds, Grows

\* One pipeline moves on, and the others wait.
LEMMA AnalystMoves ==
    ASSUME AnalysisInv, Grows, NEW p \in Analysts, NEW h \in Analyst,
           analyst' = [analyst EXCEPT ![p] = h], AnalystHolds(h)'
    PROVE  analyst' \in [Analysts -> Analyst] /\ \A q \in Analysts : AnalystHolds(analyst[q])'
<1>1. analyst \in [Analysts -> Analyst]
  BY DEF AnalysisInv, AnalysisTypeOK
<1>2. ASSUME NEW q \in Analysts PROVE AnalystHolds(analyst[q])'
  <2>. SUFFICES ASSUME NEW g, g = analyst'[q] PROVE AnalystHolds(g)'
    BY DEF AnalystHolds
  <2>1. g = h \/ g = analyst[q]
    BY <1>1
  <2>2. AnalystHolds(analyst[q])
    BY DEF AnalysisInv
  <2>3. CASE g = analyst[q]
    <3>1. AnalystHolds(g)
      BY <2>2, <2>3
    <3>. QED
      BY <3>1, AnalystWaits
  <2>. QED
    BY <2>1, <2>3
<1>. QED
  BY <1>1, <1>2

\* Nothing moves but one pipeline.
LEMMA QuietAnalyst ==
    ASSUME AnalysisInv, UNCHANGED <<revision, issue, analyses, labels, priorities, reasons, applied>>,
           NEW p \in Analysts, NEW h \in Analyst,
           analyst' = [analyst EXCEPT ![p] = h], AnalystHolds(h)
    PROVE  AnalysisInv'
<1>1. Grows
  BY DEF Grows
<1>2. analyst' \in [Analysts -> Analyst] /\ \A q \in Analysts : AnalystHolds(analyst[q])'
  BY <1>1, AnalystWaits, AnalystMoves
<1>3. AnalysisTypeOK'
  BY <1>2 DEF AnalysisInv, AnalysisTypeOK
<1>4. EvidenceIsLinked' /\ DecisionsAreOnAnalyses' /\ PriorityIsGrounded'
  BY DEF AnalysisInv, EvidenceIsLinked, DecisionsAreOnAnalyses, PriorityIsGrounded
<1>5. \A id : LabelsHold(id)' <=> LabelsHold(id)
  BY DEF LabelsHold, LabelsOf
<1>6. PromotedWasGated' /\ ReasonsExplainApplied'
  BY <1>5 DEF AnalysisInv, PromotedWasGated, ReasonsExplainApplied
<1>. QED
  BY <1>2, <1>3, <1>4, <1>6 DEF AnalysisInv

\* Fields of a pipeline.
LEMMA AnalystFields ==
    ASSUME AnalysisInv, NEW p \in Analysts
    PROVE  /\ analyst \in [Analysts -> Analyst] /\ analyst[p] \in Analyst /\ AnalystHolds(analyst[p])
           /\ analyst[p].at \in {"attach"} \cup Step07 \cup Step08 \cup Step09 \cup Step10
           /\ analyst[p].version \in 0 .. MaxIssueVersion /\ analyst[p].evidence \in SUBSET Evidence
           /\ analyst[p].analysis \in Nat /\ analyst[p].decision \in Nat
<1>1. analyst \in [Analysts -> Analyst] /\ analyst[p] \in Analyst /\ AnalystHolds(analyst[p])
  BY DEF AnalysisInv, AnalysisTypeOK
<1>. QED
  BY <1>1 DEF Analyst

\* Fields of the rows.
LEMMA RowFields ==
    ASSUME AnalysisInv
    PROVE  /\ analyses \in Seq(Analysis) /\ priorities \in Seq(Decided) /\ issue \in Issue
           /\ DOMAIN analyses = 1 .. Len(analyses) /\ Len(analyses) \in Nat
           /\ DOMAIN priorities = 1 .. Len(priorities) /\ Len(priorities) \in Nat
           /\ issue.links \in SUBSET Evidence /\ issue.version \in 1 .. MaxIssueVersion
           /\ \A d \in DOMAIN priorities : /\ priorities[d].analysis \in DOMAIN analyses
                                           /\ priorities[d].priority \in Priorities
           /\ \A d \in DOMAIN priorities : d \in 1 .. MaxDecisions
<1>1. analyses \in Seq(Analysis) /\ priorities \in Seq(Decided) /\ issue \in Issue
  BY DEF AnalysisInv, AnalysisTypeOK
<1>2. /\ DOMAIN analyses = 1 .. Len(analyses) /\ Len(analyses) \in Nat
      /\ DOMAIN priorities = 1 .. Len(priorities) /\ Len(priorities) \in Nat
  BY <1>1
<1>3. issue.links \in SUBSET Evidence /\ issue.version \in 1 .. MaxIssueVersion
  BY <1>1 DEF Issue
<1>4. \A d \in DOMAIN priorities : priorities[d] \in Decided
  BY <1>1
<1>5. Len(priorities) <= MaxDecisions
  BY DEF AnalysisInv, DecisionsAreOnAnalyses
<1>6. \A d \in DOMAIN priorities : d \in 1 .. MaxDecisions
  BY <1>2, <1>5
<1>. QED
  BY <1>1, <1>2, <1>3, <1>4, <1>6 DEF Decided, AnalysisInv, DecisionsAreOnAnalyses

LEMMA IdleFields == AnalystIdle \in Analyst /\ AnalystIdle.at = "attach"
BY DEF AnalystIdle, Analyst, None

\* A pipeline at the first step of a task.
LEMMA TaskFields ==
    ASSUME NEW task \in {"attach"} \cup Step07 \cup Step08 \cup Step09 \cup Step10,
           NEW id \in Nat, NEW d \in Nat
    PROVE  /\ AtTask(task, id, d) \in Analyst /\ AtTask(task, id, d).at = task
           /\ AtTask(task, id, d).analysis = id /\ AtTask(task, id, d).decision = d
BY IdleFields DEF AtTask, Analyst

\* A pipeline with nothing to do holds nothing.
LEMMA IdleAnalystHolds == AnalystHolds(AnalystIdle) /\ AnalystHolds(AnalystIdle)'
BY IdleFields DEF AnalystHolds, Step07, Step08, Step09, Step10

\* The latest decision on an analysis is one of the decisions on it.
LEMMA LatestIsOne ==
    ASSUME AnalysisInv, NEW id, DecisionsOn(id) # {}
    PROVE  /\ LatestOn(id) \in DOMAIN priorities /\ priorities[LatestOn(id)].analysis = id
           /\ LatestOn(id) \in Nat
<1>1. DecisionsOn(id) \subseteq 0 .. Len(priorities) /\ Len(priorities) \in Nat
  BY RowFields DEF DecisionsOn
<1>2. \E d \in DecisionsOn(id) : \A e \in DecisionsOn(id) : e <= d
  <2>. DEFINE S == DecisionsOn(id)
  <2>. HIDE DEF S
  <2>1. S \in SUBSET (0 .. Len(priorities)) /\ S # {}
    BY <1>1 DEF S
  <2>2. \E d \in S : \A e \in S : e <= d
    BY <1>1, <2>1, LargestExists
  <2>. QED
    BY <2>2 DEF S
<1>3. LatestOn(id) \in DecisionsOn(id)
  BY <1>2 DEF LatestOn
<1>. QED
  BY <1>1, <1>3 DEF DecisionsOn

\* A pipeline that goes on to another step, and keeps the rest.
LEMMA MovedFields ==
    ASSUME AnalysisInv, NEW p \in Analysts,
           NEW at \in {"attach"} \cup Step07 \cup Step08 \cup Step09 \cup Step10,
           NEW h, h = [analyst[p] EXCEPT !.at = at]
    PROVE  /\ h \in Analyst /\ h.at = at /\ h.version = analyst[p].version
           /\ h.evidence = analyst[p].evidence /\ h.analysis = analyst[p].analysis
           /\ h.decision = analyst[p].decision
           /\ NowAt(p, at) => analyst' = [analyst EXCEPT ![p] = h]
<1>1. analyst \in [Analysts -> Analyst] /\ analyst[p] \in Analyst
  BY AnalystFields
<1>. QED
  BY <1>1 DEF Analyst, NowAt

\* The steps that write nothing but where the pipeline is.
LEMMA RepeatHolds ==
    ASSUME AnalysisInv, NEW p \in Analysts, TaskFails(p)
    PROVE  AnalysisInv'
<1>1. ~StepAt(p, "attach") /\ UNCHANGED <<revision, issue, analyses, labels, priorities, reasons, applied>>
  BY DEF TaskFails, Repeat
<1>. DEFINE first == FirstOf(analyst[p].at)
            kept == IF analyst[p].at \in Step10 THEN analyst[p].decision ELSE None
<1>2. CASE analyst' = [analyst EXCEPT ![p] = AtTask(FirstOf(@.at), @.analysis,
                                                   IF @.at \in Step10 THEN @.decision ELSE None)]
  <2>1. analyst' = [analyst EXCEPT ![p] = AtTask(first, analyst[p].analysis, kept)]
    BY <1>2
  <2>2. /\ first \in {"t07", "t08", "t09", "t10"}
        /\ first = "t08" => analyst[p].at \in Step08
        /\ first = "t09" => analyst[p].at \in Step09
        /\ first = "t10" => analyst[p].at \in Step10
    BY <1>1, AnalystFields DEF FirstOf, StepAt
  <2>3. analyst[p].analysis \in Nat /\ kept \in Nat
    BY AnalystFields DEF None
  <2>4. first \in {"attach"} \cup Step07 \cup Step08 \cup Step09 \cup Step10
    BY <2>2 DEF Step07, Step08, Step09, Step10
  <2>5. first = "t10" => kept = analyst[p].decision
    BY <2>2
  <2>. HIDE DEF first, kept
  <2>. SUFFICES ASSUME NEW h, h = AtTask(first, analyst[p].analysis, kept) PROVE AnalysisInv'
    OBVIOUS
  <2>6. /\ h \in Analyst /\ h.at = first /\ h.analysis = analyst[p].analysis /\ h.decision = kept
    BY <2>3, <2>4, TaskFields
  <2>7. AnalystHolds(h)
    BY <2>2, <2>5, <2>6, AnalystFields DEF AnalystHolds, Step07, Step08, Step09, Step10
  <2>. QED
    BY <1>1, <2>1, <2>6, <2>7, QuietAnalyst
<1>3. CASE analyst' = [analyst EXCEPT ![p] = AnalystIdle]
  BY <1>1, <1>3, IdleFields, IdleAnalystHolds, QuietAnalyst
<1>. QED
  BY <1>2, <1>3 DEF TaskFails, Repeat

LEMMA CallTaskHolds ==
    ASSUME AnalysisInv, NEW p \in Analysts, CallTask(p)
    PROVE  AnalysisInv'
<1>1. StepAt(p, "attach") /\ UNCHANGED <<revision, issue, analyses, labels, priorities, reasons, applied>>
  BY DEF CallTask
<1>2. CASE NowAt(p, "t07")
  <2>. SUFFICES ASSUME NEW h, h = [analyst[p] EXCEPT !.at = "t07"] PROVE AnalysisInv'
    OBVIOUS
  <2>1. h \in Analyst /\ h.at = "t07" /\ analyst' = [analyst EXCEPT ![p] = h]
    BY <1>2, MovedFields DEF Step07
  <2>2. AnalystHolds(h)
    BY <2>1 DEF AnalystHolds, Step08, Step09, Step10
  <2>. QED
    BY <1>1, <2>1, <2>2, QuietAnalyst
<1>3. ASSUME NEW at \in {"t08", "gate", "t09"}, NEW i \in DOMAIN analyses,
             analyst' = [analyst EXCEPT ![p] = AtTask(at, i, None)]
      PROVE  AnalysisInv'
  <2>. SUFFICES ASSUME NEW h, h = AtTask(at, i, None) PROVE AnalysisInv'
    OBVIOUS
  <2>1. at \in {"attach"} \cup Step07 \cup Step08 \cup Step09 \cup Step10
    BY DEF Step08, Step09
  <2>2. i \in Nat /\ None \in Nat
    BY RowFields DEF None
  <2>3. h \in Analyst /\ h.at = at /\ h.analysis = i
    BY <2>1, <2>2, TaskFields
  <2>4. AnalystHolds(h)
    BY <2>3 DEF AnalystHolds, Step08, Step09, Step10
  <2>. QED
    BY <1>1, <1>3, <2>3, <2>4, QuietAnalyst
<1>4. ASSUME NEW d \in DOMAIN priorities,
             analyst' = [analyst EXCEPT ![p] = AtTask("t10", priorities[d].analysis, d)]
      PROVE  AnalysisInv'
  <2>. SUFFICES ASSUME NEW h, h = AtTask("t10", priorities[d].analysis, d) PROVE AnalysisInv'
    OBVIOUS
  <2>1. "t10" \in {"attach"} \cup Step07 \cup Step08 \cup Step09 \cup Step10
    BY DEF Step10
  <2>2. d \in Nat /\ priorities[d].analysis \in DOMAIN analyses /\ priorities[d].analysis \in Nat
    BY RowFields
  <2>3. h \in Analyst /\ h.at = "t10" /\ h.analysis = priorities[d].analysis /\ h.decision = d
    BY <2>1, <2>2, TaskFields
  <2>4. AnalystHolds(h)
    BY <2>2, <2>3 DEF AnalystHolds, Step08, Step09, Step10
  <2>. QED
    BY <1>1, <1>4, <2>3, <2>4, QuietAnalyst
<1>. QED
  BY <1>2, <1>3, <1>4 DEF CallTask

LEMMA ReadWholeIssueHolds ==
    ASSUME AnalysisInv, NEW p \in Analysts, ReadWholeIssue(p)
    PROVE  AnalysisInv'
<1>1. /\ analyst' = [analyst EXCEPT ![p].at = "links", ![p].version = issue.version]
      /\ UNCHANGED <<revision, issue, analyses, labels, priorities, reasons, applied>>
  BY DEF ReadWholeIssue
<1>. SUFFICES ASSUME NEW h, h = [analyst[p] EXCEPT !.at = "links", !.version = issue.version]
              PROVE  AnalysisInv'
  OBVIOUS
<1>2. "links" \in Step07 /\ issue.version \in 1 .. MaxIssueVersion
  BY RowFields DEF Step07
<1>3. analyst' = [analyst EXCEPT ![p] = h]
  BY <1>1, AnalystFields
<1>4. h \in Analyst /\ h.at = "links" /\ h.version = issue.version
  <2>1. issue.version \in 0 .. MaxIssueVersion
    BY <1>2
  <2>. QED
    BY <1>2, <2>1, AnalystFields DEF Analyst
<1>5. AnalystHolds(h)
  <2>1. h.version > 0
    BY <1>2, <1>4
  <2>. QED
    BY <1>4, <2>1 DEF AnalystHolds, Step08, Step09, Step10
<1>. QED
  BY <1>1, <1>3, <1>4, <1>5, QuietAnalyst

LEMMA LoadEvidenceHolds ==
    ASSUME AnalysisInv, NEW p \in Analysts, LoadEvidence(p)
    PROVE  AnalysisInv'
<1>1. /\ analyst[p].at = "links"
      /\ analyst' = [analyst EXCEPT ![p].at = "lookup", ![p].evidence = issue.links]
      /\ UNCHANGED <<revision, issue, analyses, labels, priorities, reasons, applied>>
  BY DEF LoadEvidence, StepAt
<1>. SUFFICES ASSUME NEW h, h = [analyst[p] EXCEPT !.at = "lookup", !.evidence = issue.links]
              PROVE  AnalysisInv'
  OBVIOUS
<1>2. "lookup" \in Step07 /\ issue.links \in SUBSET Evidence
  BY RowFields DEF Step07
<1>3. analyst' = [analyst EXCEPT ![p] = h]
  BY <1>1, AnalystFields
<1>4. h \in Analyst /\ h.at = "lookup" /\ h.version = analyst[p].version /\ h.evidence = issue.links
  BY <1>2, AnalystFields DEF Analyst
<1>5. AnalystHolds(h)
  <2>1. h.version > 0
    BY <1>1, <1>4, AnalystFields DEF AnalystHolds
  <2>. QED
    BY <1>4, <2>1 DEF AnalystHolds, Step08, Step09, Step10
<1>. QED
  BY <1>1, <1>3, <1>4, <1>5, QuietAnalyst

LEMMA LookupAnalysisHolds ==
    ASSUME AnalysisInv, NEW p \in Analysts, LookupAnalysis(p)
    PROVE  AnalysisInv'
<1>1. /\ analyst[p].at = "lookup"
      /\ UNCHANGED <<revision, issue, analyses, labels, priorities, reasons, applied>>
  BY DEF LookupAnalysis, StepAt
<1>2. CASE NowAt(p, "analyze")
  <2>. SUFFICES ASSUME NEW h, h = [analyst[p] EXCEPT !.at = "analyze"] PROVE AnalysisInv'
    OBVIOUS
  <2>1. /\ h \in Analyst /\ h.at = "analyze" /\ h.version = analyst[p].version
        /\ h.evidence = analyst[p].evidence /\ analyst' = [analyst EXCEPT ![p] = h]
    BY <1>2, MovedFields DEF Step07
  <2>2. analyst[p].version > 0 /\ analyst[p].evidence \subseteq issue.links
    BY <1>1, AnalystFields DEF AnalystHolds
  <2>3. AnalystHolds(h)
    BY <2>1, <2>2 DEF AnalystHolds, Step08, Step09, Step10
  <2>. QED
    BY <1>1, <2>1, <2>3, QuietAnalyst
<1>3. ASSUME NEW i \in SameInput(p), analyst' = [analyst EXCEPT ![p] = AtTask("t08", i, None)]
      PROVE  AnalysisInv'
  <2>. SUFFICES ASSUME NEW h, h = AtTask("t08", i, None) PROVE AnalysisInv'
    OBVIOUS
  <2>1. "t08" \in {"attach"} \cup Step07 \cup Step08 \cup Step09 \cup Step10
    BY DEF Step08
  <2>2. i \in DOMAIN analyses /\ i \in Nat /\ None \in Nat
    BY RowFields DEF None, SameInput
  <2>3. h \in Analyst /\ h.at = "t08" /\ h.analysis = i
    BY <2>1, <2>2, TaskFields
  <2>4. AnalystHolds(h)
    BY <2>2, <2>3 DEF AnalystHolds, Step08, Step09, Step10
  <2>. QED
    BY <1>1, <1>3, <2>3, <2>4, QuietAnalyst
<1>. QED
  BY <1>2, <1>3 DEF LookupAnalysis

\* A pipeline that keeps its analysis, and nothing else that it must hold.
LEMMA WalksOn ==
    ASSUME AnalysisInv, UNCHANGED <<revision, issue, analyses, labels, priorities, reasons, applied>>,
           NEW p \in Analysts,
           analyst[p].at \in Step08 \cup Step09 \cup Step10,
           NEW at \in Step08 \cup {"t09", "decide"}, NowAt(p, at),
           at \in {"supersede", "current"} => LabelsHold(analyst[p].analysis),
           at = "decide" => analyses[analyst[p].analysis].gated
    PROVE  AnalysisInv'
<1>. SUFFICES ASSUME NEW h, h = [analyst[p] EXCEPT !.at = at] PROVE AnalysisInv'
  OBVIOUS
<1>1. /\ h \in Analyst /\ h.at = at /\ h.analysis = analyst[p].analysis
      /\ analyst' = [analyst EXCEPT ![p] = h]
  BY MovedFields DEF Step09
<1>2. h.analysis \in DOMAIN analyses
  BY <1>1, AnalystFields DEF AnalystHolds
<1>3. AnalystHolds(h)
  BY <1>1, <1>2 DEF AnalystHolds, Step08, Step09, Step10
<1>. QED
  BY <1>1, <1>3, QuietAnalyst

LEMMA GateReadsHold ==
    ASSUME AnalysisInv, NEW p \in Analysts,
           \/ ReadAnalysis(p) \/ LookupLabels(p) \/ BeginGate(p) \/ CheckEvidence(p) \/ CheckLabels(p)
    PROVE  AnalysisInv'
<1>1. UNCHANGED <<revision, issue, analyses, labels, priorities, reasons, applied>>
  BY DEF ReadAnalysis, LookupLabels, BeginGate, CheckEvidence, CheckLabels
<1>2. analyst[p].at \in Step08
  BY DEF ReadAnalysis, LookupLabels, BeginGate, CheckEvidence, CheckLabels, StepAt, Step08
<1>3. CASE ReadAnalysis(p)
  <2>1. PICK at \in {"label", "gate"} : NowAt(p, at)
    BY <1>3 DEF ReadAnalysis
  <2>. QED
    BY <1>1, <1>2, <2>1, WalksOn DEF Step08
<1>4. CASE LookupLabels(p)
  <2>1. PICK at \in {"insert labels", "gate"} : NowAt(p, at)
    BY <1>4 DEF LookupLabels
  <2>. QED
    BY <1>1, <1>2, <2>1, WalksOn DEF Step08
<1>5. CASE BeginGate(p)
  BY <1>1, <1>2, <1>5, WalksOn DEF BeginGate, Step08
<1>6. CASE CheckEvidence(p)
  BY <1>1, <1>2, <1>6, WalksOn DEF CheckEvidence, Step08
<1>7. CASE CheckLabels(p)
  BY <1>1, <1>2, <1>7, WalksOn DEF CheckLabels, Step08
<1>. QED
  BY <1>3, <1>4, <1>5, <1>6, <1>7

LEMMA ReadCurrentHolds ==
    ASSUME AnalysisInv, NEW p \in Analysts, ReadCurrent(p)
    PROVE  AnalysisInv'
<1>1. /\ analyst[p].at = "t09" /\ analyses[analyst[p].analysis].gated
      /\ UNCHANGED <<revision, issue, analyses, labels, priorities, reasons, applied>>
  BY DEF ReadCurrent, StepAt, IsCurrent
<1>2. CASE DecisionsOn(analyst[p].analysis) = {}
  <2>1. NowAt(p, "decide")
    BY <1>2 DEF ReadCurrent, NowAt
  <2>. QED
    BY <1>1, <2>1, WalksOn DEF Step08, Step09
<1>3. CASE DecisionsOn(analyst[p].analysis) # {}
  <2>. SUFFICES ASSUME NEW d, d = LatestOn(analyst[p].analysis) PROVE AnalysisInv'
    OBVIOUS
  <2>1. d \in DOMAIN priorities /\ priorities[d].analysis = analyst[p].analysis /\ d \in Nat
    BY <1>3, LatestIsOne
  <2>2. analyst' = [analyst EXCEPT ![p].at = "t10", ![p].decision = d]
    BY <1>3 DEF ReadCurrent
  <2>. SUFFICES ASSUME NEW h, h = [analyst[p] EXCEPT !.at = "t10", !.decision = d] PROVE AnalysisInv'
    OBVIOUS
  <2>3. analyst' = [analyst EXCEPT ![p] = h]
    BY <2>2, AnalystFields
  <2>4. h \in Analyst /\ h.at = "t10" /\ h.analysis = analyst[p].analysis /\ h.decision = d
    BY <2>1, AnalystFields DEF Analyst, Step10
  <2>5. analyst[p].analysis \in DOMAIN analyses
    BY <1>1, AnalystFields DEF AnalystHolds, Step09
  <2>6. AnalystHolds(h)
    BY <2>1, <2>4, <2>5 DEF AnalystHolds, Step08, Step09, Step10
  <2>. QED
    BY <1>1, <2>3, <2>4, <2>6, QuietAnalyst
<1>. QED
  BY <1>2, <1>3

LEMMA ReadDecisionRowHolds ==
    ASSUME AnalysisInv, NEW p \in Analysts, ReadDecisionRow(p)
    PROVE  AnalysisInv'
<1>1. /\ analyst[p].at = "t10" /\ Applied(p) /\ LabelsHold(analyst[p].analysis)
      /\ UNCHANGED <<revision, issue, analyses, labels, priorities, reasons, applied>>
  BY DEF ReadDecisionRow, StepAt
<1>2. CASE Explained(p)
  <2>1. analyst' = [analyst EXCEPT ![p] = AnalystIdle]
    BY <1>2 DEF ReadDecisionRow
  <2>. QED
    BY <1>1, <2>1, IdleFields, IdleAnalystHolds, QuietAnalyst
<1>3. CASE ~Explained(p)
  <2>. SUFFICES ASSUME NEW h, h = [analyst[p] EXCEPT !.at = "explain"] PROVE AnalysisInv'
    OBVIOUS
  <2>1. /\ h \in Analyst /\ h.at = "explain" /\ h.analysis = analyst[p].analysis
        /\ h.decision = analyst[p].decision
    BY MovedFields DEF Step10
  <2>2. analyst' = [analyst EXCEPT ![p] = h]
    BY <1>3 DEF ReadDecisionRow
  <2>3. /\ analyst[p].analysis \in DOMAIN analyses /\ analyst[p].decision \in DOMAIN priorities
        /\ priorities[analyst[p].decision].analysis = analyst[p].analysis
    BY <1>1, AnalystFields DEF AnalystHolds, Step10
  <2>4. analyst[p].decision \in applied
    <3>1. issue.decision = analyst[p].decision
      BY <1>1 DEF Applied
    <3>2. analyst[p].decision # None
      BY <2>3, RowFields DEF None
    <3>. QED
      BY <3>1, <3>2 DEF AnalysisInv, PriorityIsGrounded
  <2>5. AnalystHolds(h)
    BY <1>1, <2>1, <2>3, <2>4 DEF AnalystHolds, Step08, Step09, Step10
  <2>. QED
    BY <1>1, <2>1, <2>2, <2>5, QuietAnalyst
<1>. QED
  BY <1>2, <1>3

\* The steps that write.
LEMMA SourcesGrow ==
    ASSUME NEW S, NEW T, S \subseteq T
    PROVE  SourcesOf(S) \subseteq SourcesOf(T)
BY DEF SourcesOf

\* The issue, or an article, is written: no row is, and the issue keeps its priority.
LEMMA IssueGrows ==
    ASSUME AnalysisInv, UNCHANGED <<analyses, labels, priorities, reasons, applied>>,
           revision' \in [Sources -> 1 .. MaxRevisions],
           issue' \in Issue, issue.links \subseteq issue'.links,
           issue'.analysis = issue.analysis, issue'.decision = issue.decision,
           issue'.priority = issue.priority,
           Grows => analyst' \in [Analysts -> Analyst] /\ \A q \in Analysts : AnalystHolds(analyst[q])'
    PROVE  AnalysisInv'
<1>1. Grows
  BY DEF Grows
<1>2. AnalysisTypeOK'
  BY <1>1 DEF AnalysisInv, AnalysisTypeOK
<1>3. SourcesOf(issue.links) \subseteq SourcesOf(issue'.links)
  BY SourcesGrow
<1>4. EvidenceIsLinked' /\ DecisionsAreOnAnalyses' /\ PriorityIsGrounded'
  BY DEF AnalysisInv, EvidenceIsLinked, DecisionsAreOnAnalyses, PriorityIsGrounded
<1>5. \A id : LabelsHold(id)' <=> LabelsHold(id)
  BY DEF LabelsHold, LabelsOf
<1>6. ReasonsExplainApplied'
  BY <1>5 DEF AnalysisInv, ReasonsExplainApplied
<1>7. PromotedWasGated'
  <2>. SUFFICES ASSUME NEW i \in DOMAIN analyses, analyses[i].status # "validated"
                PROVE  /\ analyses[i].gated /\ LabelsHold(i)'
                       /\ analyses[i].claims \subseteq SourcesOf(issue'.links)
    BY DEF PromotedWasGated, SourcesOf
  <2>1. analyses[i].gated /\ LabelsHold(i) /\ analyses[i].claims \subseteq SourcesOf(issue.links)
    BY DEF AnalysisInv, PromotedWasGated
  <2>. QED
    BY <1>3, <1>5, <2>1
<1>. QED
  BY <1>1, <1>2, <1>4, <1>6, <1>7 DEF AnalysisInv

LEMMA OthersWait ==
    ASSUME AnalysisInv, Grows, UNCHANGED analyst
    PROVE  analyst' \in [Analysts -> Analyst] /\ \A q \in Analysts : AnalystHolds(analyst[q])'
<1>1. ASSUME NEW q \in Analysts PROVE AnalystHolds(analyst[q])'
  <2>. SUFFICES ASSUME NEW g, g = analyst'[q] PROVE AnalystHolds(g)'
    BY DEF AnalystHolds
  <2>1. g = analyst[q] /\ AnalystHolds(analyst[q])
    BY DEF AnalysisInv
  <2>2. AnalystHolds(g)
    BY <2>1
  <2>. QED
    BY <2>2, AnalystWaits
<1>. QED
  BY <1>1 DEF AnalysisInv, AnalysisTypeOK

LEMMA SurroundingsHold ==
    ASSUME AnalysisInv, CloseIssue \/ \E a \in Sources : Publish(a)
    PROVE  AnalysisInv'
<1>0. revision \in [Sources -> 1 .. MaxRevisions] /\ issue \in Issue
  BY DEF AnalysisInv, AnalysisTypeOK
<1>1. CASE CloseIssue
  <2>1. /\ issue' = [issue EXCEPT !.open = FALSE, !.version = @ + 1] /\ issue.version < MaxIssueVersion
        /\ UNCHANGED <<revision, analyses, labels, priorities, reasons, analyst, applied>>
    BY <1>1 DEF CloseIssue
  <2>2. issue.version + 1 \in 1 .. MaxIssueVersion
    BY <2>1, RowFields
  <2>3. /\ issue' \in Issue /\ issue'.links = issue.links /\ issue'.analysis = issue.analysis
        /\ issue'.decision = issue.decision /\ issue'.priority = issue.priority
    BY <1>0, <2>1, <2>2 DEF Issue
  <2>. QED
    BY <1>0, <2>1, <2>3, OthersWait, IssueGrows
<1>2. ASSUME NEW a \in Sources, Publish(a) PROVE AnalysisInv'
  <2>1. /\ revision' = [revision EXCEPT ![a] = @ + 1] /\ revision[a] < MaxRevisions
        /\ UNCHANGED <<issue, analyses, labels, priorities, reasons, analyst, applied>>
    BY <1>2 DEF Publish
  <2>2. revision[a] + 1 \in 1 .. MaxRevisions
    BY <1>0, <2>1
  <2>3. revision' \in [Sources -> 1 .. MaxRevisions]
    BY <1>0, <2>1, <2>2
  <2>. QED
    BY <1>0, <2>1, <2>3, OthersWait, IssueGrows
<1>. QED
  BY <1>1, <1>2

LEMMA AttachArticleHolds ==
    ASSUME AnalysisInv, NEW p \in Analysts, AttachArticle(p)
    PROVE  AnalysisInv'
<1>0. revision \in [Sources -> 1 .. MaxRevisions] /\ issue \in Issue
  BY DEF AnalysisInv, AnalysisTypeOK
<1>1. NowAt(p, "t07") /\ UNCHANGED <<revision, analyses, labels, priorities, reasons, applied>>
  BY DEF AttachArticle
<1>2. PICK a \in Sources :
          /\ <<a, revision[a]>> \notin issue.links => issue.version < MaxIssueVersion
          /\ issue' = IF <<a, revision[a]>> \notin issue.links
                      THEN [issue EXCEPT !.links = @ \cup {<<a, revision[a]>>}, !.version = @ + 1]
                      ELSE issue
  BY DEF AttachArticle
<1>3. <<a, revision[a]>> \in Evidence
  BY <1>0 DEF Evidence
<1>4. /\ issue' \in Issue /\ issue.links \subseteq issue'.links /\ issue'.analysis = issue.analysis
      /\ issue'.decision = issue.decision /\ issue'.priority = issue.priority
  <2>1. CASE <<a, revision[a]>> \in issue.links
    BY <1>0, <1>2, <2>1
  <2>2. CASE <<a, revision[a]>> \notin issue.links
    <3>1. issue.version + 1 \in 1 .. MaxIssueVersion
      BY <1>2, <2>2, RowFields
    <3>2. issue.links \cup {<<a, revision[a]>>} \in SUBSET Evidence
      BY <1>3, RowFields
    <3>. QED
      BY <1>0, <1>2, <2>2, <3>1, <3>2 DEF Issue
  <2>. QED
    BY <2>1, <2>2
<1>. SUFFICES ASSUME NEW h, h = [analyst[p] EXCEPT !.at = "t07"] PROVE AnalysisInv'
  OBVIOUS
<1>5. h \in Analyst /\ h.at = "t07" /\ analyst' = [analyst EXCEPT ![p] = h]
  BY <1>1, MovedFields DEF Step07
<1>6. AnalystHolds(h)'
  BY <1>5 DEF AnalystHolds, Step08, Step09, Step10
<1>. QED
  BY <1>0, <1>1, <1>4, <1>5, <1>6, AnalystMoves, IssueGrows

\* The priority of an issue that is not written stays on the rows it names.
LEMMA GroundedStays ==
    ASSUME AnalysisInv, Grows, UNCHANGED issue
    PROVE  PriorityIsGrounded'
<1>. SUFFICES ASSUME issue.decision # None
              PROVE  /\ issue.decision \in applied'
                     /\ priorities'[issue.decision] = [analysis |-> issue.analysis, priority |-> issue.priority]
                     /\ analyses'[issue.analysis].gated
  BY DEF PriorityIsGrounded
<1>1. /\ issue.decision \in applied /\ issue.decision \in DOMAIN priorities
      /\ priorities[issue.decision] = [analysis |-> issue.analysis, priority |-> issue.priority]
      /\ analyses[issue.analysis].gated
  BY DEF AnalysisInv, PriorityIsGrounded, DecisionsAreOnAnalyses
<1>2. issue.analysis \in DOMAIN analyses
  BY <1>1 DEF AnalysisInv, DecisionsAreOnAnalyses
<1>. QED
  BY <1>1, <1>2 DEF Grows

\* Reasons stay on decisions that were applied.
LEMMA ReasonsStay ==
    ASSUME AnalysisInv, Grows, UNCHANGED reasons
    PROVE  ReasonsExplainApplied'
<1>. SUFFICES ASSUME NEW d \in reasons, NEW id, id = priorities'[d].analysis
              PROVE  d \in applied' /\ LabelsHold(id)'
  BY DEF ReasonsExplainApplied, LabelsHold, LabelsOf
<1>1. d \in applied /\ LabelsHold(priorities[d].analysis) /\ d \in DOMAIN priorities
  BY DEF AnalysisInv, ReasonsExplainApplied, DecisionsAreOnAnalyses
<1>2. id = priorities[d].analysis /\ id \in DOMAIN analyses
  BY <1>1 DEF Grows, AnalysisInv, DecisionsAreOnAnalyses
<1>3. LabelsHold(id)
  BY <1>1, <1>2
<1>. QED
  BY <1>1, <1>2, <1>3, LabelsStay DEF Grows

LEMMA CreateAnalysisHolds ==
    ASSUME AnalysisInv, NEW p \in Analysts, CreateAnalysis(p)
    PROVE  AnalysisInv'
<1>1. /\ analyst[p].at = "analyze"
      /\ analyst' = [analyst EXCEPT ![p] = AtTask("t08", Len(analyses) + 1, None)]
      /\ UNCHANGED <<revision, issue, labels, priorities, reasons, applied>>
  BY DEF CreateAnalysis, StepAt
<1>2. PICK claims \in Reviewed(analyst[p].evidence) :
          analyses' = Append(analyses, [version |-> analyst[p].version, evidence |-> analyst[p].evidence,
                                        claims |-> claims, status |-> "validated", gated |-> FALSE])
  BY DEF CreateAnalysis
<1>3. claims \in SUBSET Sources /\ claims \subseteq SourcesOf(analyst[p].evidence)
  BY DEF Reviewed, PerspectiveReview, Candidates, ValidAnalysis
<1>4. analyst[p].version > 0 /\ analyst[p].evidence \subseteq issue.links
  BY <1>1, AnalystFields DEF AnalystHolds
<1>. SUFFICES ASSUME NEW added, added = [version |-> analyst[p].version, evidence |-> analyst[p].evidence,
                                     claims |-> claims, status |-> "validated", gated |-> FALSE],
                     NEW n, n = Len(analyses)
              PROVE  AnalysisInv'
  OBVIOUS
<1>5. added \in Analysis
  <2>1. analyst[p].version \in 1 .. MaxIssueVersion /\ analyst[p].evidence \in SUBSET Evidence
    BY <1>4, AnalystFields
  <2>. QED
    BY <1>3, <2>1 DEF Analysis
<1>6. /\ analyses' \in Seq(Analysis) /\ DOMAIN analyses' = 1 .. n + 1 /\ DOMAIN analyses = 1 .. n
      /\ analyses'[n + 1] = added /\ n \in Nat /\ analyses' = Append(analyses, added)
      /\ \A i \in 1 .. n : analyses'[i] = analyses[i]
  BY <1>2, <1>5, RowFields
<1>7. DOMAIN analyses' = DOMAIN analyses \cup {n + 1}
  BY <1>6
<1>8. Grows
  BY <1>1, <1>6, <1>7 DEF Grows
<1>. SUFFICES ASSUME NEW h, h = AtTask("t08", n + 1, None) PROVE AnalysisInv'
  OBVIOUS
<1>9. h \in Analyst /\ h.at = "t08" /\ h.analysis = n + 1
  <2>. DEFINE m == n + 1
  <2>1. m \in Nat /\ None \in Nat
    BY <1>6 DEF None
  <2>2. "t08" \in Step08
    BY DEF Step08
  <2>. HIDE DEF m
  <2>3. AtTask("t08", m, None) \in Analyst /\ AtTask("t08", m, None).at = "t08"
        /\ AtTask("t08", m, None).analysis = m
    BY <2>1, <2>2, TaskFields
  <2>. QED
    BY <2>3 DEF m
<1>10. AnalystHolds(h)'
  BY <1>7, <1>9 DEF AnalystHolds, Step08, Step09, Step10
<1>11. analyst' \in [Analysts -> Analyst] /\ \A q \in Analysts : AnalystHolds(analyst[q])'
  BY <1>1, <1>8, <1>9, <1>10, AnalystMoves
<1>12. AnalysisTypeOK'
  BY <1>1, <1>6, <1>11 DEF AnalysisInv, AnalysisTypeOK
<1>13. EvidenceIsLinked'
  <2>. SUFFICES ASSUME NEW i \in DOMAIN analyses'
                PROVE  /\ analyses'[i].evidence \subseteq issue.links
                       /\ analyses'[i].claims \subseteq SourcesOf(analyses'[i].evidence)
    BY <1>1 DEF EvidenceIsLinked, SourcesOf
  <2>1. CASE i \in DOMAIN analyses
    BY <1>6, <2>1 DEF AnalysisInv, EvidenceIsLinked
  <2>2. CASE i = n + 1
    BY <1>3, <1>4, <1>6, <2>2
  <2>. QED
    BY <1>7, <2>1, <2>2
<1>14. DecisionsAreOnAnalyses'
  BY <1>1, <1>7 DEF AnalysisInv, DecisionsAreOnAnalyses
<1>15. PromotedWasGated'
  <2>. SUFFICES ASSUME NEW i \in DOMAIN analyses', analyses'[i].status # "validated"
                PROVE  /\ analyses'[i].gated /\ LabelsHold(i)'
                       /\ analyses'[i].claims \subseteq SourcesOf(issue.links)
    BY <1>1 DEF PromotedWasGated, SourcesOf
  <2>1. i \in DOMAIN analyses /\ analyses'[i] = analyses[i]
    <3>1. i # n + 1
      BY <1>6
    <3>. QED
      BY <1>6, <1>7, <3>1
  <2>2. analyses[i].gated /\ LabelsHold(i) /\ analyses[i].claims \subseteq SourcesOf(issue.links)
    BY <2>1 DEF AnalysisInv, PromotedWasGated
  <2>. QED
    BY <1>8, <2>1, <2>2, LabelsStay
<1>16. PriorityIsGrounded' /\ ReasonsExplainApplied'
  BY <1>1, <1>8, GroundedStays, ReasonsStay
<1>. QED
  BY <1>11, <1>12, <1>13, <1>14, <1>15, <1>16 DEF AnalysisInv

\* The analyses are not written.
LEMMA AnalysesStay ==
    ASSUME AnalysisInv, Grows, UNCHANGED analyses
    PROVE  PromotedWasGated' /\ EvidenceIsLinked'
<1>1. SourcesOf(issue.links) \subseteq SourcesOf(issue'.links)
  BY SourcesGrow DEF Grows
<1>2. EvidenceIsLinked'
  BY DEF AnalysisInv, EvidenceIsLinked, Grows
<1>3. PromotedWasGated'
  <2>. SUFFICES ASSUME NEW i \in DOMAIN analyses, analyses[i].status # "validated"
                PROVE  /\ analyses[i].gated /\ LabelsHold(i)'
                       /\ analyses[i].claims \subseteq SourcesOf(issue'.links)
    BY DEF PromotedWasGated, SourcesOf
  <2>1. analyses[i].gated /\ LabelsHold(i) /\ analyses[i].claims \subseteq SourcesOf(issue.links)
    BY DEF AnalysisInv, PromotedWasGated
  <2>. QED
    BY <1>1, <2>1, LabelsStay
<1>. QED
  BY <1>2, <1>3

LEMMA InsertLabelsHolds ==
    ASSUME AnalysisInv, NEW p \in Analysts, InsertLabels(p)
    PROVE  AnalysisInv'
<1>1. /\ analyst[p].at = "insert labels" /\ NowAt(p, "gate")
      /\ UNCHANGED <<revision, issue, analyses, priorities, reasons, applied>>
  BY DEF InsertLabels, StepAt
<1>2. PICK claims \in SUBSET Sources :
          labels' = labels \cup {[analysis |-> analyst[p].analysis, claims |-> claims]}
  BY DEF InsertLabels
<1>3. Grows
  BY <1>1, <1>2 DEF Grows
<1>. SUFFICES ASSUME NEW h, h = [analyst[p] EXCEPT !.at = "gate"] PROVE AnalysisInv'
  OBVIOUS
<1>4. /\ h \in Analyst /\ h.at = "gate" /\ h.analysis = analyst[p].analysis
      /\ analyst' = [analyst EXCEPT ![p] = h]
  <2>1. "gate" \in {"attach"} \cup Step07 \cup Step08 \cup Step09 \cup Step10
    BY DEF Step08
  <2>2. /\ h \in Analyst /\ h.at = "gate" /\ h.analysis = analyst[p].analysis
        /\ NowAt(p, "gate") => analyst' = [analyst EXCEPT ![p] = h]
    BY <2>1, MovedFields
  <2>. QED
    BY <1>1, <2>2
<1>5. h.analysis \in DOMAIN analyses
  BY <1>1, <1>4, AnalystFields DEF AnalystHolds, Step08
<1>6. AnalystHolds(h)'
  BY <1>1, <1>4, <1>5 DEF AnalystHolds, Step08, Step09, Step10
<1>7. analyst' \in [Analysts -> Analyst] /\ \A q \in Analysts : AnalystHolds(analyst[q])'
  BY <1>3, <1>4, <1>6, AnalystMoves
<1>8. labels' \subseteq Labels
  <2>1. [analysis |-> analyst[p].analysis, claims |-> claims] \in Labels
    BY AnalystFields DEF Labels
  <2>. QED
    BY <1>2, <2>1 DEF AnalysisInv, AnalysisTypeOK
<1>9. AnalysisTypeOK' /\ DecisionsAreOnAnalyses'
  BY <1>1, <1>7, <1>8 DEF AnalysisInv, AnalysisTypeOK, DecisionsAreOnAnalyses
<1>. QED
  BY <1>1, <1>3, <1>7, <1>9, AnalysesStay, GroundedStays, ReasonsStay DEF AnalysisInv

\* Only the status of analyses changes: what leaves "validated" is gated and labelled.
LEMMA StatusChanges ==
    ASSUME AnalysisInv, UNCHANGED <<revision, issue, labels, priorities, reasons, applied>>,
           analyses' \in Seq(Analysis), DOMAIN analyses' = DOMAIN analyses,
           \A i \in DOMAIN analyses :
               /\ analyses'[i].claims = analyses[i].claims /\ analyses'[i].evidence = analyses[i].evidence
               /\ analyses[i].gated => analyses'[i].gated
               /\ analyses'[i].status # "validated" => \/ analyses[i].status # "validated"
                                                       \/ analyses'[i].gated /\ LabelsHold(i),
           NEW p \in Analysts, analyst[p].at \in {"supersede", "current"},
           NEW at \in {"current", "t09"}, NowAt(p, at)
    PROVE  AnalysisInv'
<1>1. Grows
  BY DEF Grows
<1>. SUFFICES ASSUME NEW h, h = [analyst[p] EXCEPT !.at = at] PROVE AnalysisInv'
  OBVIOUS
<1>2. /\ h \in Analyst /\ h.at = at /\ h.analysis = analyst[p].analysis
      /\ analyst' = [analyst EXCEPT ![p] = h]
  <2>1. at \in {"attach"} \cup Step07 \cup Step08 \cup Step09 \cup Step10
    BY DEF Step08, Step09
  <2>. QED
    BY ONLY AnalysisInv, p \in Analysts, h = [analyst[p] EXCEPT !.at = at], NowAt(p, at), <2>1, MovedFields
<1>3. h.analysis \in DOMAIN analyses /\ LabelsHold(h.analysis)
  BY <1>2, AnalystFields DEF AnalystHolds, Step08
<1>4. AnalystHolds(h)'
  <2>1. LabelsHold(h.analysis)'
    BY <1>1, <1>3, LabelsStay
  <2>. QED
    BY <1>2, <1>3, <2>1 DEF AnalystHolds, Step08, Step09, Step10
<1>5. analyst' \in [Analysts -> Analyst] /\ \A q \in Analysts : AnalystHolds(analyst[q])'
  BY <1>1, <1>2, <1>4, AnalystMoves
<1>6. AnalysisTypeOK' /\ DecisionsAreOnAnalyses'
  BY <1>5 DEF AnalysisInv, AnalysisTypeOK, DecisionsAreOnAnalyses
<1>7. EvidenceIsLinked'
  BY DEF AnalysisInv, EvidenceIsLinked, SourcesOf
<1>8. PromotedWasGated'
  <2>. SUFFICES ASSUME NEW i \in DOMAIN analyses, analyses'[i].status # "validated"
                PROVE  /\ analyses'[i].gated /\ LabelsHold(i)'
                       /\ analyses'[i].claims \subseteq SourcesOf(issue.links)
    BY DEF PromotedWasGated, SourcesOf
  <2>1. analyses'[i].gated /\ LabelsHold(i)
    BY DEF AnalysisInv, PromotedWasGated
  <2>2. SourcesOf(analyses[i].evidence) \subseteq SourcesOf(issue.links)
    BY SourcesGrow DEF AnalysisInv, EvidenceIsLinked
  <2>3. analyses'[i].claims \subseteq SourcesOf(analyses[i].evidence)
    BY DEF AnalysisInv, EvidenceIsLinked
  <2>. QED
    BY <1>1, <2>1, <2>2, <2>3, LabelsStay
<1>. QED
  BY <1>1, <1>5, <1>6, <1>7, <1>8, GroundedStays, ReasonsStay DEF AnalysisInv

\* Supersede and PromoteCurrent change only the status, and the mark of the gate.
LEMMA SupersedeFields ==
    ASSUME AnalysisInv, NEW p \in Analysts, Supersede(p)
    PROVE  /\ analyses' \in Seq(Analysis) /\ DOMAIN analyses' = DOMAIN analyses
           /\ \A i \in DOMAIN analyses :
                 /\ analyses'[i].claims = analyses[i].claims /\ analyses'[i].evidence = analyses[i].evidence
                 /\ analyses'[i].gated = analyses[i].gated
                 /\ analyses'[i].status = IF i # analyst[p].analysis /\ analyses[i].status = "current"
                                          THEN "superseded" ELSE analyses[i].status
<1>. DEFINE New(i) == IF i # analyst[p].analysis /\ analyses[i].status = "current"
                      THEN [analyses[i] EXCEPT !.status = "superseded"] ELSE analyses[i]
<1>1. analyses' = [i \in DOMAIN analyses |-> New(i)]
  BY DEF Supersede
<1>2. DOMAIN analyses = 1 .. Len(analyses) /\ Len(analyses) \in Nat
      /\ \A i \in DOMAIN analyses : analyses[i] \in Analysis
  BY RowFields
<1>3. \A i \in DOMAIN analyses :
          /\ New(i) \in Analysis
          /\ New(i).claims = analyses[i].claims /\ New(i).evidence = analyses[i].evidence
          /\ New(i).gated = analyses[i].gated
          /\ New(i).status = IF i # analyst[p].analysis /\ analyses[i].status = "current"
                             THEN "superseded" ELSE analyses[i].status
  BY <1>2 DEF Analysis
<1>. HIDE DEF New
<1>4. analyses' \in Seq(Analysis)
  <2>1. analyses' \in [1 .. Len(analyses) -> Analysis]
    BY <1>1, <1>2, <1>3
  <2>. QED
    BY <1>2, <2>1
<1>. QED
  BY <1>1, <1>3, <1>4

LEMMA PromoteFields ==
    ASSUME AnalysisInv, NEW p \in Analysts, PromoteCurrent(p)
    PROVE  /\ analyses' \in Seq(Analysis) /\ DOMAIN analyses' = DOMAIN analyses
           /\ \A i \in DOMAIN analyses :
                 /\ analyses'[i].claims = analyses[i].claims /\ analyses'[i].evidence = analyses[i].evidence
                 /\ \/ analyses'[i] = analyses[i]
                    \/ /\ i = analyst[p].analysis /\ analyses[i].status = "validated"
                       /\ analyses'[i].status = "current" /\ analyses'[i].gated
<1>1. CASE analyses' = analyses
  BY <1>1, RowFields
<1>2. CASE analyses' # analyses
  <2>. SUFFICES ASSUME NEW id, id = analyst[p].analysis,
                       NEW promoted, promoted = [analyses[id] EXCEPT !.status = "current", !.gated = TRUE]
                PROVE  /\ analyses' \in Seq(Analysis) /\ DOMAIN analyses' = DOMAIN analyses
                       /\ \A i \in DOMAIN analyses :
                             /\ analyses'[i].claims = analyses[i].claims
                             /\ analyses'[i].evidence = analyses[i].evidence
                             /\ \/ analyses'[i] = analyses[i]
                                \/ /\ i = id /\ analyses[i].status = "validated"
                                   /\ analyses'[i].status = "current" /\ analyses'[i].gated
    OBVIOUS
  <2>1. analyses[id].status = "validated"
        /\ analyses' = [analyses EXCEPT ![id].status = "current", ![id].gated = TRUE]
    BY <1>2 DEF PromoteCurrent, Mine
  <2>2. id \in DOMAIN analyses
    BY AnalystFields DEF AnalystHolds, PromoteCurrent, StepAt, Step08
  <2>3. analyses[id] \in Analysis
    BY <2>2, RowFields
  <2>4. /\ promoted \in Analysis /\ promoted.claims = analyses[id].claims /\ promoted.evidence = analyses[id].evidence
        /\ promoted.status = "current" /\ promoted.gated
    BY <2>3 DEF Analysis
  <2>5. analyses' = [analyses EXCEPT ![id] = promoted]
    BY <2>1, <2>2
  <2>. QED
    BY <2>1, <2>2, <2>4, <2>5, RowFields
<1>. QED
  BY <1>1, <1>2

LEMMA PromotionsHold ==
    ASSUME AnalysisInv, NEW p \in Analysts, Supersede(p) \/ PromoteCurrent(p)
    PROVE  AnalysisInv'
<1>1. CASE Supersede(p)
  <2>1. /\ analyst[p].at = "supersede" /\ NowAt(p, "current")
        /\ UNCHANGED <<revision, issue, labels, priorities, reasons, applied>>
    BY <1>1 DEF Supersede, StepAt
  <2>2. \A i \in DOMAIN analyses : analyses'[i].status # "validated" => analyses[i].status # "validated"
    BY <1>1, SupersedeFields
  <2>. QED
    BY <1>1, <2>1, <2>2, SupersedeFields, StatusChanges
<1>2. CASE PromoteCurrent(p)
  <2>1. /\ analyst[p].at = "current" /\ NowAt(p, "t09")
        /\ UNCHANGED <<revision, issue, labels, priorities, reasons, applied>>
    BY <1>2 DEF PromoteCurrent, StepAt
  <2>2. LabelsHold(analyst[p].analysis)
    BY <2>1, AnalystFields DEF AnalystHolds
  <2>3. \A i \in DOMAIN analyses :
            /\ analyses[i].gated => analyses'[i].gated
            /\ analyses'[i].status # "validated" => \/ analyses[i].status # "validated"
                                                    \/ analyses'[i].gated /\ LabelsHold(i)
    BY <1>2, <2>2, PromoteFields
  <2>. QED
    BY <1>2, <2>1, <2>3, PromoteFields, StatusChanges
<1>. QED
  BY <1>1, <1>2

LEMMA CreateDecisionRowHolds ==
    ASSUME AnalysisInv, NEW p \in Analysts, CreateDecisionRow(p)
    PROVE  AnalysisInv'
<1>1. /\ analyst[p].at = "decide" /\ Len(priorities) < MaxDecisions
      /\ analyst' = [analyst EXCEPT ![p].at = "apply", ![p].decision = Len(priorities) + 1]
      /\ UNCHANGED <<revision, issue, analyses, labels, reasons, applied>>
  BY DEF CreateDecisionRow, StepAt
<1>2. PICK priority \in Priorities :
          priorities' = Append(priorities, [analysis |-> analyst[p].analysis, priority |-> priority])
  BY DEF CreateDecisionRow
<1>3. analyst[p].analysis \in DOMAIN analyses /\ analyses[analyst[p].analysis].gated
  BY <1>1, AnalystFields DEF AnalystHolds, Step09
<1>. SUFFICES ASSUME NEW added, added = [analysis |-> analyst[p].analysis, priority |-> priority],
                     NEW n, n = Len(priorities)
              PROVE  AnalysisInv'
  OBVIOUS
<1>4. added \in Decided /\ added.analysis = analyst[p].analysis
  BY AnalystFields DEF Decided
<1>5. /\ priorities' \in Seq(Decided) /\ DOMAIN priorities' = 1 .. n + 1 /\ DOMAIN priorities = 1 .. n
      /\ priorities'[n + 1] = added /\ n \in Nat /\ Len(priorities') = n + 1
      /\ \A d \in 1 .. n : priorities'[d] = priorities[d]
  BY <1>2, <1>4, RowFields
<1>6. DOMAIN priorities' = DOMAIN priorities \cup {n + 1}
  BY <1>5
<1>7. Grows
  BY <1>1, <1>5, <1>6 DEF Grows
<1>. SUFFICES ASSUME NEW d, d = n + 1,
                     NEW h, h = [analyst[p] EXCEPT !.at = "apply", !.decision = d] PROVE AnalysisInv'
  OBVIOUS
<1>8. /\ h \in Analyst /\ h.at = "apply" /\ h.analysis = analyst[p].analysis /\ h.decision = d
  <2>1. d \in Nat /\ "apply" \in Step09
    BY <1>5 DEF Step09
  <2>. QED
    BY <2>1, AnalystFields DEF Analyst
<1>9. analyst' = [analyst EXCEPT ![p] = h]
  <2>1. analyst' = [analyst EXCEPT ![p].at = "apply", ![p].decision = d]
    BY <1>1
  <2>. QED
    BY ONLY <2>1, AnalysisInv, p \in Analysts, h = [analyst[p] EXCEPT !.at = "apply", !.decision = d],
            AnalystFields
<1>10. AnalystHolds(h)'
  <2>1. h.decision \in DOMAIN priorities' /\ priorities'[h.decision].analysis = h.analysis
    BY <1>4, <1>5, <1>6, <1>8
  <2>. QED
    BY <1>1, <1>3, <1>8, <2>1 DEF AnalystHolds, Step08, Step09, Step10
<1>11. analyst' \in [Analysts -> Analyst] /\ \A q \in Analysts : AnalystHolds(analyst[q])'
  BY <1>7, <1>8, <1>9, <1>10, AnalystMoves
<1>12. AnalysisTypeOK'
  BY <1>1, <1>5, <1>11 DEF AnalysisInv, AnalysisTypeOK
<1>13. DecisionsAreOnAnalyses'
  <2>1. n + 1 <= MaxDecisions
    BY <1>1, <1>5
  <2>2. applied \subseteq DOMAIN priorities'
    BY <1>6 DEF AnalysisInv, DecisionsAreOnAnalyses
  <2>3. \A e \in DOMAIN priorities' : priorities'[e].analysis \in DOMAIN analyses
    BY <1>3, <1>4, <1>5, <1>6 DEF AnalysisInv, DecisionsAreOnAnalyses
  <2>. QED
    BY <1>1, <1>5, <2>1, <2>2, <2>3 DEF DecisionsAreOnAnalyses
<1>. QED
  BY <1>1, <1>7, <1>11, <1>12, <1>13, AnalysesStay, GroundedStays, ReasonsStay DEF AnalysisInv

LEMMA ApplyCurrentPriorityHolds ==
    ASSUME AnalysisInv, NEW p \in Analysts, ApplyCurrentPriority(p)
    PROVE  AnalysisInv'
<1>. SUFFICES ASSUME NEW id, id = analyst[p].analysis, NEW d, d = analyst[p].decision
              PROVE  AnalysisInv'
  OBVIOUS
<1>1. /\ analyst[p].at = "apply" /\ NowAt(p, "t10") /\ issue.version < MaxIssueVersion
      /\ issue' = [issue EXCEPT !.analysis = id, !.decision = d,
                                !.priority = priorities[d].priority, !.version = @ + 1]
      /\ applied' = applied \cup {d}
      /\ UNCHANGED <<revision, analyses, labels, priorities, reasons>>
  BY DEF ApplyCurrentPriority, StepAt
<1>2. /\ id \in DOMAIN analyses /\ analyses[id].gated
      /\ d \in DOMAIN priorities /\ priorities[d].analysis = id
  BY <1>1, AnalystFields DEF AnalystHolds, Step09
<1>3. id \in Nat /\ d \in 1 .. MaxDecisions /\ priorities[d].priority \in Priorities
  BY <1>2, RowFields
<1>4. /\ issue' \in Issue /\ issue'.links = issue.links /\ issue'.analysis = id
      /\ issue'.decision = d /\ issue'.priority = priorities[d].priority
  <2>1. issue.version + 1 \in 1 .. MaxIssueVersion /\ d \in Nat
    BY <1>1, <1>3, RowFields
  <2>2. issue \in Issue
    BY RowFields
  <2>. QED
    BY <1>1, <1>3, <2>1, <2>2 DEF Issue
<1>5. Grows
  BY <1>1, <1>4 DEF Grows
<1>. SUFFICES ASSUME NEW h, h = [analyst[p] EXCEPT !.at = "t10"] PROVE AnalysisInv'
  OBVIOUS
<1>6. /\ h \in Analyst /\ h.at = "t10" /\ h.analysis = id /\ h.decision = d
      /\ analyst' = [analyst EXCEPT ![p] = h]
  <2>1. "t10" \in {"attach"} \cup Step07 \cup Step08 \cup Step09 \cup Step10
    BY DEF Step10
  <2>. QED
    BY <1>1, <2>1, MovedFields
<1>7. AnalystHolds(h)'
  BY <1>1, <1>2, <1>6 DEF AnalystHolds, Step08, Step09, Step10
<1>8. analyst' \in [Analysts -> Analyst] /\ \A q \in Analysts : AnalystHolds(analyst[q])'
  BY <1>5, <1>6, <1>7, AnalystMoves
<1>9. AnalysisTypeOK'
  BY <1>1, <1>3, <1>4, <1>8 DEF AnalysisInv, AnalysisTypeOK
<1>10. DecisionsAreOnAnalyses'
  BY <1>1, <1>2 DEF AnalysisInv, DecisionsAreOnAnalyses
<1>11. PriorityIsGrounded'
  <2>1. priorities[d] = [analysis |-> id, priority |-> priorities[d].priority]
    <3>1. priorities[d] \in Decided
      BY <1>2, RowFields
    <3>. QED
      BY <1>2, <3>1 DEF Decided
  <2>. QED
    BY <1>1, <1>2, <1>4, <2>1 DEF PriorityIsGrounded
<1>. QED
  BY <1>1, <1>5, <1>8, <1>9, <1>10, <1>11, AnalysesStay, ReasonsStay DEF AnalysisInv

LEMMA CreateReasonHolds ==
    ASSUME AnalysisInv, NEW p \in Analysts, CreateReason(p)
    PROVE  AnalysisInv'
<1>1. /\ analyst[p].at = "explain" /\ reasons' = reasons \cup {analyst[p].decision}
      /\ analyst' = [analyst EXCEPT ![p] = AnalystIdle]
      /\ UNCHANGED <<revision, issue, analyses, labels, priorities, applied>>
  BY DEF CreateReason, StepAt
<1>2. /\ analyst[p].decision \in applied /\ analyst[p].decision \in DOMAIN priorities
      /\ LabelsHold(priorities[analyst[p].decision].analysis)
  BY <1>1, AnalystFields DEF AnalystHolds, Step10
<1>3. Grows
  BY <1>1 DEF Grows
<1>4. analyst' \in [Analysts -> Analyst] /\ \A q \in Analysts : AnalystHolds(analyst[q])'
  BY <1>1, <1>3, IdleFields, IdleAnalystHolds, AnalystMoves
<1>5. AnalysisTypeOK' /\ DecisionsAreOnAnalyses'
  BY <1>1, <1>2, <1>4, RowFields DEF AnalysisInv, AnalysisTypeOK, DecisionsAreOnAnalyses
<1>6. ReasonsExplainApplied'
  <2>1. \A id : LabelsHold(id)' <=> LabelsHold(id)
    BY <1>1 DEF LabelsHold, LabelsOf
  <2>2. \A d \in reasons' : d \in applied /\ LabelsHold(priorities[d].analysis)
    BY <1>1, <1>2 DEF AnalysisInv, ReasonsExplainApplied
  <2>. QED
    BY <1>1, <2>1, <2>2 DEF ReasonsExplainApplied
<1>. QED
  BY <1>1, <1>3, <1>4, <1>5, <1>6, AnalysesStay, GroundedStays DEF AnalysisInv

LEMMA AnalysisStepHolds == AnalysisInv /\ [AnalysisNext]_analysisVars => AnalysisInv'
<1>. SUFFICES ASSUME AnalysisInv, [AnalysisNext]_analysisVars PROVE AnalysisInv'
  OBVIOUS
<1>1. CASE CloseIssue \/ \E a \in Sources : Publish(a)
  BY <1>1, SurroundingsHold
<1>2. ASSUME NEW p \in Analysts,
             \/ AttachArticle(p) \/ CallTask(p) \/ TaskFails(p)
             \/ ReadWholeIssue(p) \/ LoadEvidence(p) \/ LookupAnalysis(p) \/ CreateAnalysis(p)
      PROVE  AnalysisInv'
  BY <1>2, AttachArticleHolds, CallTaskHolds, RepeatHolds, ReadWholeIssueHolds, LoadEvidenceHolds,
     LookupAnalysisHolds, CreateAnalysisHolds
<1>3. ASSUME NEW p \in Analysts,
             \/ ReadAnalysis(p) \/ LookupLabels(p) \/ InsertLabels(p)
             \/ BeginGate(p) \/ CheckEvidence(p) \/ CheckLabels(p) \/ Supersede(p) \/ PromoteCurrent(p)
      PROVE  AnalysisInv'
  BY <1>3, GateReadsHold, InsertLabelsHolds, PromotionsHold
<1>4. ASSUME NEW p \in Analysts,
             \/ ReadCurrent(p) \/ CreateDecisionRow(p) \/ ApplyCurrentPriority(p)
             \/ ReadDecisionRow(p) \/ CreateReason(p)
      PROVE  AnalysisInv'
  BY <1>4, ReadCurrentHolds, CreateDecisionRowHolds, ApplyCurrentPriorityHolds, ReadDecisionRowHolds,
     CreateReasonHolds
<1>5. CASE UNCHANGED analysisVars
  <2>1. Grows
    BY <1>5 DEF analysisVars, Grows
  <2>2. UNCHANGED <<revision, issue, analyses, labels, priorities, reasons, applied, analyst>>
    BY <1>5 DEF analysisVars
  <2>3. AnalysisTypeOK' /\ DecisionsAreOnAnalyses'
    BY <2>2 DEF AnalysisInv, AnalysisTypeOK, DecisionsAreOnAnalyses
  <2>. QED
    BY <2>1, <2>2, <2>3, OthersWait, AnalysesStay, GroundedStays, ReasonsStay DEF AnalysisInv
<1>. QED
  BY <1>1, <1>2, <1>3, <1>4, <1>5 DEF AnalysisNext

LEMMA AnalysisInitHolds == AnalysisInit => AnalysisInv
<1>. SUFFICES ASSUME AnalysisInit PROVE AnalysisInv
  OBVIOUS
<1>1. PICK a \in Sources :
          issue = [open |-> TRUE, version |-> 1, links |-> {<<a, 1>>}, analysis |-> None, decision |-> None,
                   priority |-> "none"]
  BY DEF AnalysisInit
<1>2. /\ revision = [b \in Sources |-> 1] /\ analyses = <<>> /\ labels = {} /\ priorities = <<>>
      /\ reasons = {} /\ analyst = [p \in Analysts |-> AnalystIdle] /\ applied = {}
  BY DEF AnalysisInit
<1>3. issue \in Issue /\ issue.decision = None
  <2>1. {<<a, 1>>} \in SUBSET Evidence /\ 1 \in 1 .. MaxIssueVersion /\ None \in Nat
    BY DEF Evidence, None
  <2>. QED
    BY <1>1, <2>1 DEF Issue
<1>4. AnalysisTypeOK
  <2>1. 1 \in 1 .. MaxRevisions
    OBVIOUS
  <2>2. analyses \in Seq(Analysis) /\ priorities \in Seq(Decided)
    BY <1>2
  <2>. QED
    BY <1>2, <1>3, <2>1, <2>2, IdleFields DEF AnalysisTypeOK
<1>5. EvidenceIsLinked /\ DecisionsAreOnAnalyses
  BY <1>2 DEF EvidenceIsLinked, DecisionsAreOnAnalyses
<1>6. \A p \in Analysts : AnalystHolds(analyst[p])
  BY <1>2, IdleAnalystHolds
<1>7. PromotedWasGated /\ PriorityIsGrounded /\ ReasonsExplainApplied
  BY <1>2, <1>3 DEF PromotedWasGated, PriorityIsGrounded, ReasonsExplainApplied
<1>. QED
  BY <1>4, <1>5, <1>6, <1>7 DEF AnalysisInv

LEMMA AnalysisInvariant == AnalysisSpec => []AnalysisInv
BY AnalysisInitHolds, AnalysisStepHolds, PTL DEF AnalysisSpec

\* A superseded analysis never comes back, and none returns to "validated": neither
\* of two promotions undoes the other (promoteCurrent,
\* src/src/persistence/postgres-stores.js).
THEOREM SupersededForGood == AnalysisSpec => SupersededStays
<1>1. ASSUME AnalysisInv, AnalysisNext
      PROVE  \A i \in DOMAIN analyses :
                 /\ analyses[i].status = "superseded" => analyses'[i].status = "superseded"
                 /\ analyses[i].status # "validated" => analyses'[i].status # "validated"
  <2>1. CASE \E p \in Analysts : Supersede(p)
    BY <1>1, <2>1, SupersedeFields
  <2>2. CASE \E p \in Analysts : PromoteCurrent(p)
    BY <1>1, <2>2, PromoteFields
  <2>3. CASE \E p \in Analysts : CreateAnalysis(p)
    <3>1. \A i \in DOMAIN analyses : analyses'[i] = analyses[i]
      BY <1>1, <2>3, RowFields DEF CreateAnalysis
    <3>. QED
      BY <3>1
  <2>4. CASE UNCHANGED analyses
    BY <2>4
  <2>. QED
    BY <1>1, <2>1, <2>2, <2>3, <2>4
    DEF AnalysisNext, CloseIssue, Publish, AttachArticle, CallTask, TaskFails, Repeat, ReadWholeIssue,
        LoadEvidence, LookupAnalysis, ReadAnalysis, LookupLabels, InsertLabels, BeginGate, CheckEvidence,
        CheckLabels, ReadCurrent, CreateDecisionRow, ApplyCurrentPriority, ReadDecisionRow, CreateReason
<1>. QED
  BY <1>1, AnalysisInvariant, PTL DEF AnalysisSpec, SupersededStays

-----------------------------------------------------------------------------
(* Reading.  Decisions, texts and published versions are only added, so    *)
(* that what a task took with it into its call of the model is still true  *)
(* when it records the answer, whatever the newsroom has done since.       *)

USE SourceReadingAssumption

\* A reference asks where the article is, and a name is the one of that place.
Named(d) == /\ d.form \in {"bare", "cms"} => d.key \in CmsArticles
            /\ d.form = "crawl" => d.key \in CrawledArticles
Canonical(d) == d.form = IF d.key \in CmsArticles THEN "bare" ELSE "crawl"

Wrote(task) == \E w \in written : w.task = task

\* What a task holds while it reads and asks.
SeatHolds(s) ==
    /\ s.at \in {"read", "model"} /\ s.task = "T02" => s.decision \in Reading /\ Named(s.decision)
    /\ s.at = "model" /\ s.task = "T02" =>
           <<s.decision.key, s.decision.version>> \in shown /\ ProviderOf(s.decision) # "rejected"
    /\ s.at = "source" => s.task \in Later
    /\ s.at \in {"read", "source", "model"} /\ s.task \in Later => s.decision \in judged
    /\ s.at \in {"source", "model"} /\ s.task \in Later => s.about \in judged
    /\ s.at = "model" /\ s.task \in Later => s.seen = s.about.version
    /\ s.at \in {"source", "model"} /\ s.task = "T06" => Wrote("T05")

\* A crawled article has no drafts, and what is published has been shown.
PublishedIsShown ==
    /\ \A k \in CrawledArticles : article[k].status # "draft"
    /\ \A k \in Articles : article[k].status = "published" => <<k, article[k].version>> \in shown

ReadingInv ==
    /\ ReadingTypeOK /\ PublishedIsShown
    /\ \A d \in judged : Named(d)
    /\ \A d \in snapshots \cup links : Canonical(d)
    /\ latest = Nothing \/ latest \in judged
    /\ \A r \in Readers : SeatHolds(seat[r])
    /\ OnVersionJudged /\ NothingUnpublished /\ OneWording

SeatsHold == seat \in [Readers -> Seat] /\ \A r \in Readers : SeatHolds(seat[r])
Adds == judged \subseteq judged' /\ shown \subseteq shown' /\ written \subseteq written'

LEMMA SeatFields ==
    ASSUME ReadingInv, NEW r \in Readers
    PROVE  /\ seat \in [Readers -> Seat] /\ seat[r] \in Seat /\ SeatHolds(seat[r])
           /\ seat[r].at \in {"idle", "read", "source", "model", "over"}
           /\ seat[r].task \in {"T02"} \cup Later
           /\ seat[r].decision \in Reading \cup {Nothing}
           /\ seat[r].about \in Reading \cup {Nothing} /\ seat[r].seen \in 0 .. MaxEdits
<1>1. seat \in [Readers -> Seat] /\ seat[r] \in Seat /\ SeatHolds(seat[r])
  BY DEF ReadingInv, ReadingTypeOK
<1>. QED
  BY <1>1 DEF Seat

\* What a task holds stays true while it waits.
LEMMA SeatWaits ==
    ASSUME Adds, NEW s, SeatHolds(s)
    PROVE  SeatHolds(s)'
BY DEF Adds, SeatHolds, Wrote, Named, ProviderOf, Reading

\* One pipeline moves on, and the others wait.
LEMMA SeatMoves ==
    ASSUME ReadingInv, Adds, NEW r \in Readers, NEW s \in Seat,
           seat' = [seat EXCEPT ![r] = s], SeatHolds(s)'
    PROVE  SeatsHold'
<1>1. seat \in [Readers -> Seat]
  BY DEF ReadingInv, ReadingTypeOK
<1>2. ASSUME NEW q \in Readers PROVE SeatHolds(seat[q])'
  <2>. SUFFICES ASSUME NEW g, g = seat'[q] PROVE SeatHolds(g)'
    BY DEF SeatHolds
  <2>1. g = s \/ g = seat[q]
    BY <1>1
  <2>2. SeatHolds(seat[q])
    BY DEF ReadingInv
  <2>3. CASE g = seat[q]
    <3>1. SeatHolds(g)
      BY <2>2, <2>3
    <3>. QED
      BY <3>1, SeatWaits
  <2>. QED
    BY <2>1, <2>3
<1>. QED
  BY <1>1, <1>2 DEF SeatsHold

LEMMA VacantFields ==
    /\ Vacant \in Seat
    /\ \A task, d : /\ [Vacant EXCEPT !.at = "read", !.task = task, !.decision = d].at = "read"
                    /\ [Vacant EXCEPT !.at = "read", !.task = task, !.decision = d].task = task
                    /\ [Vacant EXCEPT !.at = "read", !.task = task, !.decision = d].decision = d
<1>1. 0 \in 0 .. MaxEdits
  OBVIOUS
<1>. QED
  BY <1>1 DEF Vacant, Seat

\* A pipeline that gives up holds nothing.
LEMMA GivesUp ==
    ASSUME ReadingInv, Adds, NEW r \in Readers, GiveUp(r)
    PROVE  SeatsHold'
<1>. SUFFICES ASSUME NEW s, s = [Vacant EXCEPT !.at = "over"] PROVE SeatsHold'
  OBVIOUS
<1>1. s \in Seat /\ s.at = "over"
  BY VacantFields DEF Seat
<1>2. SeatHolds(s)'
  BY <1>1 DEF SeatHolds
<1>3. seat' = [seat EXCEPT ![r] = s]
  BY DEF GiveUp
<1>. QED
  BY <1>1, <1>2, <1>3, SeatMoves

\* A pipeline that sits down to a task has a reference, or the decision of T02.
LEMMA SitsDown ==
    ASSUME ReadingInv, Adds, NEW r \in Readers, NEW task \in {"T02"} \cup Later, NEW d \in Reading,
           SitDown(r, task, d), task = "T02" => Named(d), task \in Later => d \in judged'
    PROVE  SeatsHold'
<1>. SUFFICES ASSUME NEW s, s = [Vacant EXCEPT !.at = "read", !.task = task, !.decision = d]
              PROVE  SeatsHold'
  OBVIOUS
<1>1. s.at = "read" /\ s.task = task /\ s.decision = d
  BY VacantFields
<1>2. s \in Seat
  BY VacantFields DEF Seat
<1>3. SeatHolds(s)'
  BY <1>1 DEF SeatHolds, Named, Reading
<1>4. seat' = [seat EXCEPT ![r] = s]
  BY DEF SitDown
<1>. QED
  BY <1>2, <1>3, <1>4, SeatMoves

LEMMA GoesOn ==
    ASSUME ReadingInv, Adds, NEW r \in Readers, NEW d \in Reading, d \in judged', GoOn(r, d)
    PROVE  SeatsHold'
<1>1. CASE seat[r].task = "T06"
  <2>1. GiveUp(r)
    BY <1>1 DEF GoOn
  <2>. QED
    BY <2>1, GivesUp
<1>2. CASE seat[r].task # "T06"
  <2>. SUFFICES ASSUME NEW task, task = After(seat[r].task) PROVE SeatsHold'
    OBVIOUS
  <2>1. task \in Later /\ task # "T02"
    BY <1>2, SeatFields DEF After, Later
  <2>2. SitDown(r, task, d)
    BY <1>2 DEF GoOn
  <2>. QED
    BY <2>1, <2>2, SitsDown
<1>. QED
  BY <1>1, <1>2

\* Nothing is written but where the pipelines are.
LEMMA QuietSeats ==
    ASSUME ReadingInv, UNCHANGED <<article, shown, snapshots, judged, written, links, latest>>, SeatsHold'
    PROVE  ReadingInv'
<1>1. ReadingTypeOK' /\ PublishedIsShown'
  BY DEF ReadingInv, ReadingTypeOK, PublishedIsShown, SeatsHold
<1>2. OnVersionJudged' /\ NothingUnpublished' /\ OneWording'
  BY DEF ReadingInv, OnVersionJudged, NothingUnpublished, OneWording, Recorded, ProviderOf
<1>3. (\A d \in judged' : Named(d)) /\ (\A d \in snapshots' \cup links' : Canonical(d))
  BY DEF ReadingInv
<1>. QED
  BY <1>1, <1>2, <1>3 DEF ReadingInv, SeatsHold, Named, Canonical, Reading

\* What the gate lets pass is published, and has one name.
LEMMA GatePasses ==
    ASSUME ReadingInv, NEW ref, ref.key \in Articles, Named(ref), RequirePublishedArticle(ref)
    PROVE  /\ <<ref.key, article[ref.key].version>> \in shown
           /\ ref.form \in {"bare", "cms", "crawl"} /\ ProviderOf(ref) # "rejected"
           /\ SourceArticleId(ref) = IF ref.key \in CmsArticles THEN "bare" ELSE "crawl"
           /\ SourceArticleId(ref) \in {"bare", "crawl"}
<1>1. ref.form \in {"bare", "cms", "crawl"} /\ ProviderOf(ref) # "rejected"
  BY DEF RequirePublishedArticle, CrawlGate, ProviderOf
<1>2. SourceArticleId(ref) = IF ref.form \in {"bare", "cms"} THEN "bare" ELSE ref.form
  BY <1>1 DEF SourceArticleId, ProviderOf
<1>3. /\ ref.form \in {"bare", "cms"} => ref.key \in CmsArticles
      /\ ref.form = "crawl" => ref.key \in CrawledArticles /\ ref.key \notin CmsArticles
  BY DEF Named
<1>4. article[ref.key].status = "published"
  <2>1. CASE ref.form \in {"bare", "cms"}
    BY <2>1 DEF RequirePublishedArticle, CrawlGate, ProviderOf, Published
  <2>2. CASE ref.form = "crawl"
    <3>1. article[ref.key].status \notin {"deleted", "draft"}
      BY <1>3, <2>2 DEF RequirePublishedArticle, CrawlGate, ProviderOf, Found, ReadingInv, PublishedIsShown
    <3>2. article[ref.key] \in [version : Editions, status : Standing]
      BY DEF ReadingInv, ReadingTypeOK
    <3>. QED
      BY <3>1, <3>2 DEF Standing
  <2>. QED
    BY <1>1, <2>1, <2>2
<1>. QED
  BY <1>1, <1>2, <1>3, <1>4 DEF ReadingInv, PublishedIsShown

LEMMA ReadingFields ==
    ASSUME ReadingInv, NEW k \in Articles
    PROVE  /\ article \in [Articles -> [version : Editions, status : Standing]]
           /\ article[k] \in [version : Editions, status : Standing]
           /\ article[k].version \in Editions /\ article[k].version \in 0 .. MaxEdits
           /\ article[k].status \in Standing
<1>1. article[k] \in [version : Editions, status : Standing]
  BY DEF ReadingInv, ReadingTypeOK
<1>2. article[k].version \in 1 .. MaxEdits
  BY <1>1 DEF Editions
<1>. QED
  BY <1>1, <1>2 DEF ReadingInv, ReadingTypeOK, Editions

\* The newsroom writes nothing but its articles, and what is published it shows.
LEMMA NewsroomHolds ==
    ASSUME ReadingInv, NEW k \in Articles, NEW new \in [version : Editions, status : Standing],
           article' = [article EXCEPT ![k] = new],
           shown' = shown \/ shown' = shown \cup {<<k, new.version>>},
           new.status = "published" => <<k, new.version>> \in shown',
           k \in CrawledArticles => new.status # "draft",
           UNCHANGED <<snapshots, judged, written, links, latest, seat>>
    PROVE  ReadingInv'
<1>1. article' \in [Articles -> [version : Editions, status : Standing]] /\ shown \subseteq shown'
  BY DEF ReadingInv, ReadingTypeOK
<1>2. shown' \subseteq Articles \X Editions
  <2>1. <<k, new.version>> \in Articles \X Editions
    OBVIOUS
  <2>. QED
    BY <2>1 DEF ReadingInv, ReadingTypeOK
<1>3. ReadingTypeOK'
  BY <1>1, <1>2 DEF ReadingInv, ReadingTypeOK
<1>4. PublishedIsShown'
  <2>1. \A j \in Articles : article'[j] = IF j = k THEN new ELSE article[j]
    BY DEF ReadingInv, ReadingTypeOK
  <2>2. CrawledArticles \subseteq Articles
    BY DEF Articles
  <2>3. \A j \in CrawledArticles : article'[j].status # "draft"
    BY <2>1, <2>2 DEF ReadingInv, PublishedIsShown
  <2>4. \A j \in Articles : article'[j].status = "published" => <<j, article'[j].version>> \in shown'
    BY <1>1, <2>1 DEF ReadingInv, PublishedIsShown
  <2>. QED
    BY <2>3, <2>4 DEF PublishedIsShown
<1>5. \A r \in Readers : SeatHolds(seat[r])'
  <2>. SUFFICES ASSUME NEW r \in Readers, NEW s, s = seat[r] PROVE SeatHolds(s)'
    BY DEF SeatHolds
  <2>1. SeatHolds(s) /\ Adds
    BY <1>1 DEF ReadingInv, Adds
  <2>. QED
    BY <2>1, SeatWaits
<1>6. OnVersionJudged' /\ NothingUnpublished' /\ OneWording'
  BY <1>1 DEF ReadingInv, OnVersionJudged, NothingUnpublished, OneWording, Recorded, ProviderOf
<1>7. (\A d \in judged' : Named(d)) /\ (\A d \in snapshots' \cup links' : Canonical(d))
  BY DEF ReadingInv
<1>. QED
  BY <1>3, <1>4, <1>5, <1>6, <1>7 DEF ReadingInv, Named, Canonical

LEMMA ReviseHolds ==
    ASSUME ReadingInv, NEW k \in Articles, Revise(k)
    PROVE  ReadingInv'
<1>. SUFFICES ASSUME NEW new, new = [article[k] EXCEPT !.version = @ + 1] PROVE ReadingInv'
  OBVIOUS
<1>1. /\ k \in CmsArticles /\ article[k].version < MaxEdits
      /\ article' = [article EXCEPT ![k].version = @ + 1]
      /\ shown' = IF article[k].status = "published"
                  THEN shown \cup {<<k, article[k].version + 1>>} ELSE shown
      /\ UNCHANGED <<snapshots, judged, written, links, latest, seat>>
  BY DEF Revise
<1>2. article[k].version + 1 \in Editions
  BY <1>1, ReadingFields DEF Editions
<1>3. /\ new \in [version : Editions, status : Standing] /\ new.version = article[k].version + 1
      /\ new.status = article[k].status
  BY <1>2, ReadingFields
<1>4. article' = [article EXCEPT ![k] = new]
  BY <1>1, ReadingFields
<1>5. k \notin CrawledArticles
  BY <1>1
<1>. QED
  BY <1>1, <1>3, <1>4, <1>5, NewsroomHolds

LEMMA ChangeStatusHolds ==
    ASSUME ReadingInv, NEW k \in Articles, ChangeStatus(k)
    PROVE  ReadingInv'
<1>1. PICK status \in {"draft", "published", "deleted"} :
          /\ article' = [article EXCEPT ![k].status = status]
          /\ IF status = "published" THEN shown' = shown \cup {<<k, article[k].version>>} ELSE shown' = shown
          /\ status = "draft" => k \in CmsArticles
          /\ UNCHANGED <<snapshots, judged, written, links, latest, seat>>
  BY DEF ChangeStatus
<1>. SUFFICES ASSUME NEW new, new = [article[k] EXCEPT !.status = status] PROVE ReadingInv'
  OBVIOUS
<1>2. /\ new \in [version : Editions, status : Standing] /\ new.version = article[k].version
      /\ new.status = status
  BY ReadingFields DEF Standing
<1>3. article' = [article EXCEPT ![k] = new]
  BY <1>1, ReadingFields
<1>4. k \in CrawledArticles => new.status # "draft"
  BY <1>1, <1>2
<1>. QED
  BY <1>1, <1>2, <1>3, <1>4, NewsroomHolds

\* References and names are decisions that saw no version yet.
LEMMA UnseenFields ==
    ASSUME NEW d, d.form \in Spellings, d.key \in Articles
    PROVE  /\ Unseen(d) \in Reading /\ Unseen(d).form = d.form /\ Unseen(d).key = d.key
           /\ Named(d) => Named(Unseen(d))
<1>1. 0 \in 0 .. MaxEdits
  OBVIOUS
<1>. QED
  BY <1>1 DEF Unseen, Reading, Named

LEMMA IngestArticleHolds ==
    ASSUME ReadingInv, NEW r \in Readers, NEW ref \in References, IngestArticle(r, ref)
    PROVE  ReadingInv'
<1>. SUFFICES ASSUME NEW d, d = Reads(ref) PROVE ReadingInv'
  OBVIOUS
<1>1. /\ RequirePublishedArticle(ref) /\ snapshots' = snapshots \cup {d}
      /\ SitDown(r, "T02", Unseen(d))
      /\ UNCHANGED <<article, shown, judged, written, links, latest>>
  BY DEF IngestArticle
<1>2. ref.key \in Articles /\ ref.form \in Spellings /\ Named(ref)
  BY DEF Articles, Named
<1>3. /\ <<ref.key, article[ref.key].version>> \in shown
      /\ SourceArticleId(ref) = IF ref.key \in CmsArticles THEN "bare" ELSE "crawl"
  BY <1>1, <1>2, GatePasses
<1>4. /\ d \in Reading /\ d.key = ref.key /\ d.version = article[ref.key].version
      /\ d.form = IF ref.key \in CmsArticles THEN "bare" ELSE "crawl"
  <2>1. SourceArticleId(ref) \in Spellings
    BY <1>3 DEF Spellings
  <2>. QED
    BY <1>2, <1>3, <2>1, ReadingFields DEF Reads, Reading
<1>5. Named(d) /\ Canonical(d) /\ ProviderOf(d) # "rejected" /\ <<d.key, d.version>> \in shown
  BY <1>2, <1>3, <1>4 DEF Named, Canonical, ProviderOf, Articles
<1>6. Adds
  BY <1>1 DEF Adds
<1>7. SeatsHold'
  <2>1. d.form \in Spellings /\ d.key \in Articles
    BY <1>4 DEF Reading
  <2>. SUFFICES ASSUME NEW u, u = Unseen(d) PROVE SeatsHold'
    OBVIOUS
  <2>2. u \in Reading /\ Named(u)
    BY <1>5, <2>1, UnseenFields
  <2>3. "T02" \in {"T02"} \cup Later /\ "T02" \notin Later
    BY DEF Later
  <2>. QED
    BY <1>1, <1>6, <2>2, <2>3, SitsDown
<1>8. ReadingTypeOK' /\ PublishedIsShown'
  BY <1>1, <1>4, <1>7 DEF ReadingInv, ReadingTypeOK, PublishedIsShown, SeatsHold
<1>9. OnVersionJudged' /\ OneWording'
  BY <1>1 DEF ReadingInv, OnVersionJudged, OneWording, Recorded
<1>10. NothingUnpublished'
  <2>1. \A e \in judged \cup snapshots' : <<e.key, e.version>> \in shown /\ ProviderOf(e) # "rejected"
    BY <1>1, <1>5 DEF ReadingInv, NothingUnpublished
  <2>. QED
    BY <1>1, <2>1 DEF NothingUnpublished, ProviderOf
<1>11. (\A e \in judged' : Named(e)) /\ (\A e \in snapshots' \cup links' : Canonical(e))
  BY <1>1, <1>5 DEF ReadingInv
<1>. QED
  BY <1>1, <1>7, <1>8, <1>9, <1>10, <1>11 DEF ReadingInv, SeatsHold, Named, Canonical

LEMMA CallT02Holds ==
    ASSUME ReadingInv, NEW r \in Readers, NEW ref \in References, CallT02(r, ref)
    PROVE  ReadingInv'
<1>1. /\ SitDown(r, "T02", Unseen(ref))
      /\ UNCHANGED <<article, shown, snapshots, judged, written, links, latest>>
  BY DEF CallT02
<1>2. ref.key \in Articles /\ ref.form \in Spellings /\ Named(ref)
  BY DEF Articles, Named
<1>3. Adds
  BY <1>1 DEF Adds
<1>4. SeatsHold'
  <2>. SUFFICES ASSUME NEW u, u = Unseen(ref) PROVE SeatsHold'
    OBVIOUS
  <2>2. u \in Reading /\ Named(u)
    BY <1>2, UnseenFields
  <2>3. "T02" \in {"T02"} \cup Later /\ "T02" \notin Later
    BY DEF Later
  <2>. QED
    BY <1>1, <1>3, <2>2, <2>3, SitsDown
<1>. QED
  BY <1>1, <1>4, QuietSeats

LEMMA TaskNames ==
    /\ Later = {"T03", "T04", "T05", "T06"} /\ "T02" \notin Later /\ "T02" \in {"T02"} \cup Later
    /\ Nothing \notin Reading
BY DEF Later, Nothing, Reading, Spellings

LEMMA JudgedFields ==
    ASSUME ReadingInv, NEW d \in judged
    PROVE  /\ d \in Reading /\ d.form \in Spellings /\ d.key \in Articles /\ Named(d)
           /\ ProviderOf(d) # "rejected" /\ <<d.key, d.version>> \in shown
<1>1. d \in Reading
  BY DEF ReadingInv, ReadingTypeOK
<1>. QED
  BY <1>1 DEF ReadingInv, NothingUnpublished, Reading

LEMMA ReadForT02Holds ==
    ASSUME ReadingInv, NEW r \in Readers, ReadForT02(r)
    PROVE  ReadingInv'
<1>. SUFFICES ASSUME NEW ref, ref = seat[r].decision,
                     NEW d, d = [ref EXCEPT !.version = article[ref.key].version]
              PROVE  ReadingInv'
  OBVIOUS
<1>1. /\ seat[r].at = "read" /\ seat[r].task = "T02"
      /\ IF ~RequirePublishedArticle(ref) THEN GiveUp(r)
         ELSE IF d \in judged THEN GoOn(r, d)
         ELSE seat' = [seat EXCEPT ![r].at = "model", ![r].decision = d]
      /\ UNCHANGED <<article, shown, snapshots, judged, written, links, latest>>
  BY DEF ReadForT02
<1>2. Adds
  BY <1>1 DEF Adds
<1>3. ref \in Reading /\ Named(ref) /\ ref.key \in Articles /\ ref.form \in Spellings
  BY <1>1, SeatFields DEF SeatHolds, Reading
<1>4. /\ d \in Reading /\ d.form = ref.form /\ d.key = ref.key /\ d.version = article[ref.key].version
  BY <1>3, ReadingFields DEF Reading
<1>5. CASE ~RequirePublishedArticle(ref)
  BY <1>1, <1>2, <1>5, GivesUp, QuietSeats
<1>6. CASE RequirePublishedArticle(ref) /\ d \in judged
  <2>1. GoOn(r, d) /\ d \in judged'
    BY <1>1, <1>6
  <2>. QED
    BY <1>1, <1>2, <1>4, <2>1, GoesOn, QuietSeats
<1>7. CASE RequirePublishedArticle(ref) /\ d \notin judged
  <2>. SUFFICES ASSUME NEW s, s = [seat[r] EXCEPT !.at = "model", !.decision = d] PROVE ReadingInv'
    OBVIOUS
  <2>1. seat' = [seat EXCEPT ![r] = s]
    BY <1>1, <1>7, SeatFields
  <2>2. s \in Seat /\ s.at = "model" /\ s.task = "T02" /\ s.decision = d
    <3>1. seat[r] \in Seat
      BY SeatFields
    <3>2. s \in Seat /\ s.at = "model" /\ s.task = seat[r].task /\ s.decision = d
      BY ONLY <1>4, <3>1, s = [seat[r] EXCEPT !.at = "model", !.decision = d] DEF Seat
    <3>. QED
      BY <1>1, <3>2
  <2>3. <<d.key, d.version>> \in shown /\ ProviderOf(d) # "rejected"
    BY <1>3, <1>4, <1>7, GatePasses DEF ProviderOf
  <2>4. Named(d)
    BY <1>3, <1>4 DEF Named
  <2>5. SeatHolds(s)
    BY <1>4, <2>2, <2>3, <2>4, TaskNames DEF SeatHolds
  <2>6. SeatHolds(s)'
    BY <1>2, <2>5, SeatWaits
  <2>. QED
    BY <1>1, <1>2, <2>1, <2>2, <2>6, SeatMoves, QuietSeats
<1>. QED
  BY <1>5, <1>6, <1>7

LEMMA JudgeHolds ==
    ASSUME ReadingInv, NEW r \in Readers, Judge(r)
    PROVE  ReadingInv'
<1>. SUFFICES ASSUME NEW d, d = seat[r].decision PROVE ReadingInv'
  OBVIOUS
<1>1. /\ seat[r].at = "model" /\ seat[r].task = "T02" /\ judged' = judged \cup {d}
      /\ GoOn(r, d) \/ GiveUp(r) \/ SitDown(r, "T02", Unseen(d))
      /\ UNCHANGED <<article, shown, snapshots, written, links, latest>>
  BY DEF Judge
<1>2. Adds
  BY <1>1 DEF Adds
<1>3. /\ d \in Reading /\ Named(d) /\ d.key \in Articles /\ d.form \in Spellings
      /\ <<d.key, d.version>> \in shown /\ ProviderOf(d) # "rejected"
  BY <1>1, SeatFields DEF SeatHolds, Reading
<1>4. SeatsHold'
  <2>1. CASE GoOn(r, d)
    <3>1. d \in judged'
      BY <1>1
    <3>. QED
      BY <1>2, <1>3, <2>1, <3>1, GoesOn
  <2>2. CASE GiveUp(r)
    BY <1>2, <2>2, GivesUp
  <2>3. CASE SitDown(r, "T02", Unseen(d))
    <3>. SUFFICES ASSUME NEW u, u = Unseen(d) PROVE SeatsHold'
      OBVIOUS
    <3>1. u \in Reading /\ Named(u)
      BY <1>3, UnseenFields
    <3>. QED
      BY <1>2, <2>3, <3>1, TaskNames, SitsDown
  <2>. QED
    BY <1>1, <2>1, <2>2, <2>3
<1>5. ReadingTypeOK' /\ PublishedIsShown'
  BY <1>1, <1>3, <1>4 DEF ReadingInv, ReadingTypeOK, PublishedIsShown, SeatsHold
<1>6. OnVersionJudged' /\ OneWording'
  BY <1>1 DEF ReadingInv, OnVersionJudged, OneWording, Recorded
<1>7. NothingUnpublished'
  <2>1. \A e \in judged' \cup snapshots : <<e.key, e.version>> \in shown /\ ProviderOf(e) # "rejected"
    BY <1>1, <1>3 DEF ReadingInv, NothingUnpublished
  <2>. QED
    BY <1>1, <2>1 DEF NothingUnpublished, ProviderOf
<1>8. /\ \A e \in judged' : Named(e)
      /\ \A e \in snapshots' \cup links' : Canonical(e)
      /\ latest' = Nothing \/ latest' \in judged'
  BY <1>1, <1>3 DEF ReadingInv
<1>. QED
  BY <1>1, <1>4, <1>5, <1>6, <1>7, <1>8 DEF ReadingInv, SeatsHold, Named, Canonical

LEMMA LookUpRecordHolds ==
    ASSUME ReadingInv, NEW r \in Readers, LookUpRecord(r)
    PROVE  ReadingInv'
<1>. SUFFICES ASSUME NEW task, task = seat[r].task, NEW d, d = seat[r].decision, NEW about, about = About(r)
              PROVE  ReadingInv'
  OBVIOUS
<1>1. /\ seat[r].at = "read" /\ task # "T02"
      /\ IF Refuses(task) THEN GiveUp(r)
         ELSE IF Recorded(task, about) THEN GoOn(r, d)
         ELSE seat' = [seat EXCEPT ![r].at = "source", ![r].about = about]
      /\ UNCHANGED <<article, shown, snapshots, judged, written, links, latest>>
  BY DEF LookUpRecord
<1>2. Adds
  BY <1>1 DEF Adds
<1>3. task \in Later /\ d \in judged /\ d \in Reading
  <2>1. task \in Later
    BY <1>1, SeatFields
  <2>2. d \in judged
    BY <1>1, <2>1, SeatFields DEF SeatHolds
  <2>. QED
    BY <2>1, <2>2, JudgedFields
<1>4. CASE Refuses(task)
  BY <1>1, <1>2, <1>4, GivesUp, QuietSeats
<1>5. CASE ~Refuses(task) /\ Recorded(task, about)
  <2>1. GoOn(r, d) /\ d \in judged'
    BY <1>1, <1>3, <1>5
  <2>. QED
    BY <1>1, <1>2, <1>3, <2>1, GoesOn, QuietSeats
<1>6. CASE ~Refuses(task) /\ ~Recorded(task, about)
  <2>. SUFFICES ASSUME NEW s, s = [seat[r] EXCEPT !.at = "source", !.about = about] PROVE ReadingInv'
    OBVIOUS
  <2>1. about \in judged
    <3>1. task \in {"T05", "T06"} => latest # Nothing
      BY <1>6 DEF Refuses
    <3>2. latest # Nothing => latest \in judged
      BY DEF ReadingInv
    <3>. QED
      BY <1>3, <3>1, <3>2, TaskNames DEF About
  <2>2. task = "T06" => Wrote("T05")
    BY <1>6 DEF Refuses, Recorded, Wrote
  <2>3. seat' = [seat EXCEPT ![r] = s]
    BY <1>1, <1>6, SeatFields
  <2>4. s \in Seat /\ s.at = "source" /\ s.task = task /\ s.decision = d /\ s.about = about
    BY <2>1, SeatFields, JudgedFields DEF Seat
  <2>5. SeatHolds(s)
    BY <1>3, <2>1, <2>2, <2>4 DEF SeatHolds
  <2>6. SeatHolds(s)'
    BY <1>2, <2>5, SeatWaits
  <2>. QED
    BY <1>1, <1>2, <2>3, <2>4, <2>6, SeatMoves, QuietSeats
<1>. QED
  BY <1>4, <1>5, <1>6

LEMMA ReadSourceHolds ==
    ASSUME ReadingInv, NEW r \in Readers, ReadSource(r)
    PROVE  ReadingInv'
<1>. SUFFICES ASSUME NEW d, d = seat[r].about, NEW v, v = article[d.key].version PROVE ReadingInv'
  OBVIOUS
<1>1. /\ seat[r].at = "source"
      /\ IF StillAsJudged(d) THEN seat' = [seat EXCEPT ![r].at = "model", ![r].seen = v] ELSE GiveUp(r)
      /\ UNCHANGED <<article, shown, snapshots, judged, written, links, latest>>
  BY DEF ReadSource
<1>2. Adds
  BY <1>1 DEF Adds
<1>3. /\ seat[r].task \in Later /\ d \in judged /\ seat[r].decision \in judged
      /\ seat[r].task = "T06" => Wrote("T05")
  BY <1>1, SeatFields DEF SeatHolds
<1>4. CASE ~StillAsJudged(d)
  BY <1>1, <1>2, <1>4, GivesUp, QuietSeats
<1>5. CASE StillAsJudged(d)
  <2>. SUFFICES ASSUME NEW s, s = [seat[r] EXCEPT !.at = "model", !.seen = v] PROVE ReadingInv'
    OBVIOUS
  <2>1. v = d.version
    BY <1>5 DEF StillAsJudged
  <2>2. v \in 0 .. MaxEdits
    BY <1>3, JudgedFields, ReadingFields
  <2>3. seat' = [seat EXCEPT ![r] = s]
    BY <1>1, <1>5, SeatFields
  <2>4. /\ s \in Seat /\ s.at = "model" /\ s.task = seat[r].task /\ s.decision = seat[r].decision
        /\ s.about = d /\ s.seen = v
    BY <2>2, SeatFields DEF Seat
  <2>5. SeatHolds(s)
    BY <1>3, <2>1, <2>4, TaskNames DEF SeatHolds
  <2>6. SeatHolds(s)'
    BY <1>2, <2>5, SeatWaits
  <2>. QED
    BY <1>1, <1>2, <2>3, <2>4, <2>6, SeatMoves, QuietSeats
<1>. QED
  BY <1>4, <1>5

LEMMA ReadingFailsHolds ==
    ASSUME ReadingInv, NEW r \in Readers, ReadingFails(r)
    PROVE  ReadingInv'
<1>. SUFFICES ASSUME NEW task, task = seat[r].task, NEW d, d = seat[r].decision PROVE ReadingInv'
  OBVIOUS
<1>1. /\ seat[r].at \in {"read", "source", "model"}
      /\ \/ SitDown(r, task, IF task = "T02" THEN Unseen(d) ELSE d)
         \/ GiveUp(r)
      /\ UNCHANGED <<article, shown, snapshots, judged, written, links, latest>>
  BY DEF ReadingFails
<1>2. Adds
  BY <1>1 DEF Adds
<1>3. CASE GiveUp(r)
  BY <1>1, <1>2, <1>3, GivesUp, QuietSeats
<1>4. CASE task = "T02" /\ SitDown(r, "T02", Unseen(d))
  <2>1. d \in Reading /\ Named(d) /\ d.form \in Spellings /\ d.key \in Articles
    <3>1. seat[r].at # "source"
      BY <1>4, SeatFields, TaskNames DEF SeatHolds
    <3>. QED
      BY <1>1, <1>4, <3>1, SeatFields DEF SeatHolds, Reading
  <2>. SUFFICES ASSUME NEW u, u = Unseen(d) PROVE ReadingInv'
    OBVIOUS
  <2>2. u \in Reading /\ Named(u)
    BY <2>1, UnseenFields
  <2>3. SeatsHold'
    BY <1>2, <1>4, <2>2, TaskNames, SitsDown
  <2>. QED
    BY <1>1, <2>3, QuietSeats
<1>5. CASE task # "T02" /\ SitDown(r, task, d)
  <2>1. task \in Later /\ task \in {"T02"} \cup Later
    BY <1>5, SeatFields
  <2>2. d \in judged
    BY <1>1, <2>1, SeatFields DEF SeatHolds
  <2>3. d \in Reading /\ d \in judged'
    BY <1>1, <2>2, JudgedFields
  <2>4. SeatsHold'
    BY <1>2, <1>5, <2>1, <2>3, SitsDown
  <2>. QED
    BY <1>1, <2>4, QuietSeats
<1>. QED
  BY <1>1, <1>3, <1>4, <1>5

\* What T03 to T06 record: one more text of a task that had none if it has one for
\* the whole issue, and a link under the name of the article.
LEMMA RecordHolds ==
    ASSUME ReadingInv, NEW r \in Readers, Record(r)
    PROVE  ReadingInv'
<1>. SUFFICES ASSUME NEW task, task = seat[r].task, NEW d, d = seat[r].about,
                     NEW known, known = seat[r].decision, NEW seen, seen = seat[r].seen
              PROVE  ReadingInv'
  OBVIOUS
<1>1. /\ seat[r].at = "model" /\ task # "T02"
      /\ IF HasText(task, d)
         THEN /\ UNCHANGED <<written, links, latest>>
              /\ GoOn(r, known) \/ GiveUp(r)
         ELSE /\ written' = written \cup {[task |-> task, decision |-> d, seen |-> seen]}
              /\ IF task = "T04" THEN Link(d) ELSE UNCHANGED <<links, latest>>
              /\ GoOn(r, known) \/ SitDown(r, task, known)
      /\ UNCHANGED <<article, shown, snapshots, judged>>
  BY DEF Record
<1>2. /\ task \in Later /\ known \in judged /\ d \in judged /\ seen = d.version
      /\ task = "T06" => Wrote("T05")
  <2>1. task \in Later
    BY <1>1, SeatFields
  <2>. QED
    BY <1>1, <2>1, SeatFields DEF SeatHolds
<1>3. /\ known \in Reading /\ d \in Reading /\ Named(d) /\ ProviderOf(d) # "rejected"
      /\ d.form \in Spellings /\ d.key \in Articles
  BY <1>2, JudgedFields
<1>4. Adds
  BY <1>1 DEF Adds
<1>5. SeatsHold'
  <2>1. known \in judged'
    BY <1>1, <1>2
  <2>2. CASE GoOn(r, known)
    BY <1>3, <1>4, <2>1, <2>2, GoesOn
  <2>3. CASE GiveUp(r)
    BY <1>4, <2>3, GivesUp
  <2>4. CASE SitDown(r, task, known)
    <3>1. task \in {"T02"} \cup Later
      BY <1>2
    <3>. QED
      BY <1>1, <1>3, <1>4, <2>1, <2>4, <3>1, SitsDown
  <2>. QED
    BY <1>1, <2>2, <2>3, <2>4
<1>6. CASE HasText(task, d)
  BY <1>1, <1>5, <1>6, QuietSeats
<1>7. CASE ~HasText(task, d)
  <2>. SUFFICES ASSUME NEW w, w = [task |-> task, decision |-> d, seen |-> seen] PROVE ReadingInv'
    OBVIOUS
  <2>1. written' = written \cup {w}
    BY <1>1, <1>7
  <2>2. w.task = task /\ w.decision = d /\ w.seen = seen /\ w \in Writing
    <3>1. d.version \in Editions
      <4>1. <<d.key, d.version>> \in Articles \X Editions
        BY <1>2, JudgedFields DEF ReadingInv, ReadingTypeOK
      <4>. QED
        BY <4>1
    <3>. QED
      BY <1>2, <1>3, <3>1 DEF Writing
  <2>. SUFFICES ASSUME NEW link, link = [d EXCEPT !.form = SourceArticleId(d)] PROVE ReadingInv'
    OBVIOUS
  <2>3. link \in Reading /\ Canonical(link)
    <3>1. d.form \in {"bare", "cms", "crawl"}
      BY <1>3 DEF ProviderOf
    <3>2. SourceArticleId(d) = IF d.key \in CmsArticles THEN "bare" ELSE "crawl"
      BY <1>3, <3>1 DEF SourceArticleId, ProviderOf, Named
    <3>3. SourceArticleId(d) \in Spellings
      BY <3>2 DEF Spellings
    <3>. QED
      BY <1>3, <3>2, <3>3 DEF Reading, Canonical
  <2>4. /\ links' = links \/ links' = links \cup {link}
        /\ latest' = latest \/ latest' = d
    BY <1>1, <1>7 DEF Link
  <2>5. ReadingTypeOK' /\ PublishedIsShown'
    <3>1. links' \subseteq Reading /\ latest' \in Reading \cup {Nothing} /\ written' \subseteq Writing
      BY <1>3, <2>1, <2>2, <2>3, <2>4 DEF ReadingInv, ReadingTypeOK
    <3>. QED
      BY <1>1, <1>5, <3>1 DEF ReadingInv, ReadingTypeOK, PublishedIsShown, SeatsHold
  <2>6. /\ \A e \in judged' : Named(e)
        /\ \A e \in snapshots' \cup links' : Canonical(e)
        /\ latest' = Nothing \/ latest' \in judged'
    BY <1>1, <1>2, <2>3, <2>4 DEF ReadingInv
  <2>7. OnVersionJudged'
    <3>1. \A v \in written' : v.decision \in judged /\ v.seen = v.decision.version
      BY <1>2, <2>1, <2>2 DEF ReadingInv, OnVersionJudged
    <3>. QED
      BY <1>1, <3>1 DEF OnVersionJudged
  <2>8. NothingUnpublished'
    BY <1>1 DEF ReadingInv, NothingUnpublished, ProviderOf
  <2>9. OneWording'
    <3>1. \A v \in written : v.task = task => task \notin {"T05", "T06"}
      BY <1>7 DEF HasText, Recorded
    <3>2. \A u, v \in written' : u.task = v.task /\ u.task \in {"T05", "T06"} => u = v
      BY <2>1, <2>2, <3>1 DEF ReadingInv, OneWording
    <3>3. \A v \in written' : v.task = "T06" => \E u \in written : u.task = "T05"
      BY <1>2, <2>1, <2>2 DEF ReadingInv, OneWording, Recorded, Wrote
    <3>4. \A v \in written' : v.task = "T06" => \E u \in written' : u.task = "T05"
      BY <2>1, <3>3
    <3>. QED
      BY <3>2, <3>4 DEF OneWording, Recorded
  <2>. QED
    BY <1>5, <2>5, <2>6, <2>7, <2>8, <2>9 DEF ReadingInv, SeatsHold, Named, Canonical, Reading
<1>. QED
  BY <1>6, <1>7

LEMMA ReadingStepHolds == ReadingInv /\ [ReadingNext]_readingVars => ReadingInv'
<1>. SUFFICES ASSUME ReadingInv, [ReadingNext]_readingVars PROVE ReadingInv'
  OBVIOUS
<1>1. CASE UNCHANGED readingVars
  <2>1. /\ UNCHANGED <<article, shown, snapshots, judged, written, links, latest>> /\ UNCHANGED seat
    BY <1>1 DEF readingVars
  <2>2. Adds
    BY <2>1 DEF Adds
  <2>3. SeatsHold'
    <3>1. ASSUME NEW r \in Readers PROVE SeatHolds(seat[r])'
      <4>. SUFFICES ASSUME NEW s, s = seat'[r] PROVE SeatHolds(s)'
        BY DEF SeatHolds
      <4>1. s = seat[r] /\ SeatHolds(seat[r])
        BY <2>1 DEF ReadingInv
      <4>2. SeatHolds(s)
        BY <4>1
      <4>. QED
        BY <2>2, <4>2, SeatWaits
    <3>. QED
      BY <2>1, <3>1 DEF SeatsHold, ReadingInv, ReadingTypeOK
  <2>. QED
    BY <2>1, <2>3, QuietSeats
<1>. QED
  BY <1>1, ReviseHolds, ChangeStatusHolds, IngestArticleHolds, CallT02Holds, ReadForT02Holds, JudgeHolds,
     LookUpRecordHolds, ReadSourceHolds, RecordHolds, ReadingFailsHolds DEF ReadingNext

LEMMA ReadingInitHolds == ReadingInit => ReadingInv
<1>. SUFFICES ASSUME ReadingInit PROVE ReadingInv
  OBVIOUS
<1>1. 1 \in Editions /\ 0 \in 0 .. MaxEdits
  BY DEF Editions
<1>2. ReadingTypeOK
  BY <1>1, VacantFields DEF ReadingInit, ReadingTypeOK, Standing
<1>3. PublishedIsShown
  BY DEF ReadingInit, PublishedIsShown, Articles
<1>4. \A r \in Readers : SeatHolds(seat[r])
  BY DEF ReadingInit, Vacant, SeatHolds
<1>5. OnVersionJudged /\ NothingUnpublished /\ OneWording
  BY DEF ReadingInit, OnVersionJudged, NothingUnpublished, OneWording
<1>. QED
  BY <1>2, <1>3, <1>4, <1>5 DEF ReadingInv, ReadingInit

LEMMA ReadingInvariant == ReadingSpec => []ReadingInv
BY ReadingInitHolds, ReadingStepHolds, PTL DEF ReadingSpec

\* An article has one name: the form of a name follows from where the article is.
LEMMA OneNameFollows == ReadingInv => OneNameEach
<1>. SUFFICES ASSUME ReadingInv, NEW set \in {snapshots, links}, NEW d \in set, NEW e \in set,
                     d.key = e.key, d.version = e.version
              PROVE  d = e
  BY DEF OneNameEach
<1>1. d \in Reading /\ e \in Reading /\ Canonical(d) /\ Canonical(e)
  BY DEF ReadingInv, ReadingTypeOK
<1>2. d.form = e.form
  BY <1>1 DEF Canonical
<1>. QED
  BY <1>1, <1>2 DEF Reading

\* However an article is referred to, and whatever the newsroom does to it between
\* two tasks, everything that T03 to T06 write about it is about the published
\* version that T02 judged, under one name; the analysis that readers see passed
\* the citation gate, the priority was decided on it, and the reason explains that.
\* This holds of any number of pipelines, articles and revisions.
THEOREM TextsAreSafe == ReadingSpec /\ AnalysisSpec => []IssueTextsSafe
<1>1. ReadingInv => ReadingSafe
  BY OneNameFollows DEF ReadingInv, ReadingSafe
<1>2. AnalysisInv => AnalysisSafe
  BY DEF AnalysisInv, AnalysisSafe
<1>3. ReadingSafe /\ AnalysisSafe => IssueTextsSafe
  BY DEF IssueTextsSafe
<1>. QED
  BY <1>1, <1>2, <1>3, ReadingInvariant, AnalysisInvariant, PTL

-----------------------------------------------------------------------------
(* The limiter of the models.  Whoever was let pass within the last minute *)
(* still has a slot in the window, of the same age and for no fewer        *)
(* tokens: what the limiter counts is never less than what is so.          *)

HIDE SourceReadingAssumption
HIDE IssueAnalysisAssumption
HIDE RelevanceAssumption
USE ModelCallAssumption

TokensOf(slots) == UNION {{s.by} \X (1 .. s.tokens) : s \in slots}

\* What is shown to pass stands in the window.
StandsFor(passed, slots) ==
    \A r \in passed : \E s \in slots : s.by = r.by /\ s.age = r.age /\ s.tokens >= r.tokens
OncePerCall(passed) == \A r, q \in passed : r.by = q.by => r = q

LimiterHolds(m) ==
    /\ IsFiniteSet(window[m]) /\ IsFiniteSet(TokensOf(window[m]))
    /\ OncePerCall(recent[m]) /\ StandsFor(recent[m], window[m])
    /\ \A r \in recent[m] : caller[r.by].at \in {"sent", "over"}
    /\ RequestLimit > 0 => Cardinality(recent[m]) <= RequestLimit
    /\ TokenLimit > 0 => (Cardinality(recent[m]) > 1 => Reserved(recent[m]) <= TokenLimit)
ModelInv == ModelTypeOK /\ IsFiniteSet(InFlight) /\ \A m \in Models : LimiterHolds(m)

LEMMA TokensMember ==
    ASSUME NEW slots, NEW p
    PROVE  p \in TokensOf(slots) <=> \E s \in slots : \E i \in 1 .. s.tokens : p = <<s.by, i>>
  BY DEF TokensOf

LEMMA TokensOfSome ==
    ASSUME NEW slots, NEW part \in SUBSET slots
    PROVE  TokensOf(part) \subseteq TokensOf(slots)
  BY TokensMember

LEMMA TokensOfOne ==
    ASSUME NEW k, NEW n \in Nat
    PROVE  IsFiniteSet({k} \X (1 .. n)) /\ Cardinality({k} \X (1 .. n)) = n
<1>1. IsFiniteSet({k}) /\ Cardinality({k}) = 1
  BY FS_Singleton
<1>2. IsFiniteSet(1 .. n) /\ Cardinality(1 .. n) = n
  BY FS_Interval
<1>3. IsFiniteSet({k} \X (1 .. n)) /\ Cardinality({k} \X (1 .. n)) = 1 * n
  BY <1>1, <1>2, FS_Product
<1>. QED
  BY <1>3

\* Who stands in the window is counted there.
LEMMA CountedInWindow ==
    ASSUME NEW passed \in SUBSET Passed, NEW slots \in SUBSET Slot, IsFiniteSet(slots), IsFiniteSet(TokensOf(slots)),
           OncePerCall(passed), StandsFor(passed, slots)
    PROVE  /\ IsFiniteSet(passed) /\ Cardinality(passed) \in Nat /\ Cardinality(slots) \in Nat
           /\ Cardinality(passed) <= Cardinality(slots)
           /\ IsFiniteSet(TokensOf(passed)) /\ Reserved(passed) \in Nat /\ Reserved(slots) \in Nat
           /\ Reserved(passed) <= Reserved(slots)
<1>. DEFINE slotOf == [r \in passed |-> CHOOSE s \in slots : s.by = r.by /\ s.age = r.age /\ s.tokens >= r.tokens]
<1>1. \A r \in passed : slotOf[r] \in slots /\ slotOf[r].by = r.by
  BY DEF StandsFor
<1>2. slotOf \in Injection(passed, slots)
  <2>1. slotOf \in [passed -> slots]
    BY <1>1
  <2>2. ASSUME NEW r \in passed, NEW q \in passed, slotOf[r] = slotOf[q] PROVE r = q
    BY <1>1, <2>2 DEF OncePerCall
  <2>. HIDE DEF slotOf
  <2>. QED
    BY <2>1, <2>2 DEF Injection, IsInjective
<1>. HIDE DEF slotOf
<1>3. IsFiniteSet(passed) /\ Cardinality(passed) <= Cardinality(slots)
  BY <1>2, FS_Injection
<1>4. TokensOf(passed) \subseteq TokensOf(slots)
  <2>1. ASSUME NEW r \in passed, NEW i \in 1 .. r.tokens PROVE <<r.by, i>> \in TokensOf(slots)
    <3>1. PICK s \in slots : s.by = r.by /\ s.tokens >= r.tokens
      BY DEF StandsFor
    <3>2. r.tokens \in Nat /\ s.tokens \in Nat
      BY DEF Passed, Slot
    <3>3. i \in 1 .. s.tokens
      BY <3>1, <3>2
    <3>. QED
      BY <3>1, <3>3, TokensMember
  <2>. QED
    BY <2>1, TokensMember
<1>5. IsFiniteSet(TokensOf(passed)) /\ Cardinality(TokensOf(passed)) <= Cardinality(TokensOf(slots))
  BY <1>4, FS_Subset
<1>6. /\ Cardinality(passed) \in Nat /\ Cardinality(slots) \in Nat
      /\ Cardinality(TokensOf(passed)) \in Nat /\ Cardinality(TokensOf(slots)) \in Nat
  BY <1>3, <1>5, FS_CardinalityType
<1>. QED
  BY <1>3, <1>5, <1>6 DEF Reserved, TokensOf

\* One more is let pass.
LEMMA OneMorePasses ==
    ASSUME NEW slots, IsFiniteSet(slots), IsFiniteSet(TokensOf(slots)),
           NEW slot, slot.tokens \in Nat
    PROVE  /\ IsFiniteSet(slots \cup {slot}) /\ IsFiniteSet(TokensOf(slots \cup {slot}))
           /\ Cardinality(slots \cup {slot}) <= Cardinality(slots) + 1 /\ Cardinality(slots) \in Nat
           /\ Reserved(slots \cup {slot}) <= Reserved(slots) + slot.tokens
           /\ Reserved(slots) \in Nat /\ Reserved(slots \cup {slot}) \in Nat
<1>1. /\ IsFiniteSet(slots \cup {slot}) /\ Cardinality(slots) \in Nat
      /\ Cardinality(slots \cup {slot}) <= Cardinality(slots) + 1
  <2>1. Cardinality(slots) \in Nat
    BY FS_CardinalityType
  <2>2. /\ IsFiniteSet(slots \cup {slot})
        /\ \/ Cardinality(slots \cup {slot}) = Cardinality(slots)
           \/ Cardinality(slots \cup {slot}) = Cardinality(slots) + 1
    BY FS_AddElement
  <2>. QED
    BY <2>1, <2>2
<1>. DEFINE own == {slot.by} \X (1 .. slot.tokens)
<1>2. TokensOf(slots \cup {slot}) = TokensOf(slots) \cup own
  <2>1. ASSUME NEW p PROVE p \in TokensOf(slots \cup {slot}) <=> p \in TokensOf(slots) \cup own
    <3>1. p \in own <=> \E i \in 1 .. slot.tokens : p = <<slot.by, i>>
      OBVIOUS
    <3>. QED
      BY <3>1, TokensMember
  <2>. QED
    BY <2>1
<1>3. IsFiniteSet(own) /\ Cardinality(own) = slot.tokens
  BY TokensOfOne
<1>. HIDE DEF own
<1>4. /\ IsFiniteSet(TokensOf(slots) \cup own)
      /\ Cardinality(TokensOf(slots) \cup own) =
           Cardinality(TokensOf(slots)) + Cardinality(own) - Cardinality(TokensOf(slots) \cap own)
  BY <1>3, FS_Union
<1>5. IsFiniteSet(TokensOf(slots) \cap own)
  BY <1>3, FS_Subset
<1>6. /\ Cardinality(TokensOf(slots) \cap own) \in Nat /\ Cardinality(TokensOf(slots)) \in Nat
      /\ Cardinality(TokensOf(slots) \cup own) \in Nat
  BY <1>4, <1>5, FS_CardinalityType
<1>7. Cardinality(TokensOf(slots) \cup own) <= Cardinality(TokensOf(slots)) + slot.tokens
  BY <1>3, <1>4, <1>6
<1>. QED
  BY <1>1, <1>2, <1>4, <1>6, <1>7 DEF Reserved, TokensOf

\* Who waits for the oldest slot waits for some time.
LEMMA OldestIsWaitedFor ==
    ASSUME NEW slots \in SUBSET Slot
    PROVE  UntilOldest(Prune(slots)) \in Nat \ {0}
<1>1. CASE Prune(slots) = {}
  BY <1>1 DEF UntilOldest
<1>2. CASE Prune(slots) # {}
  <2>. DEFINE ages == {s.age : s \in Prune(slots)}
  <2>1. \A s \in Prune(slots) : s.age \in Nat /\ s.age < Minute
    BY DEF Prune, Slot, Ages
  <2>2. ages \in SUBSET (0 .. Minute) /\ ages # {}
    BY <1>2, <2>1
  <2>3. PICK d \in ages : \A e \in ages : e <= d
    <3>. HIDE DEF ages
    <3>. QED
      BY <2>2, LargestExists
  <2>4. PICK s \in Prune(slots) : s.age = d
    OBVIOUS
  <2>5. \A other \in Prune(slots) : s.age >= other.age
    BY <2>1, <2>3, <2>4
  <2>6. PICK oldest : oldest = CHOOSE q \in Prune(slots) : \A other \in Prune(slots) : q.age >= other.age
    OBVIOUS
  <2>7. oldest \in Prune(slots)
    BY <2>5, <2>6
  <2>8. UntilOldest(Prune(slots)) = Minute - oldest.age
    BY <1>2, <2>6 DEF UntilOldest
  <2>. QED
    BY <2>1, <2>7, <2>8
<1>. QED
  BY <1>1, <1>2

\* Whoever passed within the minute is not pruned.
LEMMA PruneKeeps ==
    ASSUME NEW passed \in SUBSET Passed, NEW slots \in SUBSET Slot, StandsFor(passed, slots),
           IsFiniteSet(slots), IsFiniteSet(TokensOf(slots))
    PROVE  /\ StandsFor(passed, Prune(slots)) /\ Prune(slots) \in SUBSET slots
           /\ IsFiniteSet(Prune(slots)) /\ IsFiniteSet(TokensOf(Prune(slots)))
<1>1. Prune(slots) \in SUBSET slots
  BY DEF Prune
<1>2. TokensOf(Prune(slots)) \subseteq TokensOf(slots)
  BY <1>1, TokensOfSome
<1>3. IsFiniteSet(Prune(slots)) /\ IsFiniteSet(TokensOf(Prune(slots)))
  BY <1>1, <1>2, FS_Subset
<1>4. \A r \in passed : r.age < Minute
  BY DEF Passed
<1>5. StandsFor(passed, Prune(slots))
  BY <1>4 DEF StandsFor, Prune
<1>. QED
  BY <1>1, <1>3, <1>5

LEMMA CallerFields ==
    ASSUME ModelTypeOK, NEW k \in ModelCallers
    PROVE  /\ caller[k] \in Caller /\ caller[k].model \in Models
           /\ caller[k].size \in Sizes /\ caller[k].size \in Nat /\ caller[k].wait \in Nat
  BY DEF ModelTypeOK, Caller

\* Nothing to wait for: there is a lease to be had, and room in the minute.
LEMMA NothingToWaitFor ==
    ASSUME ModelTypeOK, IsFiniteSet(InFlight), NEW m \in Models, NEW size \in Nat,
           IsFiniteSet(Prune(window[m])), IsFiniteSet(TokensOf(Prune(window[m])))
    PROVE  /\ WaitFor(m, size) \in Nat
           /\ WaitFor(m, size) = 0 =>
                 /\ active < MaxConcurrency
                 /\ RequestLimit > 0 => Cardinality(Prune(window[m])) < RequestLimit
                 /\ TokenLimit > 0 => ~TooMany(Prune(window[m]), size)
<1>. DEFINE slots == Prune(window[m])
            full == \/ RequestLimit > 0 /\ Cardinality(slots) >= RequestLimit
                    \/ TokenLimit > 0 /\ TooMany(slots, size)
<1>1. PICK busy : busy = IF active >= MaxConcurrency THEN 1 ELSE 0
  OBVIOUS
<1>2. PICK oldest : oldest = UntilOldest(slots)
  OBVIOUS
<1>3. oldest \in Nat \ {0}
  <2>1. window[m] \in SUBSET Slot
    BY DEF ModelTypeOK
  <2>. QED
    BY <1>2, <2>1, OldestIsWaitedFor
<1>4. cooldown[m] \in Nat /\ active \in Nat
  <2>1. Cardinality(InFlight) \in Nat
    BY FS_CardinalityType
  <2>. QED
    BY <2>1 DEF ModelTypeOK
<1>5. WaitFor(m, size) = Longer(Longer(busy, cooldown[m]), IF full THEN oldest ELSE 0)
  BY <1>1, <1>2 DEF WaitFor
<1>6. PICK more : more = IF full THEN oldest ELSE 0
  OBVIOUS
<1>7. more \in Nat /\ (more = 0 => ~full)
  <2>. HIDE DEF full
  <2>. QED
    BY <1>3, <1>6
<1>8. busy \in Nat /\ (busy = 0 => active < MaxConcurrency)
  BY <1>1, <1>4
<1>9. WaitFor(m, size) \in Nat /\ (WaitFor(m, size) = 0 => busy = 0 /\ more = 0)
  <2>. HIDE DEF full, slots
  <2>1. WaitFor(m, size) = Longer(Longer(busy, cooldown[m]), more)
    BY <1>5, <1>6
  <2>. QED
    BY <2>1, <1>4, <1>7, <1>8 DEF Longer
<1>10. Cardinality(slots) \in Nat
  BY FS_CardinalityType
<1>. QED
  BY <1>7, <1>8, <1>9, <1>10

\* A request is let pass, and the limits are respected.
LEMMA PassHolds ==
    ASSUME ModelInv, NEW k \in ModelCallers, caller[k].at \in {"ready", "asleep"}, Acquire(k),
           WaitFor(caller[k].model, caller[k].size) = 0
    PROVE  /\ window' \in [Models -> SUBSET Slot] /\ recent' \in [Models -> SUBSET Passed]
           /\ caller' \in [ModelCallers -> Caller]
           /\ IsFiniteSet(InFlight') /\ active' = Cardinality(InFlight') /\ active' <= MaxConcurrency
           /\ \A m \in Models : LimiterHolds(m)'
<1>1. PICK m, size : m = caller[k].model /\ size = caller[k].size
  OBVIOUS
<1>2. m \in Models /\ size \in Sizes /\ size \in Nat
  BY <1>1, CallerFields DEF ModelInv
<1>3. PICK slot : slot = [by |-> k, age |-> 0, tokens |-> size]
  OBVIOUS
<1>4. /\ window' = [window EXCEPT ![m] = Prune(@) \cup {slot}]
      /\ recent' = [recent EXCEPT ![m] = @ \cup {slot}]
      /\ active' = active + 1
      /\ caller' = [caller EXCEPT ![k].at = "sent"]
  BY <1>1, <1>3 DEF Acquire
<1>5. slot \in Slot /\ slot \in Passed /\ slot.tokens = size /\ slot.by = k /\ slot.age = 0
  BY <1>2, <1>3 DEF Slot, Passed, Ages
<1>6. /\ window \in [Models -> SUBSET Slot] /\ recent \in [Models -> SUBSET Passed]
      /\ caller \in [ModelCallers -> Caller]
  BY DEF ModelInv, ModelTypeOK
<1>7. window' \in [Models -> SUBSET Slot] /\ recent' \in [Models -> SUBSET Passed]
  BY <1>2, <1>4, <1>5, <1>6 DEF Prune
<1>8. caller' \in [ModelCallers -> Caller]
  <2>1. PICK sent : sent = [caller[k] EXCEPT !.at = "sent"]
    OBVIOUS
  <2>2. sent \in Caller
    <3>1. caller[k] \in Caller
      BY <1>6
    <3>. QED
      BY ONLY <2>1, <3>1 DEF Caller
  <2>3. caller' = [caller EXCEPT ![k] = sent]
    BY <1>4, <1>6, <2>1
  <2>. QED
    BY <1>6, <2>2, <2>3
<1>9. LimiterHolds(m)
  BY <1>2 DEF ModelInv
<1>10. /\ StandsFor(recent[m], Prune(window[m])) /\ Prune(window[m]) \in SUBSET Slot
       /\ IsFiniteSet(Prune(window[m])) /\ IsFiniteSet(TokensOf(Prune(window[m])))
  <2>1. window[m] \in SUBSET Slot /\ recent[m] \in SUBSET Passed
    BY <1>2, <1>6
  <2>. QED
    BY <1>9, <2>1, PruneKeeps DEF LimiterHolds
<1>11. /\ active < MaxConcurrency
       /\ RequestLimit > 0 => Cardinality(Prune(window[m])) < RequestLimit
       /\ TokenLimit > 0 => ~TooMany(Prune(window[m]), size)
  BY <1>1, <1>2, <1>10, NothingToWaitFor DEF ModelInv
<1>12. IsFiniteSet(InFlight') /\ active' = Cardinality(InFlight') /\ active' <= MaxConcurrency
  <2>1. InFlight' = InFlight \cup {k} /\ k \notin InFlight
    BY <1>4, <1>6 DEF InFlight
  <2>2. IsFiniteSet(InFlight) /\ active = Cardinality(InFlight)
    BY DEF ModelInv, ModelTypeOK
  <2>3. Cardinality(InFlight) \in Nat
    BY <2>2, FS_CardinalityType
  <2>4. IsFiniteSet(InFlight \cup {k}) /\ Cardinality(InFlight \cup {k}) = Cardinality(InFlight) + 1
    BY <2>1, <2>2, FS_AddElement
  <2>5. active + 1 <= MaxConcurrency
    BY <1>11, <2>2, <2>3
  <2>. QED
    BY <1>4, <2>1, <2>2, <2>4, <2>5
<1>13. \A n \in Models : \A r \in recent[n] : caller[r.by].at \in {"sent", "over"} /\ r.by # k
  <2>1. \A n \in Models : \A r \in recent[n] : caller[r.by].at \in {"sent", "over"}
    BY DEF ModelInv, LimiterHolds
  <2>2. caller[k].at \notin {"sent", "over"}
    OBVIOUS
  <2>. QED
    BY ONLY <2>1, <2>2
<1>14. LimiterHolds(m)'
  <2>1. window'[m] = Prune(window[m]) \cup {slot} /\ recent'[m] = recent[m] \cup {slot}
    BY <1>2, <1>4, <1>6
  <2>2. /\ IsFiniteSet(window'[m]) /\ IsFiniteSet(TokensOf(window'[m]))
    BY <1>2, <1>5, <1>10, <2>1, OneMorePasses
  <2>3. OncePerCall(recent'[m])
    BY <1>2, <1>5, <1>9, <1>13, <2>1 DEF LimiterHolds, OncePerCall
  <2>4. StandsFor(recent'[m], window'[m])
    BY <1>2, <1>5, <1>10, <2>1 DEF StandsFor
  <2>5. \A r \in recent'[m] : caller'[r.by].at \in {"sent", "over"}
    <3>1. caller'[k].at = "sent" /\ \A j \in ModelCallers \ {k} : caller'[j] = caller[j]
      BY <1>4, <1>6
    <3>2. \A r \in recent[m] : r.by \in ModelCallers
      BY <1>2, <1>6 DEF Passed
    <3>. QED
      BY <1>2, <1>5, <1>13, <2>1, <3>1, <3>2
  <2>6. /\ IsFiniteSet(recent[m]) /\ Cardinality(recent[m]) \in Nat
        /\ Cardinality(Prune(window[m])) \in Nat
        /\ Cardinality(recent[m]) <= Cardinality(Prune(window[m]))
        /\ IsFiniteSet(TokensOf(recent[m])) /\ Reserved(recent[m]) \in Nat
        /\ Reserved(Prune(window[m])) \in Nat
        /\ Reserved(recent[m]) <= Reserved(Prune(window[m]))
    <3>1. recent[m] \in SUBSET Passed /\ OncePerCall(recent[m])
      BY <1>2, <1>6, <1>9 DEF LimiterHolds
    <3>. QED
      BY <3>1, <1>10, CountedInWindow
  <2>7. /\ Cardinality(recent'[m]) <= Cardinality(recent[m]) + 1
        /\ Cardinality(recent'[m]) \in Nat
        /\ Reserved(recent'[m]) <= Reserved(recent[m]) + size
        /\ Reserved(recent'[m]) \in Nat
    <3>1. /\ IsFiniteSet(recent[m] \cup {slot})
          /\ Cardinality(recent[m] \cup {slot}) <= Cardinality(recent[m]) + 1
          /\ Reserved(recent[m] \cup {slot}) <= Reserved(recent[m]) + slot.tokens
          /\ Reserved(recent[m] \cup {slot}) \in Nat
      BY <1>2, <1>5, <2>6, OneMorePasses
    <3>2. Cardinality(recent[m] \cup {slot}) \in Nat
      BY <3>1, FS_CardinalityType
    <3>. QED
      BY <1>5, <2>1, <3>1, <3>2
  <2>8. RequestLimit > 0 => Cardinality(recent'[m]) <= RequestLimit
    BY <1>11, <2>6, <2>7
  <2>9. ASSUME TokenLimit > 0, Cardinality(recent'[m]) > 1 PROVE Reserved(recent'[m]) <= TokenLimit
    <3>1. CASE Prune(window[m]) = {}
      <4>1. recent[m] = {}
        BY <1>10, <3>1 DEF StandsFor
      <4>2. recent'[m] = {slot}
        BY <2>1, <4>1
      <4>3. Cardinality(recent'[m]) = 1
        BY <4>2, FS_Singleton
      <4>. QED
        BY <2>9, <4>3
    <3>2. CASE Prune(window[m]) # {}
      <4>1. ~(Reserved(Prune(window[m])) + size > TokenLimit)
        BY <1>11, <2>9, <3>2 DEF TooMany
      <4>. QED
        BY <1>2, <2>6, <2>7, <4>1
    <3>. QED
      BY <3>1, <3>2
  <2>. QED
    BY <2>2, <2>3, <2>4, <2>5, <2>8, <2>9 DEF LimiterHolds
<1>15. ASSUME NEW n \in Models, n # m PROVE LimiterHolds(n)'
  <2>1. window'[n] = window[n] /\ recent'[n] = recent[n]
    BY <1>2, <1>4, <1>6, <1>15
  <2>2. \A r \in recent[n] : caller'[r.by].at \in {"sent", "over"}
    <3>1. \A r \in recent[n] : r.by \in ModelCallers
      BY <1>6, <1>15 DEF Passed
    <3>. QED
      BY <1>4, <1>6, <1>13, <1>15, <3>1
  <2>3. LimiterHolds(n)
    BY <1>15 DEF ModelInv
  <2>. QED
    BY <2>1, <2>2, <2>3 DEF LimiterHolds
<1>. QED
  BY <1>7, <1>8, <1>12, <1>14, <1>15

\* Of a model whose requests stay as they are, only the window moves on.
LEMMA LimiterStays ==
    ASSUME NEW m \in Models, LimiterHolds(m), recent'[m] = recent[m],
           IsFiniteSet(window'[m]), IsFiniteSet(TokensOf(window'[m])),
           StandsFor(recent[m], window'[m]),
           \A k \in ModelCallers : caller[k].at \in {"sent", "over"} => caller'[k].at \in {"sent", "over"},
           ModelTypeOK
    PROVE  LimiterHolds(m)'
<1>1. \A r \in recent[m] : r.by \in ModelCallers
  BY DEF ModelTypeOK, Passed
<1>2. \A r \in recent[m] : caller'[r.by].at \in {"sent", "over"}
  BY <1>1 DEF LimiterHolds
<1>. QED
  BY <1>2 DEF LimiterHolds

\* A request must wait: what is older than a minute is forgotten.
LEMMA SleepHolds ==
    ASSUME ModelInv, NEW k \in ModelCallers, caller[k].at \in {"ready", "asleep"}, Acquire(k),
           WaitFor(caller[k].model, caller[k].size) # 0
    PROVE  /\ window' \in [Models -> SUBSET Slot] /\ recent' \in [Models -> SUBSET Passed]
           /\ caller' \in [ModelCallers -> Caller]
           /\ IsFiniteSet(InFlight') /\ active' = Cardinality(InFlight') /\ active' <= MaxConcurrency
           /\ \A m \in Models : LimiterHolds(m)'
<1>1. PICK m, size, w : m = caller[k].model /\ size = caller[k].size /\ w = WaitFor(m, size)
  OBVIOUS
<1>2. m \in Models /\ size \in Nat
  BY <1>1, CallerFields DEF ModelInv
<1>3. /\ window' = [window EXCEPT ![m] = Prune(@)]
      /\ recent' = recent /\ active' = active
      /\ caller' = [caller EXCEPT ![k].at = "asleep", ![k].wait = w]
  BY <1>1 DEF Acquire
<1>4. /\ window \in [Models -> SUBSET Slot] /\ recent \in [Models -> SUBSET Passed]
      /\ caller \in [ModelCallers -> Caller] /\ ModelTypeOK
  BY DEF ModelInv, ModelTypeOK
<1>5. ASSUME NEW n \in Models
      PROVE  /\ LimiterHolds(n) /\ IsFiniteSet(window[n]) /\ IsFiniteSet(TokensOf(window[n]))
             /\ StandsFor(recent[n], window[n])
             /\ StandsFor(recent[n], Prune(window[n])) /\ Prune(window[n]) \in SUBSET window[n]
             /\ IsFiniteSet(Prune(window[n])) /\ IsFiniteSet(TokensOf(Prune(window[n])))
  <2>1. LimiterHolds(n)
    BY DEF ModelInv
  <2>2. /\ IsFiniteSet(window[n]) /\ IsFiniteSet(TokensOf(window[n]))
        /\ StandsFor(recent[n], window[n])
    BY <2>1 DEF LimiterHolds
  <2>3. window[n] \in SUBSET Slot /\ recent[n] \in SUBSET Passed
    BY <1>4
  <2>. QED
    BY <2>1, <2>2, <2>3, PruneKeeps
<1>6. w \in Nat
  BY <1>1, <1>2, <1>4, <1>5, NothingToWaitFor DEF ModelInv
<1>7. window' \in [Models -> SUBSET Slot]
  BY <1>2, <1>3, <1>4 DEF Prune
<1>8. caller' \in [ModelCallers -> Caller]
  <2>1. PICK sleeping : sleeping = [caller[k] EXCEPT !.at = "asleep", !.wait = w]
    OBVIOUS
  <2>2. sleeping \in Caller
    <3>1. caller[k] \in Caller
      BY <1>4
    <3>. QED
      BY ONLY <1>6, <2>1, <3>1 DEF Caller
  <2>3. caller' = [caller EXCEPT ![k] = sleeping]
    BY <1>3, <1>4, <2>1
  <2>. QED
    BY <1>4, <2>2, <2>3
<1>9. InFlight' = InFlight
  BY <1>3, <1>4 DEF InFlight
<1>10. \A j \in ModelCallers : caller[j].at \in {"sent", "over"} => caller'[j].at \in {"sent", "over"}
  <2>1. caller[k].at \notin {"sent", "over"}
    OBVIOUS
  <2>2. \A j \in ModelCallers \ {k} : caller'[j] = caller[j]
    BY <1>3, <1>4
  <2>. QED
    BY <2>1, <2>2
<1>11. ASSUME NEW n \in Models PROVE LimiterHolds(n)'
  <2>1. window'[n] \in {window[n], Prune(window[n])}
    BY <1>2, <1>3, <1>4
  <2>2. /\ IsFiniteSet(window'[n]) /\ IsFiniteSet(TokensOf(window'[n]))
        /\ StandsFor(recent[n], window'[n])
    BY <2>1, <1>5
  <2>3. recent'[n] = recent[n]
    BY <1>3
  <2>. QED
    BY <1>4, <1>5, <1>10, <2>2, <2>3, LimiterStays
<1>. QED
  BY <1>3, <1>4, <1>7, <1>8, <1>9, <1>11 DEF ModelInv, ModelTypeOK

LEMMA AcquireHolds ==
    ASSUME ModelInv, NEW k \in ModelCallers, caller[k].at \in {"ready", "asleep"}, Acquire(k),
           cooldown' = cooldown, budget' \in Budget
    PROVE  ModelInv'
<1>1. /\ window' \in [Models -> SUBSET Slot] /\ recent' \in [Models -> SUBSET Passed]
      /\ caller' \in [ModelCallers -> Caller]
      /\ IsFiniteSet(InFlight') /\ active' = Cardinality(InFlight') /\ active' <= MaxConcurrency
      /\ \A m \in Models : LimiterHolds(m)'
  BY PassHolds, SleepHolds
<1>. QED
  BY <1>1 DEF ModelInv, ModelTypeOK

LEMMA CallerEnds ==
    ASSUME ModelTypeOK, NEW k \in ModelCallers, NEW outcome \in Outcomes, NEW retryable \in BOOLEAN,
           EndModelCall(k, outcome, retryable)
    PROVE  /\ caller' \in [ModelCallers -> Caller] /\ caller'[k].at = "over"
           /\ \A j \in ModelCallers \ {k} : caller'[j] = caller[j]
<1>1. caller[k] \in Caller /\ caller \in [ModelCallers -> Caller]
  BY DEF ModelTypeOK
<1>2. PICK ended : ended = [caller[k] EXCEPT !.at = "over", !.outcome = outcome, !.retryable = retryable,
                                          !.wait = 0]
  OBVIOUS
<1>3. ended \in Caller /\ ended.at = "over"
  BY <1>1, <1>2 DEF Caller
<1>4. caller' = [caller EXCEPT ![k] = ended]
  BY <1>1, <1>2 DEF EndModelCall
<1>. QED
  BY <1>1, <1>3, <1>4

\* The lease is given back, and the slot counts no less than before.
LEMMA LeaseReturned ==
    ASSUME ModelInv, NEW k \in ModelCallers, caller[k].at = "sent", NEW tokens \in Nat,
           ReleaseLease(k, tokens),
           NEW outcome \in Outcomes, NEW retryable \in BOOLEAN, EndModelCall(k, outcome, retryable),
           UNCHANGED recent, cooldown' \in [Models -> Nat], budget' \in Budget
    PROVE  ModelInv'
<1>1. PICK m : m = caller[k].model
  OBVIOUS
<1>2. m \in Models
  BY <1>1, CallerFields DEF ModelInv
<1>3. /\ window \in [Models -> SUBSET Slot] /\ recent \in [Models -> SUBSET Passed]
      /\ caller \in [ModelCallers -> Caller] /\ ModelTypeOK
  BY DEF ModelInv, ModelTypeOK
<1>4. PICK counted : counted = [s \in Slot |-> IF s.by = k THEN [s EXCEPT !.tokens = Longer(@, tokens)] ELSE s]
  OBVIOUS
<1>11. window' = [window EXCEPT ![m] = {counted[s] : s \in @}]
  <2>1. window[m] \in SUBSET Slot
    BY <1>2, <1>3
  <2>2. {IF s.by = k THEN [s EXCEPT !.tokens = Longer(@, tokens)] ELSE s : s \in window[m]}
           = {counted[s] : s \in window[m]}
    BY <1>4, <2>1
  <2>3. window' = [window EXCEPT ![m] =
           {IF s.by = k THEN [s EXCEPT !.tokens = Longer(@, tokens)] ELSE s : s \in @}]
    BY <1>1 DEF ReleaseLease, Used
  <2>. QED
    BY <1>2, <1>3, <2>2, <2>3
<1>5. ASSUME NEW s \in Slot
      PROVE  /\ counted[s] \in Slot /\ counted[s].by = s.by /\ counted[s].age = s.age
             /\ counted[s].tokens >= s.tokens
             /\ counted[s].tokens = s.tokens \/ (s.by = k /\ counted[s].tokens = tokens)
  BY <1>4 DEF Slot, Longer
<1>6. window' \in [Models -> SUBSET Slot]
  <2>1. window[m] \in SUBSET Slot
    BY <1>2, <1>3
  <2>2. {counted[s] : s \in window[m]} \in SUBSET Slot
    BY <1>5, <2>1
  <2>. QED
    BY <1>2, <1>3, <1>11, <2>2
<1>7. caller' \in [ModelCallers -> Caller] /\ caller'[k].at = "over"
      /\ \A j \in ModelCallers \ {k} : caller'[j] = caller[j]
  BY CallerEnds, <1>3
<1>8. IsFiniteSet(InFlight') /\ active' = Cardinality(InFlight') /\ active' <= MaxConcurrency
  <2>1. InFlight' = InFlight \ {k} /\ k \in InFlight
    BY <1>7 DEF InFlight
  <2>2. IsFiniteSet(InFlight) /\ active = Cardinality(InFlight) /\ active <= MaxConcurrency
    BY DEF ModelInv, ModelTypeOK
  <2>3. IsFiniteSet(InFlight \ {k}) /\ Cardinality(InFlight \ {k}) = Cardinality(InFlight) - 1
    BY <2>1, <2>2, FS_RemoveElement
  <2>4. Cardinality(InFlight) \in Nat
    BY <2>2, FS_CardinalityType
  <2>5. active' = active - 1
    BY DEF ReleaseLease
  <2>. QED
    BY <2>1, <2>2, <2>3, <2>4, <2>5
<1>9. \A j \in ModelCallers : caller[j].at \in {"sent", "over"} => caller'[j].at \in {"sent", "over"}
  BY <1>7
<1>10. ASSUME NEW n \in Models PROVE LimiterHolds(n)'
  <2>1. LimiterHolds(n)
    BY DEF ModelInv
  <2>2. /\ IsFiniteSet(window[n]) /\ IsFiniteSet(TokensOf(window[n]))
        /\ StandsFor(recent[n], window[n])
    BY <2>1 DEF LimiterHolds
  <2>3. window[n] \in SUBSET Slot /\ recent'[n] = recent[n]
    BY <1>3
  <2>4. CASE n # m
    <3>1. window'[n] = window[n]
      BY <1>2, <1>3, <1>11, <2>4
    <3>. QED
      BY <1>3, <1>9, <2>1, <2>2, <2>3, <3>1, LimiterStays
  <2>5. CASE n = m
    <3>1. window'[n] = {counted[s] : s \in window[n]}
      BY <1>2, <1>3, <1>11, <2>5
    <3>2. IsFiniteSet(window'[n])
      <4>. DEFINE new == [s \in window[n] |-> counted[s]]
      <4>1. new \in Surjection(window[n], window'[n])
        BY <3>1 DEF Surjection
      <4>. HIDE DEF new
      <4>. QED
        BY <2>2, <4>1, FS_Surjection
    <3>3. IsFiniteSet(TokensOf(window'[n]))
      <4>1. TokensOf(window'[n]) \subseteq TokensOf(window[n]) \cup ({k} \X (1 .. tokens))
        <5>1. ASSUME NEW s \in window[n], NEW i \in 1 .. counted[s].tokens
              PROVE  <<s.by, i>> \in TokensOf(window[n]) \cup ({k} \X (1 .. tokens))
          <6>1. CASE counted[s].tokens = s.tokens
            BY <6>1, TokensMember
          <6>2. CASE s.by = k /\ counted[s].tokens = tokens
            BY <6>2
          <6>. QED
            BY <1>5, <2>3, <6>1, <6>2
        <5>2. \A s \in window[n] : counted[s].by = s.by
          BY <1>5, <2>3
        <5>3. ASSUME NEW p \in TokensOf(window'[n])
              PROVE  p \in TokensOf(window[n]) \cup ({k} \X (1 .. tokens))
          <6>1. PICK q \in window'[n] : \E i \in 1 .. q.tokens : p = <<q.by, i>>
            BY TokensMember
          <6>2. PICK s \in window[n] : q = counted[s]
            BY <3>1
          <6>. QED
            BY <5>1, <5>2, <6>1, <6>2
        <5>. QED
          BY <5>3
      <4>2. IsFiniteSet({k} \X (1 .. tokens))
        BY TokensOfOne
      <4>3. IsFiniteSet(TokensOf(window[n]) \cup ({k} \X (1 .. tokens)))
        BY <2>2, <4>2, FS_Union
      <4>. QED
        BY <4>1, <4>3, FS_Subset
    <3>4. StandsFor(recent[n], window'[n])
      <4>1. ASSUME NEW r \in recent[n]
            PROVE  \E s \in window'[n] : s.by = r.by /\ s.age = r.age /\ s.tokens >= r.tokens
        <5>1. PICK s \in window[n] : s.by = r.by /\ s.age = r.age /\ s.tokens >= r.tokens
          BY <2>2 DEF StandsFor
        <5>2. counted[s] \in window'[n]
          BY <3>1
        <5>3. r.tokens \in Nat /\ s.tokens \in Nat /\ counted[s].tokens \in Nat
          <6>1. r \in Passed /\ s \in Slot /\ counted[s] \in Slot
            BY <1>3, <1>5, <2>3
          <6>2. Passed \subseteq [by : ModelCallers, age : 0 .. Minute - 1, tokens : Nat]
            BY DEF Passed
          <6>. QED
            BY <6>1, <6>2 DEF Slot
        <5>4. counted[s].by = r.by /\ counted[s].age = r.age /\ counted[s].tokens >= s.tokens
          BY <1>5, <2>3, <5>1
        <5>5. counted[s].tokens >= r.tokens
          BY <5>1, <5>3, <5>4
        <5>. QED
          BY <5>2, <5>4, <5>5
      <4>. QED
        BY <4>1 DEF StandsFor
    <3>. QED
      BY <1>3, <1>9, <2>1, <2>3, <3>2, <3>3, <3>4, LimiterStays
  <2>. QED
    BY <2>4, <2>5
<1>. QED
  BY <1>3, <1>6, <1>7, <1>8, <1>10 DEF ModelInv, ModelTypeOK

LEMMA ClockHolds == ASSUME ModelInv, ClockTicks PROVE ModelInv'
<1>1. /\ window \in [Models -> SUBSET Slot] /\ recent \in [Models -> SUBSET Passed]
      /\ caller \in [ModelCallers -> Caller] /\ cooldown \in [Models -> Nat] /\ budget \in Budget
      /\ ModelTypeOK /\ active = Cardinality(InFlight) /\ active <= MaxConcurrency
  BY DEF ModelInv, ModelTypeOK
<1>2. PICK older : older = [s \in Slot |-> Older(s)]
  OBVIOUS
<1>3. ASSUME NEW s \in Slot
      PROVE  /\ older[s] \in Slot /\ older[s].by = s.by /\ older[s].tokens = s.tokens
             /\ older[s].age = IF s.age < Minute THEN s.age + 1 ELSE s.age
             /\ Older(s) = older[s]
  BY <1>2 DEF Slot, Ages, Older
<1>4. Passed \subseteq Slot /\ Slot \subseteq [by : ModelCallers, age : Nat, tokens : Nat]
  <2>1. 0 .. Minute - 1 \subseteq Ages /\ Ages \subseteq Nat /\ Sizes \subseteq Nat
    BY DEF Ages
  <2>2. Passed \subseteq Slot
    BY ONLY <2>1 DEF Passed, Slot
  <2>3. Slot \subseteq [by : ModelCallers, age : Nat, tokens : Nat]
    BY ONLY <2>1 DEF Slot
  <2>. QED
    BY <2>2, <2>3
<1>5. ASSUME NEW r \in Passed, r.age + 1 < Minute
      PROVE  older[r] \in Passed /\ older[r].age = r.age + 1
  <2>1. r \in Slot /\ r.age \in Nat /\ r.age < Minute
    BY <1>4 DEF Passed
  <2>2. older[r] = [r EXCEPT !.age = r.age + 1]
    BY <1>2, <2>1 DEF Older
  <2>. QED
    BY <1>5, <2>1, <2>2 DEF Passed
<1>6. ASSUME NEW m \in Models
      PROVE  /\ window[m] \in SUBSET Slot /\ recent[m] \in SUBSET Passed
             /\ window'[m] = {older[s] : s \in window[m]}
             /\ recent'[m] = {older[r] : r \in {q \in recent[m] : q.age + 1 < Minute}}
  <2>1. window[m] \in SUBSET Slot /\ recent[m] \in SUBSET Passed
    BY <1>1
  <2>2. window'[m] = {Older(s) : s \in window[m]}
    BY DEF ClockTicks
  <2>3. recent'[m] = {Older(r) : r \in {q \in recent[m] : q.age + 1 < Minute}}
    BY DEF ClockTicks
  <2>4. {Older(s) : s \in window[m]} = {older[s] : s \in window[m]}
    BY <1>3, <2>1
  <2>5. {Older(r) : r \in {q \in recent[m] : q.age + 1 < Minute}}
           = {older[r] : r \in {q \in recent[m] : q.age + 1 < Minute}}
    BY <1>3, <1>4, <2>1
  <2>. QED
    BY <2>1, <2>2, <2>3, <2>4, <2>5
<1>7. window' \in [Models -> SUBSET Slot]
  <2>1. window' = [m \in Models |-> window'[m]]
    BY DEF ClockTicks
  <2>2. \A m \in Models : window'[m] \in SUBSET Slot
    BY <1>3, <1>6
  <2>. QED
    BY <2>1, <2>2
<1>8. recent' \in [Models -> SUBSET Passed]
  <2>1. recent' = [m \in Models |-> recent'[m]]
    BY DEF ClockTicks
  <2>2. \A m \in Models : recent'[m] \in SUBSET Passed
    BY <1>5, <1>6
  <2>. QED
    BY <2>1, <2>2
<1>9. cooldown' \in [Models -> Nat]
  BY <1>1 DEF ClockTicks
<1>10. budget' \in Budget
  BY <1>1 DEF ClockTicks, Budget
<1>11. /\ caller' \in [ModelCallers -> Caller]
       /\ \A j \in ModelCallers : caller'[j].at = caller[j].at
  <2>1. ASSUME NEW j \in ModelCallers PROVE caller'[j] \in Caller /\ caller'[j].at = caller[j].at
    <3>1. caller[j] \in Caller
      BY <1>1
    <3>2. PICK left : left = IF caller[j].wait > 0 THEN caller[j].wait - 1 ELSE 0
      OBVIOUS
    <3>3. left \in Nat
      BY <3>1, <3>2 DEF Caller
    <3>4. caller'[j] = [caller[j] EXCEPT !.wait = left]
      BY <3>2 DEF ClockTicks
    <3>. QED
      BY <3>1, <3>3, <3>4 DEF Caller
  <2>2. caller' = [j \in ModelCallers |-> caller'[j]]
    BY DEF ClockTicks
  <2>. QED
    BY <2>1, <2>2
<1>12. InFlight' = InFlight /\ active' = active
  BY <1>11 DEF InFlight, ClockTicks
<1>13. ASSUME NEW m \in Models PROVE LimiterHolds(m)'
  <2>1. /\ IsFiniteSet(window[m]) /\ IsFiniteSet(TokensOf(window[m]))
        /\ OncePerCall(recent[m]) /\ StandsFor(recent[m], window[m])
        /\ \A r \in recent[m] : caller[r.by].at \in {"sent", "over"}
    BY DEF ModelInv, LimiterHolds
  <2>2. /\ RequestLimit > 0 => Cardinality(recent[m]) <= RequestLimit
        /\ TokenLimit > 0 => (Cardinality(recent[m]) > 1 => Reserved(recent[m]) <= TokenLimit)
    BY DEF ModelInv, LimiterHolds
  <2>3. IsFiniteSet(window'[m])
    <3>. DEFINE new == [s \in window[m] |-> older[s]]
    <3>1. new \in Surjection(window[m], window'[m])
      BY <1>6 DEF Surjection
    <3>. HIDE DEF new
    <3>. QED
      BY <2>1, <3>1, FS_Surjection
  <2>4. TokensOf(window'[m]) \subseteq TokensOf(window[m])
    <3>1. ASSUME NEW p \in TokensOf(window'[m]) PROVE p \in TokensOf(window[m])
      <4>1. PICK q \in window'[m] : \E i \in 1 .. q.tokens : p = <<q.by, i>>
        BY TokensMember
      <4>2. PICK s \in window[m] : q = older[s]
        BY <1>6
      <4>3. q.by = s.by /\ q.tokens = s.tokens
        BY <1>3, <1>6, <4>2
      <4>. QED
        BY <4>1, <4>3, TokensMember
    <3>. QED
      BY <3>1
  <2>5. IsFiniteSet(TokensOf(window'[m]))
    BY <2>1, <2>4, FS_Subset
  <2>6. ASSUME NEW q \in recent'[m]
        PROVE  \E r \in recent[m] : /\ q = older[r] /\ r.age + 1 < Minute /\ r \in Passed /\ r \in Slot
                                    /\ q.by = r.by /\ q.tokens = r.tokens /\ q.age = r.age + 1
    <3>1. PICK r \in recent[m] : q = older[r] /\ r.age + 1 < Minute
      BY <1>6
    <3>2. r \in Passed /\ r \in Slot
      BY <1>4, <1>6
    <3>. QED
      BY <1>3, <1>5, <3>1, <3>2
  <2>7. OncePerCall(recent'[m])
    BY <2>1, <2>6 DEF OncePerCall
  <2>8. StandsFor(recent'[m], window'[m])
    <3>1. ASSUME NEW q \in recent'[m]
          PROVE  \E s \in window'[m] : s.by = q.by /\ s.age = q.age /\ s.tokens >= q.tokens
      <4>1. PICK r \in recent[m] : /\ r.age + 1 < Minute /\ r \in Slot
                                  /\ q.by = r.by /\ q.tokens = r.tokens /\ q.age = r.age + 1
        BY <2>6
      <4>2. PICK s \in window[m] : s.by = r.by /\ s.age = r.age /\ s.tokens >= r.tokens
        BY <2>1 DEF StandsFor
      <4>3. s \in Slot /\ older[s] \in window'[m]
        BY <1>6
      <4>4. r.age \in Nat
        BY <1>4, <4>1
      <4>5. older[s].age = r.age + 1
        BY <1>3, <4>1, <4>2, <4>3, <4>4
      <4>6. older[s].by = s.by /\ older[s].tokens = s.tokens
        BY <1>3, <4>3
      <4>. QED
        BY <4>1, <4>2, <4>3, <4>5, <4>6
    <3>. QED
      BY <3>1 DEF StandsFor
  <2>9. \A q \in recent'[m] : caller'[q.by].at \in {"sent", "over"}
    <3>1. \A r \in Passed : r.by \in ModelCallers
      BY DEF Passed
    <3>. QED
      BY <1>11, <2>1, <2>6, <3>1
  <2>10. /\ IsFiniteSet(recent[m]) /\ Cardinality(recent[m]) \in Nat
         /\ IsFiniteSet(TokensOf(recent[m])) /\ Reserved(recent[m]) \in Nat
    BY <1>6, <2>1, CountedInWindow
  <2>11. /\ IsFiniteSet(recent'[m]) /\ Cardinality(recent'[m]) \in Nat
         /\ Cardinality(recent'[m]) <= Cardinality(recent[m])
    <3>. DEFINE kept == {q \in recent[m] : q.age + 1 < Minute}
                new == [r \in kept |-> older[r]]
    <3>1. IsFiniteSet(kept) /\ Cardinality(kept) <= Cardinality(recent[m])
      BY <2>10, FS_Subset
    <3>2. new \in Surjection(kept, recent'[m])
      BY <1>6 DEF Surjection
    <3>. HIDE DEF new, kept
    <3>3. IsFiniteSet(recent'[m]) /\ Cardinality(recent'[m]) <= Cardinality(kept)
      BY <3>1, <3>2, FS_Surjection
    <3>4. Cardinality(kept) \in Nat /\ Cardinality(recent'[m]) \in Nat
      BY <3>1, <3>3, FS_CardinalityType
    <3>. QED
      BY <2>10, <3>1, <3>3, <3>4
  <2>12. TokensOf(recent'[m]) \subseteq TokensOf(recent[m])
    <3>1. ASSUME NEW p \in TokensOf(recent'[m]) PROVE p \in TokensOf(recent[m])
      <4>1. PICK q \in recent'[m] : \E i \in 1 .. q.tokens : p = <<q.by, i>>
        BY TokensMember
      <4>2. PICK r \in recent[m] : q.by = r.by /\ q.tokens = r.tokens
        BY <2>6
      <4>. QED
        BY <4>1, <4>2, TokensMember
    <3>. QED
      BY <3>1
  <2>13. Reserved(recent'[m]) <= Reserved(recent[m]) /\ Reserved(recent'[m]) \in Nat
    <3>1. /\ IsFiniteSet(TokensOf(recent'[m]))
          /\ Cardinality(TokensOf(recent'[m])) <= Cardinality(TokensOf(recent[m]))
      BY <2>10, <2>12, FS_Subset
    <3>2. Cardinality(TokensOf(recent'[m])) \in Nat
      BY <3>1, FS_CardinalityType
    <3>. QED
      BY <3>1, <3>2 DEF Reserved, TokensOf
  <2>14. RequestLimit > 0 => Cardinality(recent'[m]) <= RequestLimit
    BY <2>2, <2>10, <2>11
  <2>15. TokenLimit > 0 => (Cardinality(recent'[m]) > 1 => Reserved(recent'[m]) <= TokenLimit)
    BY <2>2, <2>10, <2>11, <2>13
  <2>. QED
    BY <2>3, <2>5, <2>7, <2>8, <2>9, <2>14, <2>15 DEF LimiterHolds
<1>. QED
  BY <1>1, <1>7, <1>8, <1>9, <1>10, <1>11, <1>12, <1>13 DEF ModelInv, ModelTypeOK

LEMMA CurrentBudget == ASSUME ModelTypeOK PROVE Current \in Budget
<1>1. budget \in Budget /\ [age |-> 0, requests |-> 0, tokens |-> 0] \in Budget
  BY DEF ModelTypeOK, Budget
<1>. QED
  BY <1>1 DEF Current

\* A call that never reaches the provider disturbs nothing.
LEMMA RefusalHolds ==
    ASSUME ModelInv, NEW k \in ModelCallers, caller[k].at = "ready",
           NEW outcome \in Outcomes, NEW retryable \in BOOLEAN, EndModelCall(k, outcome, retryable),
           UNCHANGED <<window, active, cooldown, recent>>, budget' \in Budget
    PROVE  ModelInv'
<1>1. ModelTypeOK
  BY DEF ModelInv
<1>2. /\ caller' \in [ModelCallers -> Caller] /\ caller'[k].at = "over"
      /\ \A j \in ModelCallers \ {k} : caller'[j] = caller[j]
  BY <1>1, CallerEnds
<1>3. InFlight' = InFlight
  BY <1>2 DEF InFlight
<1>4. \A j \in ModelCallers : caller[j].at \in {"sent", "over"} => caller'[j].at \in {"sent", "over"}
  BY <1>2
<1>5. ASSUME NEW m \in Models PROVE LimiterHolds(m)'
  <2>1. LimiterHolds(m)
    BY DEF ModelInv
  <2>2. window'[m] = window[m] /\ recent'[m] = recent[m]
    OBVIOUS
  <2>3. /\ IsFiniteSet(window'[m]) /\ IsFiniteSet(TokensOf(window'[m]))
        /\ StandsFor(recent[m], window'[m])
    BY <2>1, <2>2 DEF LimiterHolds
  <2>. QED
    BY <1>1, <1>4, <2>1, <2>2, <2>3, LimiterStays
<1>6. IsFiniteSet(InFlight)
  BY DEF ModelInv
<1>. QED
  BY <1>1, <1>2, <1>3, <1>5, <1>6 DEF ModelInv, ModelTypeOK

LEMMA ProviderHolds == ASSUME ModelInv, NEW k \in ModelCallers, Provider(k) PROVE ModelInv'
<1>1. ModelTypeOK /\ cooldown \in [Models -> Nat] /\ budget \in Budget
  BY DEF ModelInv, ModelTypeOK
<1>2. /\ "succeeded" \in Outcomes /\ "output" \in Outcomes /\ "budget" \in Outcomes
      /\ "provider" \in Outcomes /\ TRUE \in BOOLEAN /\ FALSE \in BOOLEAN /\ 0 \in Nat
      /\ Sizes \subseteq Nat /\ RetryAfter \subseteq Nat
  BY DEF Outcomes
<1>3. CASE Succeed(k)
  <2>1. PICK tokens \in Sizes :
           /\ ReleaseLease(k, tokens)
           /\ budget' = [Current EXCEPT !.tokens = @ + tokens]
           /\ EndModelCall(k, "budget", FALSE) \/ EndModelCall(k, "succeeded", FALSE)
                 \/ EndModelCall(k, "output", FALSE)
    BY <1>3 DEF Succeed
  <2>2. tokens \in Nat
    BY <1>2
  <2>3. budget' \in Budget
    BY <1>1, <2>1, <2>2, CurrentBudget DEF Budget
  <2>4. caller[k].at = "sent" /\ recent' = recent /\ cooldown' \in [Models -> Nat]
    BY <1>1, <1>3 DEF Succeed
  <2>. QED
    BY <1>2, <2>1, <2>2, <2>3, <2>4, LeaseReturned
<1>4. CASE RejectOutput(k)
  <2>1. PICK tokens \in Sizes : ReleaseLease(k, tokens)
    BY <1>4 DEF RejectOutput
  <2>2. /\ EndModelCall(k, "output", FALSE) /\ tokens \in Nat
        /\ caller[k].at = "sent" /\ recent' = recent /\ cooldown' \in [Models -> Nat] /\ budget' \in Budget
    BY <1>1, <1>2, <1>4 DEF RejectOutput
  <2>. QED
    BY <1>2, <2>1, <2>2, LeaseReturned
<1>5. CASE ProviderLimits(k)
  <2>1. PICK after \in RetryAfter :
           cooldown' = IF after > 0 THEN [cooldown EXCEPT ![caller[k].model] = after] ELSE cooldown
    BY <1>5 DEF ProviderLimits
  <2>2. after \in Nat /\ caller[k].model \in Models
    BY <1>1, <1>2, CallerFields
  <2>3. cooldown' \in [Models -> Nat]
    BY <1>1, <2>1, <2>2
  <2>4. /\ ReleaseLease(k, 0) /\ EndModelCall(k, "provider", TRUE)
        /\ caller[k].at = "sent" /\ recent' = recent /\ budget' \in Budget
    BY <1>1, <1>5 DEF ProviderLimits, ReleaseFailed
  <2>. QED
    BY <1>2, <2>3, <2>4, LeaseReturned
<1>6. CASE ProviderFails(k)
  <2>1. PICK retryable \in BOOLEAN : EndModelCall(k, "provider", retryable)
    BY <1>6 DEF ProviderFails
  <2>2. /\ ReleaseLease(k, 0)
        /\ caller[k].at = "sent" /\ recent' = recent /\ cooldown' \in [Models -> Nat] /\ budget' \in Budget
    BY <1>1, <1>6 DEF ProviderFails, ReleaseFailed
  <2>. QED
    BY <1>2, <2>1, <2>2, LeaseReturned
<1>. QED
  BY <1>3, <1>4, <1>5, <1>6 DEF Provider

LEMMA ModelStart == ModelInit => ModelInv
<1>. SUFFICES ASSUME ModelInit PROVE ModelInv
  OBVIOUS
<1>1. caller \in [ModelCallers -> Caller] /\ \A k \in ModelCallers : caller[k].at = "ready"
  <2>1. caller \in [ModelCallers -> [at : {"ready"}, model : Models, size : Sizes, wait : {0},
                                     outcome : {"none"}, retryable : {FALSE}]]
    BY DEF ModelInit
  <2>2. {0} \subseteq Nat /\ {FALSE} \subseteq BOOLEAN /\ "ready" \in {"ready", "asleep", "sent", "over"}
        /\ "none" \in Outcomes
    BY DEF Outcomes
  <2>3. ASSUME NEW k \in ModelCallers PROVE caller[k] \in Caller /\ caller[k].at = "ready"
    BY <2>1, <2>2 DEF Caller
  <2>. QED
    BY <2>1, <2>3
<1>2. InFlight = {}
  BY <1>1 DEF InFlight
<1>3. IsFiniteSet({}) /\ Cardinality({}) = 0
  BY FS_EmptySet
<1>4. /\ window \in [Models -> SUBSET Slot] /\ recent \in [Models -> SUBSET Passed]
      /\ cooldown \in [Models -> Nat] /\ budget \in Budget
  BY DEF ModelInit, Budget
<1>5. active = 0 /\ active <= MaxConcurrency
  BY DEF ModelInit
<1>6. ModelTypeOK
  BY <1>1, <1>2, <1>3, <1>4, <1>5 DEF ModelTypeOK
<1>7. ASSUME NEW m \in Models PROVE LimiterHolds(m)
  <2>1. window[m] = {} /\ recent[m] = {}
    BY DEF ModelInit
  <2>2. TokensOf({}) = {}
    BY DEF TokensOf
  <2>. QED
    BY <1>3, <2>1, <2>2 DEF LimiterHolds, OncePerCall, StandsFor
<1>. QED
  BY <1>2, <1>3, <1>6, <1>7 DEF ModelInv

LEMMA ModelStep == ModelInv /\ [ModelNext]_modelVars => ModelInv'
<1>. SUFFICES ASSUME ModelInv, [ModelNext]_modelVars PROVE ModelInv'
  OBVIOUS
<1>1. ModelTypeOK /\ budget \in Budget
  BY DEF ModelInv, ModelTypeOK
<1>2. CASE ClockTicks
  BY <1>2, ClockHolds
<1>3. ASSUME NEW k \in ModelCallers, RefusePrompt(k) PROVE ModelInv'
  BY <1>1, <1>3, RefusalHolds DEF RefusePrompt, Outcomes
<1>4. ASSUME NEW k \in ModelCallers, RefuseBudget(k) PROVE ModelInv'
  BY <1>1, <1>4, CurrentBudget, RefusalHolds DEF RefuseBudget, Outcomes
<1>5. ASSUME NEW k \in ModelCallers, BeginRequest(k) PROVE ModelInv'
  <2>1. budget' \in Budget
    BY <1>1, <1>5, CurrentBudget DEF BeginRequest, Budget
  <2>. QED
    BY <1>5, <2>1, AcquireHolds DEF BeginRequest
<1>6. ASSUME NEW k \in ModelCallers, WakeUp(k) PROVE ModelInv'
  BY <1>1, <1>6, AcquireHolds DEF WakeUp
<1>7. ASSUME NEW k \in ModelCallers, Provider(k) PROVE ModelInv'
  BY <1>7, ProviderHolds
<1>8. CASE UNCHANGED modelVars
  <2>1. UNCHANGED <<window, active, cooldown, budget, recent, caller>>
    BY <1>8 DEF modelVars
  <2>2. InFlight' = InFlight
    BY <2>1 DEF InFlight
  <2>3. \A m \in Models : LimiterHolds(m)'
    BY <2>1 DEF ModelInv, LimiterHolds
  <2>. QED
    BY <2>1, <2>2, <2>3 DEF ModelInv, ModelTypeOK
<1>. QED
  BY <1>2, <1>3, <1>4, <1>5, <1>6, <1>7, <1>8 DEF ModelNext

LEMMA ModelInvariant == ModelSpec => []ModelInv
  BY ModelStart, ModelStep, PTL DEF ModelSpec

\* The limiter keeps its count of requests in flight, and in no minute are more
\* requests let pass, or more tokens asked for, than the limits allow
\* (OpenAiRateLimiter.acquire and release).
THEOREM ModelIsSafe == ModelSpec => []ModelSafe
<1>1. ModelInv => ModelSafe
  BY DEF ModelInv, LimiterHolds, ModelSafe, MinuteIsRespected, TokensAreRespected
<1>. QED
  BY <1>1, ModelInvariant, PTL

-----------------------------------------------------------------------------
(* The tasks together.                                                     *)

\* In the composition that the run checks, each component keeps to its own
\* specification: a step of one leaves the variables of the others alone.  What is
\* proved of the components is thereby proved of the composition.
THEOREM TasksKeepToTheirSpecs ==
    TasksSpec => PipelineSpec /\ ReadingSpec /\ RelevanceSpec /\ AnalysisSpec /\ ReportsSpec /\ ModelSpec
<1>1. TasksInit => PipelineInit /\ ReadingInit /\ RelevanceInit /\ AnalysisInit /\ ReportsInit /\ ModelInit
  BY DEF TasksInit
<1>2. [TasksNext]_<<focus, allVars, taskVars>> =>
          /\ [PipelineNext]_allVars /\ [ReadingNext]_readingVars /\ [RelevanceNext]_relevanceVars
          /\ [AnalysisNext]_analysisVars /\ [ReportsNext]_reportVars /\ [ModelNext]_modelVars
  BY DEF TasksNext, taskVars, Rest
<1>. QED
  BY <1>1, <1>2, PTL DEF TasksSpec, PipelineSpec, ReadingSpec, RelevanceSpec, AnalysisSpec, ReportsSpec,
     ModelSpec

=============================================================================

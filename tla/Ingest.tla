------------------------------- MODULE Ingest -------------------------------
(***************************************************************************)
(* Ingest of one source (the CMS, or one crawled medium) in one locale: a  *)
(* poll reads the watermark, lists a page of later articles, takes a       *)
(* snapshot of each, enqueues a stage job, and at the end writes the       *)
(* watermark back.  The watermark belongs to the source: polls on behalf   *)
(* of all companies share it, and the queue runs them side by side.        *)
(***************************************************************************)
EXTENDS Integers, FiniteSets

CONSTANTS
  Polls,           \* in-flight handlers of ingest jobs
  Companies,
  NoCompany,
  Articles,        \* article ids: the source lists ties in their order
  NoArticle,
  Thin,            \* articles the content quality gate turns down
  Limit,           \* page size
  Kind,            \* "crawl" or "cms"
  Updates,         \* may an article be republished with new content?
  Arrival,         \* when new articles are dated, see Stamps
  ReplayConflicts, \* is a repeated stage job answered "conflict"?
  FirstMark,       \* the watermark at the start, NoMark if there is no row
  MaxTime,         \* BOUND: on the source's clock
  FaultBudget      \* BOUND: failed calls and crashes in a behaviour

ASSUME ArticleAssumption == Articles \subseteq Nat /\ NoArticle \notin Articles
ASSUME SourceAssumption ==
  /\ Kind \in {"crawl", "cms"}
  /\ Updates \in BOOLEAN
  /\ Arrival \in {"later", "same", "any"}
  /\ ReplayConflicts \in BOOLEAN
  /\ FirstMark \in {0, 1}
ASSUME BoundAssumption == Limit \in Nat \ {0} /\ MaxTime \in Nat \ {0} /\ FaultBudget \in Nat

VARIABLES
  visible,    \* the articles the source shows
  time,       \* their timestamps, 0 before they first appear
  clock,      \* the source's clock
  watermark,  \* ai.source_watermarks, NoMark while there is no row
  snapshots,  \* ai.article_snapshots: article versions
  staged,     \* stage jobs: article version and company
  poll,       \* the handlers
  faults

sourceVars == <<visible, time, clock>>
storeVars == <<watermark, snapshots, staged>>
vars == <<sourceVars, storeVars, poll, faults>>

NoMark == 0
Idle == [at |-> "idle", mode |-> "poll", company |-> NoCompany, since |-> NoMark,
         todo |-> {}, item |-> NoArticle, seen |-> 0, next |-> NoMark]

Init ==
  /\ visible = {}
  /\ time = [a \in Articles |-> 0]
  /\ clock = 1
  /\ watermark = FirstMark
  /\ snapshots = {}
  /\ staged = {}
  /\ poll = [p \in Polls |-> Idle]
  /\ faults = 0

Later(s, t) == IF s >= t THEN s ELSE t

-----------------------------------------------------------------------------
(* The source *)

\* A new article is dated after all others, possibly together with the last
\* one, or at any time after the first watermark: a crawler finds articles
\* after they were published.
Stamps ==
  CASE Arrival = "later" -> {clock + 1}
    [] Arrival = "same"  -> {clock, clock + 1} \ {FirstMark}
    [] OTHER             -> (FirstMark + 1)..(clock + 1)

Publish(a) ==
  /\ time[a] = 0
  /\ \E t \in Stamps :
       /\ t <= MaxTime
       /\ time' = [time EXCEPT ![a] = t]
       /\ clock' = Later(clock, t)
  /\ visible' = visible \cup {a}
  /\ UNCHANGED <<storeVars, poll, faults>>

Update(a) ==
  /\ Updates
  /\ a \in visible
  /\ clock < MaxTime
  /\ clock' = clock + 1
  /\ time' = [time EXCEPT ![a] = clock + 1]
  /\ UNCHANGED <<visible, storeVars, poll, faults>>

Withdraw(a) ==
  /\ a \in visible
  /\ visible' = visible \ {a}
  /\ UNCHANGED <<time, clock, storeVars, poll, faults>>

-----------------------------------------------------------------------------
(* poll and pollSource *)

At(p, where) == poll[p].at = where
Go(p, where) == poll' = [poll EXCEPT ![p].at = where]

\* The handler ends; an error fails the job, whose retry is a poll of its own.
Stop(p) == poll' = [poll EXCEPT ![p] = Idle]

ReadWatermark(p, c) ==
  /\ At(p, "idle")
  /\ poll' = [poll EXCEPT ![p] = [Idle EXCEPT !.at = "list", !.company = c, !.since = watermark]]
  /\ UNCHANGED <<sourceVars, storeVars, faults>>

\* triggerArticle: one article, no watermark.
Trigger(p, c, a) ==
  /\ At(p, "idle")
  /\ poll' = [poll EXCEPT ![p] = [Idle EXCEPT !.at = "fetch", !.mode = "article",
                                              !.company = c, !.todo = {a}]]
  /\ UNCHANGED <<sourceVars, storeVars, faults>>

Before(a, b) == time[a] < time[b] \/ (time[a] = time[b] /\ a < b)

\* The first articles dated after the watermark, Limit of them at most.
IsPage(page, since) ==
  LET newer == {a \in visible : time[a] > since}
  IN /\ page \subseteq newer
     /\ \A a \in page, b \in newer \ page : Before(a, b)
     /\ page = newer \/ Cardinality(page) = Limit
     /\ Cardinality(page) <= Limit

\* The watermark of a crawl poll is the date of the last row listed; that of a
\* CMS poll grows with the articles fetched.
Listed(page, since, mark) ==
  IF Kind = "crawl" /\ page # {}
  THEN \E a \in page : mark = time[a] /\ \A b \in page : time[b] <= mark
  ELSE mark = since

List(p) ==
  /\ At(p, "list")
  /\ \E page \in SUBSET visible, mark \in 0..MaxTime :
       /\ IsPage(page, poll[p].since)
       /\ Listed(page, poll[p].since, mark)
       /\ poll' = [poll EXCEPT ![p].at = "fetch", ![p].todo = page, ![p].next = mark]
  /\ UNCHANGED <<sourceVars, storeVars, faults>>

Counted(p, seen) == IF Kind = "cms" THEN Later(poll[p].next, seen) ELSE poll[p].next

\* The source gate refuses an article that is no longer published; the quality
\* gate skips one without failing the poll.
Fetch(p, a) ==
  /\ At(p, "fetch")
  /\ a \in poll[p].todo
  /\ \A b \in poll[p].todo : ~Before(b, a)
  /\ \/ a \notin visible /\ Stop(p)
     \/ /\ a \in visible \cap Thin
        /\ poll' = [poll EXCEPT ![p].todo = @ \ {a}, ![p].next = Counted(p, time[a])]
     \/ /\ a \in visible \ Thin
        /\ poll' = [poll EXCEPT ![p].at = "store", ![p].item = a, ![p].seen = time[a]]
  /\ UNCHANGED <<sourceVars, storeVars, faults>>

Version(p) == <<poll[p].item, poll[p].seen>>
StageJob(p) == <<Version(p), poll[p].company>>

Store(p) ==
  /\ At(p, "store")
  /\ snapshots' = snapshots \cup {Version(p)}
  /\ Go(p, "stage")
  /\ UNCHANGED <<sourceVars, watermark, staged, faults>>

\* The key of a stage job is its snapshot and company.
Stage(p) ==
  /\ At(p, "stage")
  /\ IF StageJob(p) \in staged /\ ReplayConflicts
     THEN Stop(p)
     ELSE poll' = [poll EXCEPT ![p] =
                     [poll[p] EXCEPT !.at = "fetch", !.todo = @ \ {poll[p].item},
                                     !.next = Counted(p, poll[p].seen),
                                     !.item = NoArticle, !.seen = 0]]
  /\ staged' = staged \cup {StageJob(p)}
  /\ UNCHANGED <<sourceVars, watermark, snapshots, faults>>

\* Mutant: the next poll starts just past the last date.
MarkPast(p) == poll[p].next + 1

\* Without a date, the time at which the poll ends.
Mark(p) == IF poll[p].next = NoMark THEN clock ELSE poll[p].next

\* Mutant: the watermark is saved although articles are left.
FinishAlways(p) ==
  /\ At(p, "fetch")
  /\ watermark' = IF poll[p].mode = "poll" THEN Mark(p) ELSE watermark
  /\ Stop(p)
  /\ UNCHANGED <<sourceVars, snapshots, staged, faults>>

Finish(p) ==
  /\ At(p, "fetch")
  /\ poll[p].todo = {}
  /\ watermark' = IF poll[p].mode = "poll" THEN Mark(p) ELSE watermark
  /\ Stop(p)
  /\ UNCHANGED <<sourceVars, snapshots, staged, faults>>

\* A call fails, before or after it took effect, or the host dies.
Fault(p) ==
  /\ ~At(p, "idle")
  /\ faults < FaultBudget
  /\ faults' = faults + 1
  /\ Stop(p)
  /\ \/ UNCHANGED storeVars
     \/ At(p, "store") /\ snapshots' = snapshots \cup {Version(p)} /\ UNCHANGED <<watermark, staged>>
     \/ At(p, "stage") /\ staged' = staged \cup {StageJob(p)} /\ UNCHANGED <<watermark, snapshots>>
     \/ /\ At(p, "fetch") /\ poll[p].todo = {} /\ poll[p].mode = "poll"
        /\ watermark' = Mark(p)
        /\ UNCHANGED <<snapshots, staged>>
  /\ UNCHANGED sourceVars

-----------------------------------------------------------------------------

PollStep(p) ==
  \/ List(p)
  \/ \E a \in Articles : Fetch(p, a)
  \/ Store(p)
  \/ Stage(p)
  \/ Finish(p)

Next ==
  \/ \E a \in Articles : Publish(a) \/ Update(a) \/ Withdraw(a)
  \/ \E p \in Polls, c \in Companies : ReadWatermark(p, c)
  \/ \E p \in Polls, c \in Companies, a \in Articles : Trigger(p, c, a)
  \/ \E p \in Polls : PollStep(p) \/ Fault(p)

Spec == Init /\ [][Next]_vars

-----------------------------------------------------------------------------
(* Properties *)

Versions == Articles \X (1..MaxTime)

Handler == [at : {"idle", "list", "fetch", "store", "stage"}, mode : {"poll", "article"},
            company : Companies \cup {NoCompany}, since : 0..MaxTime, todo : SUBSET Articles,
            item : Articles \cup {NoArticle}, seen : 0..MaxTime, next : 0..MaxTime]

\* Articles, stores and handlers are well formed, a handler names its item only
\* while it stores it, and no date lies in the future of the source.
TypeOK ==
  /\ visible \subseteq Articles
  /\ time \in [Articles -> 0..clock]
  /\ clock \in 1..MaxTime
  /\ watermark \in 0..clock
  /\ snapshots \subseteq Versions
  /\ staged \subseteq Versions \X Companies
  /\ poll \in [Polls -> Handler]
  /\ \A p \in Polls :
       /\ ~At(p, "idle") => poll[p].company \in Companies
       /\ poll[p].since <= clock /\ poll[p].next <= clock
       /\ IF poll[p].at \in {"store", "stage"}
          THEN poll[p].item \in poll[p].todo /\ poll[p].seen \in 1..clock
          ELSE poll[p].item = NoArticle /\ poll[p].seen = 0
  /\ \A a \in visible : time[a] > 0

Staged(a) == \E c \in Companies : <<<<a, time[a]>>, c>> \in staged

\* The watermark never passes an article that was not handled: whatever is dated
\* up to it was turned down by the quality gate or has a stage job
\* (AI-Automation-Contract.md:13, :56).
NothingLost ==
  \A a \in visible : time[a] <= watermark => a \in Thin \/ Staged(a)
=============================================================================

---------------------------- MODULE IngestProofs ----------------------------
(***************************************************************************)
(* Ingest loses no article version, for any number of polls, companies and *)
(* articles, any page size and any number of faults: if every new date is  *)
(* later than all before it, the watermark is set at the start, and a CMS  *)
(* republishes nothing.  Two articles of one date may lose one: see README.*)
(***************************************************************************)
EXTENDS Ingest, TLAPS

\* What the theorem asks of the source.
DatedLater ==
  /\ Arrival = "later"
  /\ FirstMark = 1
  /\ Kind = "cms" => ~Updates

Handled(a) == a \in Thin \/ Staged(a)

\* Saving this mark would lose nothing but what is still pending.
Safe(mark, pending) == \A a \in visible \ pending : time[a] <= mark => Handled(a)

DistinctDates == \A a, b \in Articles : time[a] > 0 /\ time[a] = time[b] => a = b

MarkSafe == watermark > 0 /\ Safe(watermark, {})

SinceSafe(h) == h.since > 0 /\ Safe(h.since, {})

NextSafe(h) == h.next > 0 /\ Safe(h.next, h.todo) /\ \A a \in h.todo : time[a] > 0

\* What is about to be staged is the current version, or dated past the page.
SeenCurrent(h) ==
  h.item # NoArticle =>
    h.seen = time[h.item] \/ (Kind = "crawl" /\ time[h.item] > h.next)

\* A CMS poll may take its mark up to any article of its page.
LaterOutside(h) ==
  Kind = "cms" =>
    \A a \in visible \ h.todo, b \in h.todo : Handled(a) \/ time[b] < time[a]

HandlerInv(h) ==
  /\ h.at = "list" => SinceSafe(h)
  /\ h.mode = "poll" /\ h.at \in {"fetch", "store", "stage"}
       => NextSafe(h) /\ SeenCurrent(h) /\ LaterOutside(h)

IInv == DistinctDates /\ MarkSafe /\ \A p \in Polls : HandlerInv(poll[p])

-----------------------------------------------------------------------------
(* Type correctness *)

\* The dates the source may give a new article.
LEMMA StampsTyped ==
  ASSUME clock \in Nat \ {0}
  PROVE  Stamps \subseteq 1..(clock + 1)
BY SourceAssumption DEF Stamps

\* The types hold at the start.
LEMMA TypeInit == Init => TypeOK
BY SourceAssumption, BoundAssumption, ArticleAssumption
   DEF Init, TypeOK, Handler, Idle, NoMark, At, Versions

\* What a handler has to respect when it moves on.
Respects(h) ==
  /\ h \in Handler
  /\ h.at # "idle" => h.company \in Companies
  /\ h.since <= clock /\ h.next <= clock
  /\ IF h.at \in {"store", "stage"}
     THEN h.item \in h.todo /\ h.seen \in 1..clock
     ELSE h.item = NoArticle /\ h.seen = 0

\* One handler moves on and writes a store.
LEMMA HandlerStep ==
  ASSUME TypeOK, UNCHANGED sourceVars, NEW p \in Polls, NEW h, Respects(h),
         poll' = [poll EXCEPT ![p] = h], watermark' \in 0..clock,
         snapshots' \subseteq Versions, staged' \subseteq Versions \X Companies
  PROVE  TypeOK'
BY DEF TypeOK, Respects, sourceVars, At

\* The handler after ReadWatermark, Trigger, List and Stage.
Reader(c) == [Idle EXCEPT !.at = "list", !.company = c, !.since = watermark]
Triggered(c, a) ==
  [Idle EXCEPT !.at = "fetch", !.mode = "article", !.company = c, !.todo = {a}]
Pager(p, page, mark) == [poll[p] EXCEPT !.at = "fetch", !.todo = page, !.next = mark]
Stager(p, mark) ==
  [poll[p] EXCEPT !.at = "fetch", !.todo = @ \ {poll[p].item}, !.next = mark,
                  !.item = NoArticle, !.seen = 0]

\* A poll that has read the watermark.
LEMMA ReaderFields ==
  ASSUME TypeOK, NEW c \in Companies
  PROVE  /\ Respects(Reader(c))
         /\ Reader(c).at = "list" /\ Reader(c).mode = "poll" /\ Reader(c).since = watermark
         /\ Reader(c).todo = {} /\ Reader(c).item = NoArticle
<1>. SUFFICES ASSUME NEW h, h = Reader(c)
         PROVE  /\ Respects(h)
                /\ h.at = "list" /\ h.mode = "poll" /\ h.since = watermark
                /\ h.todo = {} /\ h.item = NoArticle
  OBVIOUS
<1>1. h = [at |-> "list", mode |-> "poll", company |-> c, since |-> watermark, todo |-> {},
           item |-> NoArticle, seen |-> 0, next |-> 0]
  BY DEF Reader, Idle, NoMark
<1>2. watermark \in 0..MaxTime /\ watermark <= clock /\ 0 <= clock /\ 0 \in 0..MaxTime
  BY BoundAssumption DEF TypeOK
<1>3. h \in Handler
  BY <1>1, <1>2 DEF Handler
<1>4. /\ h.at = "list" /\ h.mode = "poll" /\ h.company = c /\ h.since = watermark /\ h.todo = {}
      /\ h.item = NoArticle /\ h.seen = 0 /\ h.next = 0
  BY <1>1
<1>5. Respects(h)
  BY <1>2, <1>3, <1>4 DEF Respects
<1>. QED
  BY <1>4, <1>5

\* A triggered article.
LEMMA TriggeredFields ==
  ASSUME TypeOK, NEW c \in Companies, NEW a \in Articles
  PROVE  /\ Respects(Triggered(c, a))
         /\ Triggered(c, a).at = "fetch" /\ Triggered(c, a).mode = "article"
<1>. SUFFICES ASSUME NEW h, h = Triggered(c, a)
         PROVE  /\ Respects(h)
                /\ h.at = "fetch" /\ h.mode = "article"
  OBVIOUS
<1>1. h = [at |-> "fetch", mode |-> "article", company |-> c, since |-> 0, todo |-> {a},
           item |-> NoArticle, seen |-> 0, next |-> 0]
  BY DEF Triggered, Idle, NoMark
<1>2. 0 <= clock /\ 0 \in 0..MaxTime
  BY BoundAssumption DEF TypeOK
<1>3. h \in Handler
  BY <1>1, <1>2 DEF Handler
<1>4. /\ h.at = "fetch" /\ h.mode = "article" /\ h.company = c /\ h.since = 0
      /\ h.item = NoArticle /\ h.seen = 0 /\ h.next = 0
  BY <1>1
<1>5. Respects(h)
  BY <1>2, <1>3, <1>4 DEF Respects
<1>. QED
  BY <1>4, <1>5

\* A poll that has listed its page.
LEMMA PagerFields ==
  ASSUME TypeOK, NEW p \in Polls, At(p, "list"), NEW page \in SUBSET visible,
         NEW mark \in 0..MaxTime, mark <= clock
  PROVE  /\ Respects(Pager(p, page, mark))
         /\ Pager(p, page, mark).at = "fetch" /\ Pager(p, page, mark).mode = poll[p].mode
         /\ Pager(p, page, mark).todo = page /\ Pager(p, page, mark).next = mark
         /\ Pager(p, page, mark).item = NoArticle
<1>. SUFFICES ASSUME NEW h, h = Pager(p, page, mark)
         PROVE  /\ Respects(h)
                /\ h.at = "fetch" /\ h.mode = poll[p].mode
                /\ h.todo = page /\ h.next = mark
                /\ h.item = NoArticle
  OBVIOUS
<1>1. /\ poll[p] \in Handler /\ page \in SUBSET Articles /\ poll[p].company \in Companies
      /\ poll[p].since <= clock /\ poll[p].item = NoArticle /\ poll[p].seen = 0
  BY DEF TypeOK, At
<1>2. h = [at |-> "fetch", mode |-> poll[p].mode, company |-> poll[p].company,
           since |-> poll[p].since, todo |-> page, item |-> poll[p].item,
           seen |-> poll[p].seen, next |-> mark]
  BY <1>1 DEF Pager, Handler
<1>3. h \in Handler
  BY <1>1, <1>2 DEF Handler
<1>4. /\ h.at = "fetch" /\ h.mode = poll[p].mode /\ h.company = poll[p].company
      /\ h.since = poll[p].since /\ h.todo = page
      /\ h.item = poll[p].item /\ h.seen = poll[p].seen /\ h.next = mark
  BY <1>2
<1>5. Respects(h)
  BY <1>1, <1>3, <1>4 DEF Respects
<1>. QED
  BY <1>1, <1>4, <1>5

\* A poll that has staged its item.
LEMMA StagerFields ==
  ASSUME TypeOK, NEW p \in Polls, At(p, "stage"), NEW mark \in 0..MaxTime, mark <= clock
  PROVE  /\ Respects(Stager(p, mark))
         /\ Stager(p, mark).at = "fetch" /\ Stager(p, mark).mode = poll[p].mode
         /\ Stager(p, mark).todo = poll[p].todo \ {poll[p].item}
         /\ Stager(p, mark).next = mark /\ Stager(p, mark).item = NoArticle
<1>. SUFFICES ASSUME NEW h, h = Stager(p, mark)
         PROVE  /\ Respects(h)
                /\ h.at = "fetch" /\ h.mode = poll[p].mode
                /\ h.todo = poll[p].todo \ {poll[p].item}
                /\ h.next = mark /\ h.item = NoArticle
  OBVIOUS
<1>1. /\ poll[p] \in Handler /\ poll[p].company \in Companies /\ poll[p].since <= clock
      /\ 0 \in 0..MaxTime
  BY BoundAssumption DEF TypeOK, At
<1>2. h = [at |-> "fetch", mode |-> poll[p].mode, company |-> poll[p].company,
           since |-> poll[p].since, todo |-> poll[p].todo \ {poll[p].item},
           item |-> NoArticle, seen |-> 0, next |-> mark]
  BY <1>1 DEF Stager, Handler
<1>3. h \in Handler
  BY <1>1, <1>2 DEF Handler
<1>4. /\ h.at = "fetch" /\ h.mode = poll[p].mode /\ h.company = poll[p].company
      /\ h.since = poll[p].since /\ h.todo = poll[p].todo \ {poll[p].item}
      /\ h.item = NoArticle /\ h.seen = 0 /\ h.next = mark
  BY <1>2
<1>5. Respects(h)
  BY <1>1, <1>3, <1>4 DEF Respects
<1>. QED
  BY <1>4, <1>5

\* Every step keeps the types.
LEMMA TypeNext == TypeOK /\ [Next]_vars => TypeOK'
<1>. SUFFICES ASSUME TypeOK, [Next]_vars PROVE TypeOK'
  OBVIOUS
<1>. USE BoundAssumption, ArticleAssumption DEF Handler, Idle, NoMark, At
<1>1. ASSUME NEW a \in Articles, Publish(a) PROVE TypeOK'
  <2>1. PICK t \in Stamps : t <= MaxTime /\ time' = [time EXCEPT ![a] = t] /\ clock' = Later(clock, t)
    BY <1>1 DEF Publish
  <2>2. t \in 1..(clock + 1)
    BY <2>1, StampsTyped DEF TypeOK
  <2>3. clock' \in 1..MaxTime /\ clock <= clock' /\ t <= clock'
    BY <2>1, <2>2 DEF TypeOK, Later
  <2>. QED
    BY <1>1, <2>1, <2>2, <2>3 DEF Publish, storeVars, TypeOK
<1>2. ASSUME NEW a \in Articles, Update(a) PROVE TypeOK'
  BY <1>2 DEF Update, storeVars, TypeOK
<1>3. ASSUME NEW a \in Articles, Withdraw(a) PROVE TypeOK'
  BY <1>3 DEF Withdraw, storeVars, TypeOK
<1>4. ASSUME NEW p \in Polls, NEW c \in Companies, ReadWatermark(p, c) PROVE TypeOK'
  BY <1>4, ReaderFields, HandlerStep DEF ReadWatermark, Reader, storeVars, TypeOK
<1>5. ASSUME NEW p \in Polls, NEW c \in Companies, NEW a \in Articles, Trigger(p, c, a) PROVE TypeOK'
  BY <1>5, TriggeredFields, HandlerStep DEF Trigger, Triggered, storeVars, TypeOK
<1>6. ASSUME NEW p \in Polls, List(p) PROVE TypeOK'
  <2>1. PICK page \in SUBSET visible, mark \in 0..MaxTime :
          /\ Listed(page, poll[p].since, mark)
          /\ poll' = [poll EXCEPT ![p].at = "fetch", ![p].todo = page, ![p].next = mark]
    BY <1>6 DEF List
  <2>2. mark <= clock
    BY <2>1 DEF Listed, TypeOK
  <2>3. Respects(Pager(p, page, mark))
    BY <1>6, <2>2, PagerFields DEF List
  <2>4. poll' = [poll EXCEPT ![p] = Pager(p, page, mark)]
    BY <2>1 DEF Pager
  <2>. QED
    BY <1>6, <2>3, <2>4, HandlerStep DEF List, storeVars, TypeOK
<1>7. ASSUME NEW p \in Polls, NEW a \in Articles, Fetch(p, a) PROVE TypeOK'
  <2>1. CASE Stop(p)
    BY <1>7, <2>1 DEF Fetch, Stop, sourceVars, storeVars, TypeOK
  <2>2. CASE /\ a \in visible
             /\ poll' = [poll EXCEPT ![p].todo = @ \ {a}, ![p].next = Counted(p, time[a])]
    <3>1. Counted(p, time[a]) \in 0..MaxTime /\ Counted(p, time[a]) <= clock
      BY DEF Counted, Later, TypeOK
    <3>. QED
      BY <1>7, <2>2, <3>1 DEF Fetch, sourceVars, storeVars, TypeOK
  <2>3. CASE /\ a \in visible
             /\ poll' = [poll EXCEPT ![p].at = "store", ![p].item = a, ![p].seen = time[a]]
    BY <1>7, <2>3 DEF Fetch, sourceVars, storeVars, TypeOK
  <2>. QED
    BY <1>7, <2>1, <2>2, <2>3 DEF Fetch
<1>8. ASSUME NEW p \in Polls, Store(p) PROVE TypeOK'
  BY <1>8 DEF Store, Go, Version, Versions, sourceVars, TypeOK
<1>9. ASSUME NEW p \in Polls, Stage(p) PROVE TypeOK'
  <2>1. staged' \subseteq Versions \X Companies
    BY <1>9 DEF Stage, StageJob, Version, Versions, TypeOK
  <2>2. Counted(p, poll[p].seen) \in 0..MaxTime /\ Counted(p, poll[p].seen) <= clock
    BY <1>9 DEF Stage, Counted, Later, TypeOK
  <2>3. CASE Stop(p)
    BY <1>9, <2>1, <2>3 DEF Stage, Stop, sourceVars, TypeOK
  <2>4. CASE poll' = [poll EXCEPT ![p] = Stager(p, Counted(p, poll[p].seen))]
    <3>1. Respects(Stager(p, Counted(p, poll[p].seen)))
      BY <1>9, <2>2, StagerFields DEF Stage
    <3>. QED
      BY <1>9, <2>1, <2>4, <3>1, HandlerStep DEF Stage, TypeOK
  <2>. HIDE DEF Handler, Idle, NoMark, At
  <2>. QED
    BY <1>9, <2>3, <2>4 DEF Stage, Stager
<1>10. ASSUME NEW p \in Polls, Finish(p) PROVE TypeOK'
  BY <1>10 DEF Finish, Stop, Mark, sourceVars, TypeOK
<1>11. ASSUME NEW p \in Polls, Fault(p) PROVE TypeOK'
  <2>1. staged' \subseteq Versions \X Companies
    BY <1>11 DEF Fault, StageJob, Version, Versions, storeVars, TypeOK
  <2>2. snapshots' \subseteq Versions
    BY <1>11 DEF Fault, Version, Versions, storeVars, TypeOK
  <2>3. watermark' \in 0..clock
    BY <1>11 DEF Fault, Mark, storeVars, TypeOK
  <2>. QED
    BY <1>11, <2>1, <2>2, <2>3 DEF Fault, Stop, sourceVars, TypeOK
<1>12. CASE UNCHANGED vars
  BY <1>12 DEF vars, sourceVars, storeVars, TypeOK
<1>. QED
  BY <1>1, <1>2, <1>3, <1>4, <1>5, <1>6, <1>7, <1>8, <1>9, <1>10, <1>11, <1>12
     DEF Next, PollStep

\* Articles, stores and handlers stay well formed.
THEOREM TypeCorrect == Spec => []TypeOK
BY TypeInit, TypeNext, PTL DEF Spec

-----------------------------------------------------------------------------
(* No loss *)

\* What any step does to the articles and the stage jobs: a version appears
\* only after the clock, and a stage job stays.
Drift ==
  /\ staged \subseteq staged'
  /\ \A a \in visible' : (a \in visible /\ time'[a] = time[a]) \/ time'[a] > clock
  /\ \A a \in Articles : time'[a] = time[a] \/ time'[a] > clock
  /\ Kind = "cms" => \A a \in Articles : time[a] > 0 => time'[a] = time[a]

\* A safe mark stays safe.
LEMMA SafeStays ==
  ASSUME TypeOK, TypeOK', Drift, NEW mark \in Nat, mark <= clock, NEW pending,
         Safe(mark, pending)
  PROVE  Safe(mark, pending)'
<1>. SUFFICES ASSUME NEW a \in visible' \ pending, time'[a] <= mark PROVE Handled(a)'
  BY DEF Safe
<1>1. clock \in Nat /\ time'[a] \in Nat
  BY DEF TypeOK
<1>2. ~(time'[a] > clock)
  BY <1>1
<1>3. a \in visible /\ time'[a] = time[a]
  BY <1>2 DEF Drift
<1>4. Handled(a)
  BY <1>3 DEF Safe
<1>. QED
  BY <1>3, <1>4 DEF Handled, Staged, Drift

\* What a handler holds stays true while it waits.
LEMMA HandlerWaits ==
  ASSUME TypeOK, TypeOK', Drift, NEW h, Respects(h), HandlerInv(h)
  PROVE  HandlerInv(h)'
<1>. DEFINE polling == h.mode = "poll" /\ h.at \in {"fetch", "store", "stage"}
<1>1. /\ h.since \in Nat /\ h.next \in Nat /\ h.since <= clock /\ h.next <= clock
      /\ h.todo \subseteq Articles /\ h.item \in Articles \cup {NoArticle} /\ clock \in Nat
  BY DEF Respects, Handler, TypeOK
<1>2. \A a \in Articles : time[a] \in Nat /\ time'[a] \in Nat /\ time[a] <= clock
  BY DEF TypeOK
<1>3. ASSUME h.at = "list" PROVE SinceSafe(h)'
  BY <1>1, <1>3, SafeStays DEF HandlerInv, SinceSafe
<1>4. ASSUME polling PROVE NextSafe(h)'
  <2>1. Safe(h.next, h.todo)'
    BY <1>1, <1>4, SafeStays DEF HandlerInv, NextSafe
  <2>2. ASSUME NEW a \in h.todo PROVE time'[a] > 0
    <3>1. time[a] > 0 /\ a \in Articles
      BY <1>1, <1>4, <2>2 DEF HandlerInv, NextSafe
    <3>2. time'[a] = time[a] \/ time'[a] > clock
      BY <3>1 DEF Drift
    <3>. QED
      BY <1>1, <1>2, <3>1, <3>2
  <2>. QED
    BY <1>4, <2>1, <2>2 DEF HandlerInv, NextSafe
<1>5. ASSUME polling PROVE SeenCurrent(h)'
  <2>. SUFFICES ASSUME h.item # NoArticle
                PROVE  h.seen = time'[h.item] \/ (Kind = "crawl" /\ time'[h.item] > h.next)
    BY DEF SeenCurrent
  <2>1. h.seen = time[h.item] \/ (Kind = "crawl" /\ time[h.item] > h.next)
    BY <1>5 DEF HandlerInv, SeenCurrent
  <2>2. h.item \in Articles /\ h.item \in h.todo
    BY <1>1 DEF Respects
  <2>3. time[h.item] > 0
    BY <1>5, <2>2 DEF HandlerInv, NextSafe
  <2>4. CASE time'[h.item] = time[h.item]
    BY <2>1, <2>4
  <2>5. CASE time'[h.item] # time[h.item]
    <3>1. time'[h.item] > clock
      BY <2>2, <2>5 DEF Drift
    <3>2. Kind = "crawl"
      BY <2>2, <2>3, <2>5, SourceAssumption DEF Drift
    <3>. QED
      BY <1>1, <1>2, <2>2, <3>1, <3>2
  <2>. QED
    BY <2>4, <2>5
<1>6. ASSUME polling PROVE LaterOutside(h)'
  <2>. SUFFICES ASSUME Kind = "cms", NEW a \in visible' \ h.todo, NEW b \in h.todo
                PROVE  Handled(a)' \/ time'[b] < time'[a]
    BY DEF LaterOutside
  <2>1. a \in Articles /\ b \in Articles
    BY <1>1 DEF TypeOK
  <2>2. time'[b] = time[b]
    BY <1>6, <2>1 DEF HandlerInv, NextSafe, Drift
  <2>3. CASE time'[a] > clock
    BY <1>1, <1>2, <2>1, <2>2, <2>3
  <2>4. CASE a \in visible /\ time'[a] = time[a]
    <3>1. Handled(a) \/ time[b] < time[a]
      BY <1>6, <2>4 DEF HandlerInv, LaterOutside
    <3>2. Handled(a) => Handled(a)'
      BY <2>4 DEF Handled, Staged, Drift
    <3>. QED
      BY <2>2, <2>4, <3>1, <3>2
  <2>. QED
    BY <2>3, <2>4 DEF Drift
<1>. QED
  BY <1>3, <1>4, <1>5, <1>6 DEF HandlerInv

\* Every step drifts, and keeps the dates apart.
LEMMA DriftStep == TypeOK /\ DatedLater /\ [Next]_vars => Drift
<1>. SUFFICES ASSUME TypeOK, DatedLater, [Next]_vars PROVE Drift
  OBVIOUS
<1>1. clock \in Nat /\ visible \subseteq Articles /\ \A a \in Articles : time[a] \in Nat
  BY DEF TypeOK
<1>2. ASSUME NEW a \in Articles, Publish(a) PROVE Drift
  <2>1. time[a] = 0 /\ time' = [time EXCEPT ![a] = clock + 1]
    BY <1>2 DEF Publish, Stamps, DatedLater
  <2>2. visible' = visible \cup {a} /\ staged' = staged
    BY <1>2 DEF Publish, storeVars
  <2>3. \A b \in Articles : time'[b] = IF b = a THEN clock + 1 ELSE time[b]
    BY <2>1 DEF TypeOK
  <2>. QED
    BY <1>1, <2>1, <2>2, <2>3 DEF Drift
<1>3. ASSUME NEW a \in Articles, Update(a) PROVE Drift
  <2>1. /\ Kind # "cms" /\ time' = [time EXCEPT ![a] = clock + 1]
        /\ visible' = visible /\ staged' = staged
    BY <1>3 DEF Update, DatedLater, storeVars
  <2>2. \A b \in Articles : time'[b] = IF b = a THEN clock + 1 ELSE time[b]
    BY <2>1 DEF TypeOK
  <2>. QED
    BY <1>1, <2>1, <2>2 DEF Drift
<1>4. ASSUME NEW a \in Articles, Withdraw(a) PROVE Drift
  BY <1>4 DEF Withdraw, storeVars, Drift
<1>5. ASSUME UNCHANGED sourceVars, staged \subseteq staged' PROVE Drift
  BY <1>5 DEF sourceVars, Drift
<1>6. ASSUME NEW p \in Polls, PollStep(p) \/ Fault(p) PROVE Drift
  <2>1. UNCHANGED sourceVars
    BY <1>6 DEF PollStep, List, Fetch, Store, Stage, Finish, Fault
  <2>2. staged \subseteq staged'
    BY <1>6 DEF PollStep, List, Fetch, Store, Stage, Finish, Fault, storeVars
  <2>. QED
    BY <1>5, <2>1, <2>2
<1>7. ASSUME NEW p \in Polls, NEW c \in Companies, ReadWatermark(p, c) PROVE Drift
  BY <1>5, <1>7 DEF ReadWatermark, storeVars
<1>8. ASSUME NEW p \in Polls, NEW c \in Companies, NEW a \in Articles, Trigger(p, c, a) PROVE Drift
  BY <1>5, <1>8 DEF Trigger, storeVars
<1>9. CASE UNCHANGED vars
  BY <1>5, <1>9 DEF vars, storeVars
<1>. QED
  BY <1>2, <1>3, <1>4, <1>6, <1>7, <1>8, <1>9 DEF Next

\* A new date is later than all others.
LEMMA DatesApart ==
  ASSUME TypeOK, DistinctDates, NEW a \in Articles, time' = [time EXCEPT ![a] = clock + 1]
  PROVE  DistinctDates'
<1>1. clock \in Nat /\ \A b \in Articles : time[b] \in Nat /\ time[b] <= clock
  BY DEF TypeOK
<1>2. \A b \in Articles : time'[b] = IF b = a THEN clock + 1 ELSE time[b]
  BY DEF TypeOK
<1>. QED
  BY <1>1, <1>2 DEF DistinctDates

\* A step of one handler, which may save a safe mark.
LEMMA HandlerMoves ==
  ASSUME TypeOK, TypeOK', IInv, Drift, UNCHANGED sourceVars,
         NEW p \in Polls, NEW h, poll' = [poll EXCEPT ![p] = h], HandlerInv(h)',
         NEW mark, watermark' = mark, mark > 0, mark \in 0..clock, Safe(mark, {})
  PROVE  IInv'
<1>1. DistinctDates'
  BY DEF IInv, DistinctDates, sourceVars
<1>2. MarkSafe'
  <2>1. mark \in Nat /\ mark <= clock
    BY DEF TypeOK
  <2>. QED
    BY <2>1, SafeStays DEF MarkSafe
<1>3. ASSUME NEW q \in Polls PROVE HandlerInv(poll[q])'
  <2>1. CASE q = p
    <3>1. poll'[q] = h
      BY <2>1 DEF TypeOK
    <3>. QED
      BY <3>1 DEF HandlerInv, SinceSafe, NextSafe, SeenCurrent, LaterOutside
  <2>2. CASE q # p
    <3>1. poll'[q] = poll[q]
      BY <2>2 DEF TypeOK
    <3>2. Respects(poll[q]) /\ HandlerInv(poll[q])
      BY DEF IInv, TypeOK, Respects, At
    <3>. SUFFICES ASSUME NEW g, g = poll[q] PROVE HandlerInv(g)'
      BY <3>1 DEF HandlerInv, SinceSafe, NextSafe, SeenCurrent, LaterOutside
    <3>. QED
      BY <3>2, HandlerWaits
  <2>. QED
    BY <2>1, <2>2
<1>. QED
  BY <1>1, <1>2, <1>3 DEF IInv

\* A step of the source, which leaves the handlers alone.
LEMMA SourceMoves ==
  ASSUME TypeOK, TypeOK', IInv, Drift, DistinctDates', UNCHANGED <<poll, watermark>>
  PROVE  IInv'
<1>1. MarkSafe'
  <2>. SUFFICES ASSUME NEW mark, mark = watermark PROVE mark > 0 /\ Safe(mark, {})'
    BY DEF MarkSafe, Safe
  <2>1. mark \in Nat /\ mark <= clock /\ mark > 0 /\ Safe(mark, {})
    BY DEF TypeOK, IInv, MarkSafe
  <2>. QED
    BY <2>1, SafeStays
<1>2. ASSUME NEW q \in Polls PROVE HandlerInv(poll[q])'
  <2>1. Respects(poll[q]) /\ HandlerInv(poll[q])
    BY DEF IInv, TypeOK, Respects, At
  <2>. SUFFICES ASSUME NEW g, g = poll[q] PROVE HandlerInv(g)'
    BY DEF HandlerInv, SinceSafe, NextSafe, SeenCurrent, LaterOutside
  <2>. QED
    BY <2>1, HandlerWaits
<1>. QED
  BY <1>1, <1>2 DEF IInv

\* The page just listed may be saved once it is handled.
LEMMA ListSafe ==
  ASSUME TypeOK, IInv, NEW p \in Polls, At(p, "list"), NEW page \in SUBSET visible,
         NEW mark \in 0..MaxTime, mark <= clock,
         IsPage(page, poll[p].since), Listed(page, poll[p].since, mark)
  PROVE  HandlerInv(Pager(p, page, mark))
<1>. DEFINE since == poll[p].since
<1>1. since \in Nat /\ since > 0 /\ Safe(since, {})
  BY DEF At, IInv, HandlerInv, SinceSafe, TypeOK, Handler
<1>2. \A a \in visible : a \in Articles /\ a \in Nat /\ time[a] \in Nat
  BY ArticleAssumption DEF TypeOK
<1>. HIDE DEF since
<1>3. \A a \in page : time[a] > since
  BY DEF IsPage, since
<1>4. ASSUME NEW a \in visible \ page, NEW b \in page PROVE Handled(a) \/ time[b] < time[a]
  <2>1. CASE time[a] <= since
    BY <1>1, <2>1 DEF Safe
  <2>2. CASE time[a] > since
    <3>1. Before(b, a)
      BY <2>2 DEF IsPage, since
    <3>2. time[b] = time[a] => b = a
      BY <1>1, <1>2, <2>2 DEF IInv, DistinctDates
    <3>. QED
      BY <1>2, <3>1, <3>2 DEF Before
  <2>. QED
    BY <1>1, <1>2, <2>1, <2>2
<1>5. mark > 0 /\ Safe(mark, page)
  <2>1. CASE mark = since
    BY <1>1, <2>1 DEF Safe
  <2>2. CASE \E a \in page : mark = time[a]
    <3>1. PICK b \in page : mark = time[b]
      BY <2>2
    <3>2. \A a \in visible \ page : time[a] <= mark => Handled(a)
      BY <1>2, <1>4, <3>1
    <3>. QED
      BY <1>1, <1>2, <1>3, <3>1, <3>2 DEF Safe
  <2>. QED
    BY <2>1, <2>2 DEF Listed, since
<1>. SUFFICES ASSUME NEW h, h = Pager(p, page, mark) PROVE HandlerInv(h)
  OBVIOUS
<1>6. h.at = "fetch" /\ h.todo = page /\ h.next = mark /\ h.item = NoArticle
  BY PagerFields
<1>7. NextSafe(h)
  BY <1>1, <1>2, <1>3, <1>5, <1>6 DEF NextSafe
<1>8. SeenCurrent(h)
  BY <1>6 DEF SeenCurrent
<1>9. LaterOutside(h)
  BY <1>4, <1>6 DEF LaterOutside
<1>. QED
  BY <1>6, <1>7, <1>8, <1>9 DEF HandlerInv

\* What a poll holds, for the articles shown, their dates and those done.
PageSafe(shown, dates, done, next, todo) ==
  /\ next > 0
  /\ \A x \in shown \ todo : dates[x] <= next => x \in done
  /\ Kind = "cms" => \A x \in shown \ todo, b \in todo : x \in done \/ dates[b] < dates[x]

Grown(next, seen) == IF Kind = "cms" THEN Later(next, seen) ELSE next

\* An article that is handled leaves the page; a CMS poll moves its mark up to it.
LEMMA PageShrinks ==
  ASSUME NEW shown \in SUBSET Articles, NEW dates \in [Articles -> Nat], NEW done,
         NEW next \in Nat, NEW todo \in SUBSET Articles, NEW a \in todo,
         PageSafe(shown, dates, done, next, todo),
         a \in done \/ (Kind = "crawl" /\ dates[a] > next)
  PROVE  PageSafe(shown, dates, done, Grown(next, dates[a]), todo \ {a})
<1>. DEFINE mark == Grown(next, dates[a])
<1>. USE DEF PageSafe, Grown
<1>1. dates[a] \in Nat /\ \A x \in shown : dates[x] \in Nat
  OBVIOUS
<1>2. mark > 0
  BY <1>1 DEF Later
<1>3. Kind = "cms" => a \in done /\ Kind # "crawl"
  OBVIOUS
<1>4. ASSUME NEW x \in shown \ (todo \ {a}), dates[x] <= mark PROVE x \in done
  <2>1. CASE x = a
    BY <1>1, <1>3, <1>4, <2>1, SourceAssumption
  <2>2. CASE x # a /\ dates[x] <= next
    BY <2>2
  <2>3. CASE x # a /\ ~(dates[x] <= next)
    <3>1. Kind = "cms" /\ dates[x] <= dates[a]
      BY <1>1, <1>4, <2>3 DEF Later
    <3>2. x \in done \/ dates[a] < dates[x]
      BY <2>3, <3>1
    <3>. QED
      BY <1>1, <3>1, <3>2
  <2>. QED
    BY <2>1, <2>2, <2>3
<1>. QED
  BY <1>2, <1>3, <1>4

\* A handler that has ended holds nothing.
LEMMA IdleHolds == HandlerInv(Idle)'
BY DEF HandlerInv, Idle

\* The page of a poll that is fetching or staging.
LEMMA PageHolds ==
  ASSUME TypeOK, IInv, NEW p \in Polls, poll[p].mode = "poll",
         poll[p].at \in {"fetch", "store", "stage"}
  PROVE  /\ poll[p].next \in Nat /\ poll[p].todo \subseteq Articles
         /\ poll[p].next > 0 /\ poll[p].next <= clock
         /\ Safe(poll[p].next, poll[p].todo)
         /\ \A a \in poll[p].todo : time[a] > 0
         /\ SeenCurrent(poll[p]) /\ LaterOutside(poll[p])
BY DEF TypeOK, Handler, IInv, HandlerInv, NextSafe

\* The quality gate skips an article.
LEMMA SkipSafe ==
  ASSUME TypeOK, TypeOK', IInv, NEW p \in Polls, At(p, "fetch"),
         NEW a \in poll[p].todo \cap Thin, NEW h,
         h = [poll[p] EXCEPT !.todo = @ \ {a}, !.next = Counted(p, time[a])]
  PROVE  HandlerInv(h)
<1>1. poll[p] \in Handler /\ poll[p].item = NoArticle
  BY DEF TypeOK, At
<1>2. /\ h.at = "fetch" /\ h.mode = poll[p].mode /\ h.item = NoArticle
      /\ h.todo = poll[p].todo \ {a} /\ h.next = Counted(p, time[a])
  BY <1>1 DEF Handler, At
<1>3. CASE poll[p].mode = "poll"
  <2>1. /\ poll[p].next \in Nat /\ poll[p].todo \subseteq Articles /\ poll[p].next > 0
        /\ Safe(poll[p].next, poll[p].todo) /\ LaterOutside(poll[p])
        /\ \A b \in poll[p].todo : time[b] > 0
    BY <1>3, PageHolds DEF At
  <2>2. Handled(a) /\ a \in poll[p].todo /\ time[a] \in Nat
    BY <2>1 DEF Handled, TypeOK
  <2>3. h.next \in Nat /\ h.next = IF Kind = "cms" THEN Later(poll[p].next, time[a]) ELSE poll[p].next
    BY <1>2, <2>1, <2>2 DEF Counted, Later
  <2>. DEFINE done == {x \in Articles : Handled(x)}
  <2>4. visible \subseteq Articles /\ time \in [Articles -> Nat]
    BY DEF TypeOK
  <2>5. PageSafe(visible, time, done, poll[p].next, poll[p].todo) /\ a \in done
    BY <2>1, <2>2, <2>4 DEF Safe, LaterOutside, PageSafe
  <2>. HIDE DEF done
  <2>6. PageSafe(visible, time, done, h.next, h.todo)
    BY <1>2, <2>1, <2>3, <2>4, <2>5, PageShrinks DEF Grown
  <2>7. NextSafe(h) /\ LaterOutside(h)
    BY <1>2, <2>1, <2>6 DEF NextSafe, LaterOutside, Safe, PageSafe, done
  <2>. QED
    BY <1>2, <2>7 DEF HandlerInv, SeenCurrent
<1>4. CASE poll[p].mode # "poll"
  BY <1>2, <1>4 DEF HandlerInv
<1>. QED
  BY <1>3, <1>4

\* An article is fetched: what was seen is its current version.
LEMMA FetchSafe ==
  ASSUME TypeOK, IInv, NEW p \in Polls, At(p, "fetch"), NEW a \in poll[p].todo, NEW h,
         h = [poll[p] EXCEPT !.at = "store", !.item = a, !.seen = time[a]]
  PROVE  HandlerInv(h)
<1>1. poll[p] \in Handler
  BY DEF TypeOK
<1>2. /\ h.at = "store" /\ h.mode = poll[p].mode /\ h.item = a /\ h.seen = time[a]
      /\ h.todo = poll[p].todo /\ h.next = poll[p].next
  BY <1>1 DEF Handler
<1>. QED
  BY <1>2 DEF HandlerInv, NextSafe, SeenCurrent, LaterOutside, IInv, At

\* The snapshot is stored.
LEMMA StoreSafe ==
  ASSUME TypeOK, IInv, NEW p \in Polls, At(p, "store"), NEW h,
         h = [poll[p] EXCEPT !.at = "stage"]
  PROVE  HandlerInv(h)
<1>1. poll[p] \in Handler
  BY DEF TypeOK
<1>2. /\ h.at = "stage" /\ h.mode = poll[p].mode /\ h.item = poll[p].item /\ h.seen = poll[p].seen
      /\ h.todo = poll[p].todo /\ h.next = poll[p].next
  BY <1>1 DEF Handler
<1>. QED
  BY <1>2 DEF HandlerInv, NextSafe, SeenCurrent, LaterOutside, IInv, At

\* What is staged is handled from now on.
LEMMA StageSafe ==
  ASSUME TypeOK, TypeOK', IInv, Drift, UNCHANGED sourceVars,
         NEW p \in Polls, At(p, "stage"), StageJob(p) \in staged',
         NEW h, h = Stager(p, Counted(p, poll[p].seen))
  PROVE  HandlerInv(h)'
<1>. DEFINE mark == Counted(p, poll[p].seen)
<1>1. /\ poll[p] \in Handler /\ poll[p].item \in poll[p].todo
      /\ poll[p].seen \in Nat /\ poll[p].seen <= clock
      /\ poll[p].next \in Nat /\ poll[p].next <= clock
      /\ poll[p].company \in Companies /\ poll[p].todo \subseteq Articles
  BY DEF TypeOK, At, Handler
<1>2. poll[p].item \in Articles /\ poll[p].item # NoArticle
  BY <1>1, ArticleAssumption
<1>3. mark = IF Kind = "cms" THEN Later(poll[p].next, poll[p].seen) ELSE poll[p].next
  BY DEF Counted
<1>. HIDE DEF mark
<1>4. mark \in 0..MaxTime /\ mark <= clock
  <2>1. clock \in Nat /\ clock <= MaxTime /\ MaxTime \in Nat
    BY BoundAssumption DEF TypeOK
  <2>. QED
    BY <1>1, <1>3, <2>1 DEF Later
<1>5. /\ h.at = "fetch" /\ h.mode = poll[p].mode /\ h.todo = poll[p].todo \ {poll[p].item}
      /\ h.next = mark /\ h.item = NoArticle
  BY <1>4, StagerFields DEF mark
<1>6. CASE poll[p].mode = "poll"
  <2>1. /\ poll[p].next > 0 /\ Safe(poll[p].next, poll[p].todo) /\ SeenCurrent(poll[p])
        /\ LaterOutside(poll[p]) /\ \A b \in poll[p].todo : time[b] > 0
    BY <1>6, PageHolds DEF At
  <2>2. \/ poll[p].seen = time[poll[p].item]
        \/ Kind = "crawl" /\ time[poll[p].item] > poll[p].next
    BY <1>2, <2>1 DEF SeenCurrent
  <2>3. time' = time /\ visible' = visible
    BY DEF sourceVars
  <2>4. visible \subseteq Articles /\ time \in [Articles -> Nat]
    BY DEF TypeOK
  <2>. DEFINE done == {x \in Articles : Handled(x)'}
  <2>5. poll[p].seen = time[poll[p].item] => poll[p].item \in done
    BY <1>1, <1>2, <2>3 DEF StageJob, Version, Handled, Staged
  <2>6. \A x \in Articles : Handled(x) => x \in done
    BY <2>3 DEF Handled, Staged, Drift
  <2>7. PageSafe(visible, time, done, poll[p].next, poll[p].todo)
    BY <2>1, <2>4, <2>6 DEF Safe, LaterOutside, PageSafe
  <2>. HIDE DEF done
  <2>8. mark = Grown(poll[p].next, time[poll[p].item])
    BY <1>3, <2>2, SourceAssumption DEF Grown
  <2>9. PageSafe(visible, time, done, h.next, h.todo)
    <3>1. \/ poll[p].item \in done
          \/ Kind = "crawl" /\ time[poll[p].item] > poll[p].next
      BY <2>2, <2>5
    <3>2. PageSafe(visible, time, done, Grown(poll[p].next, time[poll[p].item]),
                   poll[p].todo \ {poll[p].item})
      BY <1>1, <2>4, <2>7, <3>1, PageShrinks
    <3>. QED
      BY <1>5, <2>8, <3>2
  <2>10. NextSafe(h)' /\ LaterOutside(h)'
    BY <1>5, <2>1, <2>3, <2>9 DEF NextSafe, LaterOutside, Safe, PageSafe, done
  <2>. QED
    BY <1>5, <2>10 DEF HandlerInv, SeenCurrent
<1>7. CASE poll[p].mode # "poll"
  BY <1>5, <1>7 DEF HandlerInv
<1>. QED
  BY <1>6, <1>7

\* Handlers only gain stage jobs while the source rests.
LEMMA HandlerUnmoved ==
  ASSUME UNCHANGED sourceVars, Drift, NEW h, HandlerInv(h)
  PROVE  HandlerInv(h)'
<1>1. visible' = visible /\ time' = time
  BY DEF sourceVars
<1>2. \A a : Handled(a) => Handled(a)'
  BY <1>1 DEF Handled, Staged, Drift
<1>. QED
  BY <1>1, <1>2 DEF HandlerInv, SinceSafe, NextSafe, SeenCurrent, LaterOutside, Safe

\* The invariant holds at the start.
LEMMA InvInit == DatedLater /\ Init => IInv
<1>. SUFFICES ASSUME DatedLater, Init PROVE IInv
  OBVIOUS
<1>1. DistinctDates
  BY DEF Init, DistinctDates
<1>2. MarkSafe
  BY DEF Init, DatedLater, MarkSafe, Safe
<1>3. \A p \in Polls : HandlerInv(poll[p])
  BY DEF Init, Idle, HandlerInv
<1>. QED
  BY <1>1, <1>2, <1>3 DEF IInv

\* Every step keeps the invariant.
LEMMA InvNext == TypeOK /\ TypeOK' /\ DatedLater /\ IInv /\ [Next]_vars => IInv'
<1>. SUFFICES ASSUME TypeOK, TypeOK', DatedLater, IInv, [Next]_vars PROVE IInv'
  OBVIOUS
<1>1. Drift
  BY DriftStep
<1>2. watermark > 0 /\ watermark \in 0..clock /\ Safe(watermark, {})
  BY DEF IInv, MarkSafe, TypeOK
<1>3. ASSUME NEW a \in Articles, Publish(a) PROVE IInv'
  <2>1. time' = [time EXCEPT ![a] = clock + 1] /\ UNCHANGED <<poll, watermark>>
    BY <1>3 DEF Publish, Stamps, DatedLater, storeVars
  <2>. QED
    BY <1>1, <2>1, DatesApart, SourceMoves DEF IInv
<1>4. ASSUME NEW a \in Articles, Update(a) PROVE IInv'
  <2>1. time' = [time EXCEPT ![a] = clock + 1] /\ UNCHANGED <<poll, watermark>>
    BY <1>4 DEF Update, storeVars
  <2>. QED
    BY <1>1, <2>1, DatesApart, SourceMoves DEF IInv
<1>5. ASSUME NEW a \in Articles, Withdraw(a) PROVE IInv'
  <2>1. UNCHANGED <<time, poll, watermark>>
    BY <1>5 DEF Withdraw, storeVars
  <2>2. DistinctDates'
    BY <2>1 DEF IInv, DistinctDates
  <2>. QED
    BY <1>1, <2>1, <2>2, SourceMoves
<1>6. ASSUME NEW p \in Polls, NEW h, UNCHANGED sourceVars, poll' = [poll EXCEPT ![p] = h],
             HandlerInv(h)', watermark' = watermark
      PROVE  IInv'
  BY <1>1, <1>2, <1>6, HandlerMoves
<1>7. ASSUME NEW p \in Polls, UNCHANGED sourceVars, Stop(p), watermark' = watermark PROVE IInv'
  BY <1>6, <1>7, IdleHolds DEF Stop, Idle
<1>8. ASSUME NEW p \in Polls, UNCHANGED sourceVars, At(p, "fetch"), poll[p].todo = {},
             poll[p].mode = "poll", watermark' = Mark(p), Stop(p)
      PROVE  IInv'
  <2>1. /\ poll[p].next > 0 /\ poll[p].next \in 0..clock /\ Safe(poll[p].next, {})
    <3>1. /\ poll[p].next \in Nat /\ poll[p].next > 0 /\ poll[p].next <= clock
          /\ Safe(poll[p].next, poll[p].todo)
      BY <1>8, PageHolds DEF At
    <3>2. clock \in Nat
      BY DEF TypeOK
    <3>. QED
      BY <1>8, <3>1, <3>2
  <2>2. watermark' = poll[p].next
    BY <1>8, <2>1 DEF Mark, NoMark
  <2>3. HandlerInv(Idle)
    BY DEF HandlerInv, Idle
  <2>. QED
    BY <1>1, <1>8, <2>1, <2>2, IdleHolds, HandlerMoves DEF Stop
<1>9. ASSUME NEW p \in Polls, NEW c \in Companies, ReadWatermark(p, c) PROVE IInv'
  <2>. DEFINE h == Reader(c)
  <2>1. Respects(h) /\ h.at = "list" /\ h.since = watermark
    BY ReaderFields
  <2>2. poll' = [poll EXCEPT ![p] = h] /\ UNCHANGED <<sourceVars, watermark>>
    BY <1>9 DEF ReadWatermark, Reader, storeVars
  <2>3. HandlerInv(h)
    BY <1>2, <2>1 DEF HandlerInv, SinceSafe
  <2>. SUFFICES ASSUME NEW g, g = h PROVE IInv'
    OBVIOUS
  <2>. HIDE DEF h
  <2>4. HandlerInv(g)'
    BY <1>1, <2>1, <2>3, HandlerWaits
  <2>. QED
    BY <1>6, <2>2, <2>4
<1>10. ASSUME NEW p \in Polls, NEW c \in Companies, NEW a \in Articles, Trigger(p, c, a) PROVE IInv'
  <2>. SUFFICES ASSUME NEW h, h = Triggered(c, a) PROVE IInv'
    OBVIOUS
  <2>1. HandlerInv(h)'
    BY TriggeredFields DEF HandlerInv
  <2>2. poll' = [poll EXCEPT ![p] = h] /\ UNCHANGED <<sourceVars, watermark>>
    BY <1>10 DEF Trigger, Triggered, storeVars
  <2>. QED
    BY <1>6, <2>1, <2>2
<1>11. ASSUME NEW p \in Polls, List(p) PROVE IInv'
  <2>1. PICK page \in SUBSET visible, mark \in 0..MaxTime :
          /\ IsPage(page, poll[p].since)
          /\ Listed(page, poll[p].since, mark)
          /\ poll' = [poll EXCEPT ![p].at = "fetch", ![p].todo = page, ![p].next = mark]
    BY <1>11 DEF List
  <2>2. mark <= clock
    BY <2>1 DEF Listed, TypeOK
  <2>3. Respects(Pager(p, page, mark)) /\ HandlerInv(Pager(p, page, mark))
    BY <1>11, <2>1, <2>2, PagerFields, ListSafe DEF List
  <2>. SUFFICES ASSUME NEW h, h = Pager(p, page, mark) PROVE IInv'
    OBVIOUS
  <2>4. poll' = [poll EXCEPT ![p] = h] /\ UNCHANGED <<sourceVars, watermark>>
    BY <1>11, <2>1 DEF List, Pager, storeVars
  <2>. QED
    BY <1>1, <1>6, <2>3, <2>4, HandlerUnmoved
<1>12. ASSUME NEW p \in Polls, NEW a \in Articles, Fetch(p, a) PROVE IInv'
  <2>1. /\ At(p, "fetch") /\ a \in poll[p].todo /\ UNCHANGED <<sourceVars, watermark>>
    BY <1>12 DEF Fetch, storeVars
  <2>2. CASE Stop(p)
    BY <1>7, <2>1, <2>2
  <2>3. CASE /\ a \in visible \cap Thin
             /\ poll' = [poll EXCEPT ![p].todo = @ \ {a}, ![p].next = Counted(p, time[a])]
    <3>. SUFFICES ASSUME NEW h, h = [poll[p] EXCEPT !.todo = @ \ {a}, !.next = Counted(p, time[a])]
                  PROVE  IInv'
      OBVIOUS
    <3>1. poll' = [poll EXCEPT ![p] = h]
      BY <2>3
    <3>2. HandlerInv(h)
      BY <2>1, <2>3, SkipSafe
    <3>. QED
      BY <1>1, <1>6, <2>1, <3>1, <3>2, HandlerUnmoved
  <2>4. CASE /\ a \in visible \ Thin
             /\ poll' = [poll EXCEPT ![p].at = "store", ![p].item = a, ![p].seen = time[a]]
    <3>. SUFFICES ASSUME NEW h, h = [poll[p] EXCEPT !.at = "store", !.item = a, !.seen = time[a]]
                  PROVE  IInv'
      OBVIOUS
    <3>1. poll' = [poll EXCEPT ![p] = h]
      BY <2>4
    <3>2. HandlerInv(h)
      BY <2>1, FetchSafe
    <3>. QED
      BY <1>1, <1>6, <2>1, <3>1, <3>2, HandlerUnmoved
  <2>. QED
    BY <1>12, <2>2, <2>3, <2>4 DEF Fetch
<1>13. ASSUME NEW p \in Polls, Store(p) PROVE IInv'
  <2>1. At(p, "store") /\ UNCHANGED <<sourceVars, watermark>>
    BY <1>13 DEF Store
  <2>. SUFFICES ASSUME NEW h, h = [poll[p] EXCEPT !.at = "stage"] PROVE IInv'
    OBVIOUS
  <2>2. poll' = [poll EXCEPT ![p] = h]
    BY <1>13 DEF Store, Go
  <2>3. HandlerInv(h)
    BY <2>1, StoreSafe
  <2>. QED
    BY <1>1, <1>6, <2>1, <2>2, <2>3, HandlerUnmoved
<1>14. ASSUME NEW p \in Polls, Stage(p) PROVE IInv'
  <2>1. At(p, "stage") /\ StageJob(p) \in staged' /\ UNCHANGED <<sourceVars, watermark>>
    BY <1>14 DEF Stage
  <2>2. CASE Stop(p)
    BY <1>7, <2>1, <2>2
  <2>3. CASE poll' = [poll EXCEPT ![p] = Stager(p, Counted(p, poll[p].seen))]
    <3>. SUFFICES ASSUME NEW h, h = Stager(p, Counted(p, poll[p].seen)) PROVE IInv'
      OBVIOUS
    <3>1. HandlerInv(h)'
      BY <1>1, <2>1, StageSafe
    <3>. QED
      BY <1>6, <2>1, <2>3, <3>1
  <2>. QED
    BY <1>14, <2>2, <2>3 DEF Stage, Stager
<1>15. ASSUME NEW p \in Polls, Finish(p) PROVE IInv'
  <2>1. /\ At(p, "fetch") /\ poll[p].todo = {} /\ Stop(p) /\ UNCHANGED sourceVars
        /\ watermark' = IF poll[p].mode = "poll" THEN Mark(p) ELSE watermark
    BY <1>15 DEF Finish
  <2>. QED
    BY <1>7, <1>8, <2>1
<1>16. ASSUME NEW p \in Polls, Fault(p) PROVE IInv'
  <2>1. /\ Stop(p) /\ UNCHANGED sourceVars
        /\ \/ watermark' = watermark
           \/ /\ At(p, "fetch") /\ poll[p].todo = {} /\ poll[p].mode = "poll"
              /\ watermark' = Mark(p)
    BY <1>16 DEF Fault, storeVars
  <2>. QED
    BY <1>7, <1>8, <2>1
<1>17. CASE UNCHANGED vars
  <2>1. UNCHANGED <<time, poll, watermark>>
    BY <1>17 DEF vars, sourceVars, storeVars
  <2>2. DistinctDates'
    BY <2>1 DEF IInv, DistinctDates
  <2>. QED
    BY <1>1, <2>1, <2>2, SourceMoves
<1>. QED
  BY <1>3, <1>4, <1>5, <1>9, <1>10, <1>11, <1>12, <1>13, <1>14, <1>15, <1>16, <1>17
     DEF Next, PollStep

\* No article version is lost while new dates are later than all before them, the
\* watermark is set at the start and a CMS republishes nothing: the watermark
\* never passes an article without a stage job that the quality gate let through.
THEOREM NoLoss ==
  ASSUME DatedLater
  PROVE  Spec => []NothingLost
<1>1. Init => TypeOK /\ IInv
  BY TypeInit, InvInit
<1>2. TypeOK /\ IInv /\ [Next]_vars => (TypeOK /\ IInv)'
  BY TypeNext, InvNext
<1>3. IInv => NothingLost
  BY DEF IInv, MarkSafe, Safe, Handled, NothingLost
<1>. QED
  BY <1>1, <1>2, <1>3, PTL DEF Spec
=============================================================================

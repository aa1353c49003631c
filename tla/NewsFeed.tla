------------------------------ MODULE NewsFeed ------------------------------
(***************************************************************************)
(* The news feed. Every server runs a loop that lets the industry scorer   *)
(* judge the articles the crawler collects, source by source behind a      *)
(* watermark, and keeps the verdicts; the feed pages through the articles, *)
(* or through the admitted verdicts, newest first.                         *)
(***************************************************************************)
EXTENDS Naturals, Sequences, FiniteSets, SequencesExt

CONSTANTS NewsArticles,  \* article ids of the crawler's table
          SourceOrder,   \* the crawl sources, in the order of the registry
          SourceOf,      \* the source of an article
          HashOf,        \* its content hash
          Stamp,         \* its effective timestamp, in the table's precision
          Precision,     \* units of that precision in a millisecond
          OnTopic,       \* the articles the IT terms match
          Loops,         \* servers that run the scoring loop
          PageSize,      \* pageSize of the loop
          MaxPerTick,    \* maxArticlesPerTick
          FeedLimit,     \* articles of a page of the feed
          MaxHorizon,    \* bound: how far the lookback moves
          MaxFailures    \* bound: calls that fail

ASSUME NewsAssumption ==
    /\ NewsArticles \subseteq Nat /\ IsFiniteSet(NewsArticles)
    /\ SourceOrder \in Seq(ToSet(SourceOrder)) /\ SourceOf \in [NewsArticles -> ToSet(SourceOrder)]
    /\ Stamp \in [NewsArticles -> Nat] /\ \A a \in NewsArticles : Stamp[a] >= Precision
    /\ Precision \in Nat \ {0} /\ PageSize \in Nat \ {0}
    /\ MaxPerTick \in Nat \ {0} /\ FeedLimit \in Nat \ {0}
    /\ MaxHorizon \in Nat /\ MaxFailures \in Nat

VARIABLES known,       \* the articles the crawler has collected
          valid,       \* those whose validation_status is 'valid'
          outOfReach,  \* articles the loop does not promise to judge
          horizon,     \* the start of the lookback, in milliseconds
          decisions,   \* ai.crawl_industry_decisions
          scoreMark,   \* ai.crawl_industry_score_cursors
          loop,        \* the tick of each server
          failures,    \* calls that have failed
          feed         \* a client that pages through the feed

newsVars == <<known, valid, outOfReach, horizon, decisions, scoreMark, loop, failures, feed>>
judged == <<decisions, scoreMark>>
collected == <<known, valid, outOfReach, horizon>>

Nothing == 0
Sources == ToSet(SourceOrder)
Hashes == {HashOf[a] : a \in NewsArticles}
\* A timestamp goes through a JavaScript Date, which keeps milliseconds.
IsoString(t) == t - (t % Precision)

Key == Sources \X Hashes
KeyOf(a) == <<SourceOf[a], HashOf[a]>>
Decision == [admit : BOOLEAN, stamp : Nat, id : NewsArticles]
Verdicts == {"admit", "reject"}

LoopStates == {"idle", "source", "page", "item", "score", "upsert", "cursor"}
NewsTypeOK ==
    /\ valid \subseteq known /\ known \subseteq NewsArticles /\ outOfReach \subseteq NewsArticles
    /\ horizon \in 0 .. MaxHorizon /\ failures \in 0 .. MaxFailures
    /\ \A k \in DOMAIN decisions : k \in Key /\ decisions[k] \in Decision
    /\ scoreMark \in [Sources -> Nat]
    /\ loop \in [Loops -> [at : LoopStates, remaining : 0 .. MaxPerTick, index : 1 .. Len(SourceOrder) + 1,
                           lookback : Nat, since : Nat, page : SUBSET NewsArticles,
                           last : Nat, more : BOOLEAN, verdict : Verdicts]]
    /\ feed \in [at : {"idle", "page", "hydrate", "done"}, view : {"channel", "mixed", "it-v4"},
                 sources : SUBSET Sources, cursor : Nat \X Nat, rows : SUBSET NewsArticles,
                 goal : SUBSET (NewsArticles \cup Hashes), seen : SUBSET (NewsArticles \cup Hashes)]

Asleep == [at |-> "idle", remaining |-> 0, index |-> 1, lookback |-> 0, since |-> 0, page |-> {},
           last |-> Nothing, more |-> FALSE, verdict |-> "reject"]
NoFeed == [at |-> "idle", view |-> "mixed", sources |-> {}, cursor |-> <<0, 0>>,
           rows |-> {}, goal |-> {}, seen |-> {}]

NewsInit ==
    /\ known = {} /\ valid = {} /\ outOfReach = {} /\ horizon = 0 /\ failures = 0
    /\ decisions = <<>> /\ scoreMark = [s \in Sources |-> Nothing]
    /\ loop = [l \in Loops |-> Asleep] /\ feed = NoFeed

-----------------------------------------------------------------------------
(* The crawler. An article may be collected behind one published later.    *)

Overtaken(a) == \E b \in known : SourceOf[b] = SourceOf[a] /\ Stamp[b] > Stamp[a]

\* A feed is not asked for what is withdrawn under it.
Shown(view, a) == IF view = "it-v4" THEN HashOf[a] ELSE a

Collect(a) ==
    /\ a \notin known
    /\ known' = known \cup {a} /\ valid' = valid \cup {a}
    /\ outOfReach' = IF Overtaken(a) THEN outOfReach \cup {a} ELSE outOfReach
    /\ UNCHANGED <<horizon, judged, loop, failures, feed>>

TakeDown(a) ==
    /\ a \in valid
    /\ valid' = valid \ {a}
    /\ feed' = [feed EXCEPT !.goal = @ \ {Shown(feed.view, a)}]
    /\ UNCHANGED <<known, outOfReach, horizon, judged, loop, failures>>

TimePasses ==
    /\ horizon < MaxHorizon
    /\ horizon' = horizon + 1
    /\ UNCHANGED <<known, valid, outOfReach, judged, loop, failures, feed>>

-----------------------------------------------------------------------------
(* A tick of the loop.                                                     *)

LoopStep(l, from, changed) == loop[l].at = from /\ loop' = [loop EXCEPT ![l] = changed]
NextSource(l) == [loop[l] EXCEPT !.at = "source", !.index = @ + 1]

\* A tick that is still running makes the next one skip.
BeginScoring(l) ==
    /\ LoopStep(l, "idle", [Asleep EXCEPT !.at = "source", !.remaining = MaxPerTick,
                                          !.lookback = horizon * Precision])
    /\ UNCHANGED <<collected, judged, failures, feed>>

\* The watermark is stored; a source that has none starts at the lookback.
GetCursor(l) ==
    LET over == loop[l].index > Len(SourceOrder) \/ loop[l].remaining = 0
        s == SourceOrder[loop[l].index]
        first == scoreMark[s] = Nothing
        since == IF first THEN loop[l].lookback ELSE scoreMark[s]
    IN  /\ LoopStep(l, "source", IF over THEN Asleep ELSE [loop[l] EXCEPT !.at = "page", !.since = since])
        /\ outOfReach' = IF over \/ ~first THEN outOfReach
                         ELSE outOfReach \cup {a \in NewsArticles : SourceOf[a] = s /\ Stamp[a] <= since}
        /\ UNCHANGED <<known, valid, horizon, judged, failures, feed>>

Older(a, b) == Stamp[a] < Stamp[b] \/ (Stamp[a] = Stamp[b] /\ a < b)
EarliestOf(articles) == CHOOSE a \in articles : \A b \in articles \ {a} : Older(a, b)

\* ARTICLE_SINCE_SELECT, by time and then by id.
Candidates(s, since) == {a \in valid : SourceOf[a] = s /\ Stamp[a] > since}
FirstOf(articles, n) == {a \in articles : Cardinality({b \in articles : Older(b, a)}) < n}

RowsRequested(l) == IF PageSize < loop[l].remaining THEN PageSize ELSE loop[l].remaining

ListScoringCandidates(l) ==
    LET page == FirstOf(Candidates(SourceOrder[loop[l].index], loop[l].since), RowsRequested(l))
    IN  /\ LoopStep(l, "page", IF page = {} THEN NextSource(l)
                               ELSE [loop[l] EXCEPT !.at = "item", !.page = page, !.last = Nothing,
                                                    !.more = Cardinality(page) = RowsRequested(l)])
        /\ UNCHANGED <<collected, judged, failures, feed>>

\* The page is read from its oldest article on.
HeadOf(l) == EarliestOf(loop[l].page)

Judged(l, remaining) ==
    LET rest == loop[l].page \ {HeadOf(l)}
    IN  [loop[l] EXCEPT !.page = rest, !.last = IsoString(Stamp[HeadOf(l)]), !.remaining = remaining,
                        !.at = IF rest = {} \/ remaining = 0 THEN "cursor" ELSE "item"]

GetDecision(l) ==
    /\ LoopStep(l, "item", IF KeyOf(HeadOf(l)) \in DOMAIN decisions THEN Judged(l, loop[l].remaining)
                           ELSE [loop[l] EXCEPT !.at = "score"])
    /\ UNCHANGED <<collected, judged, failures, feed>>

Score(l) ==
    /\ \E v \in Verdicts : LoopStep(l, "score", [loop[l] EXCEPT !.at = "upsert", !.verdict = v])
    /\ UNCHANGED <<collected, judged, failures, feed>>

Fails == failures < MaxFailures /\ failures' = failures + 1

\* Mutant: the article whose scoring failed moves the watermark as well.
PassFailed(l) == [loop[l] EXCEPT !.at = "cursor", !.more = FALSE, !.last = IsoString(Stamp[HeadOf(l)])]
\* The source is left for this tick, after what was judged is recorded.
BreakOff(l) == [loop[l] EXCEPT !.at = "cursor", !.more = FALSE]

ScoreFails(l) ==
    /\ Fails /\ LoopStep(l, "score", BreakOff(l))
    /\ UNCHANGED <<collected, judged, feed>>

\* A row that is replaced may move under a client who pages by it.
Upsert(l) ==
    LET a == HeadOf(l)
        k == KeyOf(a)
        row == [admit |-> loop[l].verdict = "admit", stamp |-> IsoString(Stamp[a]), id |-> a]
    IN  /\ LoopStep(l, "upsert", Judged(l, loop[l].remaining - 1))
        /\ decisions' = [x \in DOMAIN decisions \cup {k} |-> IF x = k THEN row ELSE decisions[x]]
        /\ feed' = IF k \in DOMAIN decisions /\ feed.view = "it-v4"
                   THEN [feed EXCEPT !.goal = @ \ {HashOf[a]}] ELSE feed
        /\ UNCHANGED <<collected, scoreMark, failures>>

\* A full page asks for the next one, unless the watermark has not moved.
SetCursor(l) ==
    LET me == loop[l]
        moved == me.last # Nothing /\ me.last # me.since
    IN  /\ LoopStep(l, "cursor", IF moved /\ me.more /\ me.remaining > 0
                                 THEN [me EXCEPT !.at = "page", !.since = me.last, !.page = {}]
                                 ELSE NextSource(l))
        /\ scoreMark' = IF me.last = Nothing THEN scoreMark
                        ELSE [scoreMark EXCEPT ![SourceOrder[me.index]] = me.last]
        /\ UNCHANGED <<collected, decisions, failures, feed>>

\* Mutant: a tick that throws does not clear inFlight.
Wedged(l) == [Asleep EXCEPT !.at = "in flight"]
TickOver(l) == Asleep

\* A database that fails ends the tick, and so does a restart.
Throws(l) ==
    /\ loop[l].at # "idle" /\ Fails
    /\ loop' = [loop EXCEPT ![l] = TickOver(l)]
    /\ UNCHANGED <<collected, judged, feed>>

ScoringTick(l) ==
    \/ BeginScoring(l) \/ GetCursor(l) \/ ListScoringCandidates(l)
    \/ GetDecision(l) \/ Score(l) \/ Upsert(l) \/ SetCursor(l)

-----------------------------------------------------------------------------
(* GET /news-feed, page by page: one channel, the mixed view by terms, or  *)
(* the mixed view of what the scorer admitted.                             *)

Admitted(sources) == {k \in DOMAIN decisions : decisions[k].admit /\ k[1] \in sources}
Alive(k) == {a \in valid : KeyOf(a) = k}

\* The articles of a channel, or of all channels that a term matches.
InView(view, sources) == {a \in valid : SourceOf[a] \in sources /\ (view = "mixed" => a \in OnTopic)}

BeginFeed ==
    /\ feed.at = "idle"
    /\ \E view \in {"channel", "mixed", "it-v4"}, sources \in SUBSET Sources :
          /\ sources # {} /\ (view = "channel" => Cardinality(sources) = 1)
          /\ feed' = [NoFeed EXCEPT
                 !.at = "page", !.view = view, !.sources = sources,
                 !.goal = IF view = "it-v4" THEN {k[2] : k \in {x \in Admitted(sources) : Alive(x) # {}}}
                          ELSE InView(view, sources)]
    /\ UNCHANGED <<collected, judged, loop, failures>>

\* Mutant: the next page is found by the timestamp alone.
BeforeByTime(t, id, cursor) == cursor = <<0, 0>> \/ t < cursor[1]
\* The row comparison of the queries.
BeforeCursor(t, id, cursor) == cursor = <<0, 0>> \/ t < cursor[1] \/ (t = cursor[1] /\ id < cursor[2])

\* The rows of a view, newest first: articles, or verdicts.
FeedRows(view, sources) ==
    IF view = "it-v4" THEN {[id |-> decisions[k].id, at |-> decisions[k].stamp] : k \in Admitted(sources)}
    ELSE {[id |-> a, at |-> Stamp[a]] : a \in InView(view, sources)}
Newer(r, q) == r.at > q.at \/ (r.at = q.at /\ r.id > q.id)
RowsAhead == {r \in FeedRows(feed.view, feed.sources) : BeforeCursor(r.at, r.id, feed.cursor)}

\* One row more than the page is read, to know whether another page follows.
FeedPage(rows) == {r \in rows : Cardinality({q \in rows : Newer(q, r)}) < FeedLimit}
LastOf(page) == CHOOSE r \in page : \A q \in page \ {r} : Newer(q, r)

\* cursorFromRow, encodeCursor: the row a page ends with, its timestamp in milliseconds.
CursorOf(row) == <<IsoString(row.at), row.id>>

ListPage ==
    /\ feed.at = "page"
    /\ LET page == FeedPage(RowsAhead)
           more == Cardinality(RowsAhead) > FeedLimit
           ids == {r.id : r \in page}
       IN  feed' = [feed EXCEPT
               !.cursor = IF more THEN CursorOf(LastOf(page)) ELSE <<0, 0>>,
               !.rows = IF feed.view = "it-v4" THEN ids ELSE {},
               !.seen = IF feed.view = "it-v4" THEN @ ELSE @ \cup ids,
               !.at = IF feed.view = "it-v4" THEN "hydrate" ELSE IF more THEN "page" ELSE "done"]
    /\ UNCHANGED <<collected, judged, loop, failures>>

\* An admitted verdict shows the newest valid article of its content, or nothing.
ListArticlesByKeys(rows) == {HashOf[a] : a \in {x \in rows : Alive(KeyOf(x)) # {}}}

HydratePage ==
    /\ feed.at = "hydrate"
    /\ feed' = [feed EXCEPT !.rows = {},
                            !.seen = @ \cup ListArticlesByKeys(feed.rows),
                            !.at = IF feed.cursor = <<0, 0>> THEN "done" ELSE "page"]
    /\ UNCHANGED <<collected, judged, loop, failures>>

NewsNext ==
    \/ \E a \in NewsArticles : Collect(a) \/ TakeDown(a)
    \/ TimePasses
    \/ \E l \in Loops : ScoringTick(l) \/ ScoreFails(l) \/ Throws(l)
    \/ BeginFeed \/ ListPage \/ HydratePage

NewsFairness == \A l \in Loops : WF_newsVars(ScoringTick(l))
NewsSpec == NewsInit /\ [][NewsNext]_newsVars /\ NewsFairness

-----------------------------------------------------------------------------
(* The loop lists strictly behind the watermark and never looks back: an   *)
(* article the watermark has passed without a verdict is one that was      *)
(* collected behind a newer one or before the lookback, or it shares its   *)
(* millisecond with another article of the source.                         *)
PassedByIsExplained ==
    \A a \in valid \ outOfReach :
        Stamp[a] <= scoreMark[SourceOf[a]] =>
            \/ KeyOf(a) \in DOMAIN decisions
            \/ \E b \in NewsArticles \ {a} :
                  SourceOf[b] = SourceOf[a] /\ IsoString(Stamp[b]) = IsoString(Stamp[a])

(* A client who follows the cursors to the end has been shown everything   *)
(* that was there when it began and stayed. Only the lists of articles     *)
(* lose one, and only one that is no newer than one they have shown of the *)
(* same millisecond, which the cursor cannot tell apart.                   *)
FeedMissesNothing ==
    feed.at = "done" =>
        \A x \in feed.goal \ feed.seen :
            /\ feed.view # "it-v4"
            /\ \E y \in feed.seen : Stamp[y] >= Stamp[x] /\ IsoString(Stamp[y]) = IsoString(Stamp[x])

(* While the scorer fails only finitely often, an article that is in reach *)
(* of the loop gets its verdict or is withdrawn.                           *)
EveryArticleIsJudged ==
    \A a \in NewsArticles :
        a \in valid \ outOfReach ~> (KeyOf(a) \in DOMAIN decisions \/ a \notin valid \ outOfReach)

(* The safety of the feed: whatever the loop passes by and whatever a page *)
(* leaves out is explained.                                                *)
NewsSafe == NewsTypeOK /\ PassedByIsExplained /\ FeedMissesNothing
=============================================================================

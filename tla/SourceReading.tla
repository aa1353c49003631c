---------------------------- MODULE SourceReading ----------------------------
(***************************************************************************)
(* How the articles behind an issue are named and read.  An article is in  *)
(* the CMS or was crawled; a reference to it has a spelling, which the     *)
(* source gate takes apart.  Ingest reads the article and takes a          *)
(* snapshot; then each task from T02 to T06 reads it again, at its source, *)
(* and goes on only with the version that T02 judged.  The newsroom works  *)
(* on its articles all the while, and the model takes its time.            *)
(*                                                                         *)
(* All pipelines here lead to one issue; how T04 chooses it is the         *)
(* business of IssueStore, and what T02 answers of Relevance.              *)
(***************************************************************************)
EXTENDS Naturals, FiniteSets

CONSTANTS Readers,        \* pipelines
          DirectReaders,  \* those of them that are calls of the internal routes
          CmsArticles, CrawledArticles,
          ContentOf,      \* of an article, per version: what there is to read
          References,     \* how articles are referred to: a form and an article
          MaxEdits        \* bound: versions of an article

Spellings == {"bare", "cms", "crawl", "crawl of no channel", "viral", "garbled"}

\* An id of the CMS, bare or not, can only name an article of the CMS, and a content
\* hash one that was crawled: there is no third place to look it up.
ASSUME SourceReadingAssumption ==
    /\ DirectReaders \subseteq Readers /\ CmsArticles \cap CrawledArticles = {}
    /\ ContentOf \in [CmsArticles \cup CrawledArticles ->
                       [1 .. MaxEdits -> {"full", "thin", "placeholder", "title", "empty"}]]
    /\ References \subseteq [form : Spellings, key : CmsArticles \cup CrawledArticles]
    /\ \A ref \in References : /\ ref.form \in {"bare", "cms"} => ref.key \in CmsArticles
                               /\ ref.form = "crawl" => ref.key \in CrawledArticles
    /\ MaxEdits \in Nat \ {0}

VARIABLES article,    \* at its source: version and status
          shown,      \* history: the versions that were ever published
          snapshots,  \* rows of ai.article_snapshots
          judged,     \* decisions of T02
          written,    \* what T03 to T06 recorded, each for a decision
          links,      \* the articles of the issue
          latest,     \* the decision that its latest development is from
          seat        \* where each pipeline is

readingVars == <<article, shown, snapshots, judged, written, links, latest, seat>>

Articles == CmsArticles \cup CrawledArticles
Editions == 1 .. MaxEdits
Standing == {"draft", "published", "deleted"}
\* A decision of T02 is a reading: the reference it was called with and the version
\* it saw, 0 as long as none was.
Reading == [form : Spellings, key : Articles, version : 0 .. MaxEdits]
Nothing == [form |-> "none", key |-> "none", version |-> 0]
Later == {"T03", "T04", "T05", "T06"}
Writing == [task : Later, decision : Reading, seen : Editions]
Seat == [at : {"idle", "read", "source", "model", "over"}, task : {"T02"} \cup Later,
         decision : Reading \cup {Nothing}, about : Reading \cup {Nothing}, seen : 0 .. MaxEdits]
Vacant == [at |-> "idle", task |-> "T02", decision |-> Nothing, about |-> Nothing, seen |-> 0]

ReadingTypeOK ==
    /\ article \in [Articles -> [version : Editions, status : Standing]]
    /\ shown \subseteq Articles \X Editions
    /\ snapshots \subseteq Reading /\ judged \subseteq Reading /\ links \subseteq Reading
    /\ written \subseteq Writing
    /\ latest \in Reading \cup {Nothing}
    /\ seat \in [Readers -> Seat]

ReadingInit ==
    /\ article = [k \in Articles |-> [version |-> 1, status |-> "published"]]
    /\ shown = {<<k, 1>> : k \in Articles}
    /\ snapshots = {} /\ judged = {} /\ written = {} /\ links = {}
    /\ latest = Nothing
    /\ seat = [r \in Readers |-> Vacant]

-----------------------------------------------------------------------------
(* The newsroom.  The CMS sets updated_at at each edit, and the fingerprint *)
(* of T02 has it.  An edit of a crawled article gives it another content   *)
(* hash, and so another reference: under this one it is gone.              *)

Revise(k) ==
    /\ k \in CmsArticles /\ article[k].status # "deleted" /\ article[k].version < MaxEdits
    /\ article' = [article EXCEPT ![k].version = @ + 1]
    /\ shown' = IF article[k].status = "published"
                THEN shown \cup {<<k, article[k].version + 1>>} ELSE shown
    /\ UNCHANGED <<snapshots, judged, written, links, latest, seat>>

ChangeStatus(k) ==
    /\ \/ /\ k \in CmsArticles /\ article[k].status = "published"
          /\ article' = [article EXCEPT ![k].status = "draft"]
          /\ UNCHANGED shown
       \/ /\ article[k].status = "draft"
          /\ article' = [article EXCEPT ![k].status = "published"]
          /\ shown' = shown \cup {<<k, article[k].version>>}
       \/ /\ article[k].status # "deleted"
          /\ article' = [article EXCEPT ![k].status = "deleted"]
          /\ UNCHANGED shown
    /\ UNCHANGED <<snapshots, judged, written, links, latest, seat>>

-----------------------------------------------------------------------------
(* The source gate.                                                        *)

\* parseIssueSourceId: who has the article, if it may enter at all.
ProviderOf(ref) == CASE ref.form \in {"bare", "cms"} -> "cms"
                     [] ref.form = "crawl"           -> "crawl"
                     [] OTHER                        -> "rejected"

\* Mutant: the source is named as it was asked for.
NamedAsAsked(ref) == ref.form

\* sourceArticleId: the bare id of the CMS, the formatted id of a crawled article.
SourceArticleId(ref) == IF ProviderOf(ref) = "cms" THEN "bare" ELSE ref.form

\* Mutant: the status is not looked at.
FoundAtAll(k) == article[k].status # "deleted"

\* CmsSourceGate: the CMS has the article, and it is published.
Published(k) == article[k].status = "published"

\* The crawler's table has a valid row with this content hash ...
Found(k) == article[k].status # "deleted"

\* ... which is all that CrawlSourceGate asks for.
CrawlGate(ref) == ProviderOf(ref) = "crawl" /\ Found(ref.key)

\* requirePublishedArticle of the resolver, which hands on to one of the two gates.
RequirePublishedArticle(ref) ==
    \/ ProviderOf(ref) = "cms" /\ Published(ref.key)
    \/ CrawlGate(ref)

Reads(ref) == [form |-> SourceArticleId(ref), key |-> ref.key, version |-> article[ref.key].version]

-----------------------------------------------------------------------------
(* Ingest, and the tasks.                                                  *)

SitDown(r, task, d) ==
    seat' = [seat EXCEPT ![r] = [Vacant EXCEPT !.at = "read", !.task = task, !.decision = d]]
GiveUp(r) == seat' = [seat EXCEPT ![r] = [Vacant EXCEPT !.at = "over"]]
Unseen(ref) == [form |-> ref.form, key |-> ref.key, version |-> 0]

\* assessArticleContent: 400 characters that are neither the title once more nor a
\* page that stands in for the article.
AssessArticleContent(k) == ContentOf[k][article[k].version] = "full"

\* triggerArticle; the pipeline then works with the name that the gate gave.
IngestArticle(r, ref) ==
    /\ seat[r].at = "idle" /\ r \notin DirectReaders
    /\ RequirePublishedArticle(ref) /\ AssessArticleContent(ref.key)
    /\ snapshots' = snapshots \cup {Reads(ref)}
    /\ SitDown(r, "T02", Unseen(Reads(ref)))
    /\ UNCHANGED <<article, shown, judged, written, links, latest>>

\* POST /relevance/classify takes any reference.
CallT02(r, ref) ==
    /\ seat[r].at = "idle" /\ r \in DirectReaders
    /\ SitDown(r, "T02", Unseen(ref))
    /\ UNCHANGED <<article, shown, snapshots, judged, written, links, latest>>

After(t) == CASE t = "T02" -> "T03" [] t = "T03" -> "T04" [] t = "T04" -> "T05" [] t = "T05" -> "T06"
GoOn(r, d) == IF seat[r].task = "T06" THEN GiveUp(r) ELSE SitDown(r, After(seat[r].task), d)

\* T02 judges an article as it is now, once per version.
ReadForT02(r) ==
    LET ref == seat[r].decision
        d == [ref EXCEPT !.version = article[ref.key].version]
    IN  /\ seat[r].at = "read" /\ seat[r].task = "T02"
        /\ IF ~RequirePublishedArticle(ref) THEN GiveUp(r)
           ELSE IF d \in judged THEN GoOn(r, d)
           ELSE seat' = [seat EXCEPT ![r].at = "model", ![r].decision = d]
        /\ UNCHANGED <<article, shown, snapshots, judged, written, links, latest>>

\* The last alternative of this and of Record: the row is there, but the task
\* failed after it, and is repeated.
Judge(r) ==
    LET d == seat[r].decision
    IN  /\ seat[r].at = "model" /\ seat[r].task = "T02"
        /\ judged' = judged \cup {d}
        /\ \/ GoOn(r, d)
           \/ GiveUp(r)                     \* not relevant
           \/ SitDown(r, "T02", Unseen(d))
        /\ UNCHANGED <<article, shown, snapshots, written, links, latest>>

\* T03 and T04 are about the decision of their pipeline, T05 and T06 about the
\* one that the latest development of the issue is from.
About(r) == IF seat[r].task \in {"T03", "T04"} THEN seat[r].decision ELSE latest

\* A rationale or a match of this decision, a text of the issue.
Recorded(task, d) == \E w \in written : w.task = task /\ (w.decision = d \/ task \in {"T05", "T06"})

\* A text needs a development, and the one-liner a title.
Refuses(task) == \/ task \in {"T05", "T06"} /\ latest = Nothing
                 \/ task = "T06" /\ ~Recorded("T05", latest)

\* What is recorded is used again, without a look at the source.
LookUpRecord(r) ==
    LET task == seat[r].task
    IN  /\ seat[r].at = "read" /\ task # "T02"
        /\ IF Refuses(task) THEN GiveUp(r)
           ELSE IF Recorded(task, About(r)) THEN GoOn(r, seat[r].decision)
           ELSE seat' = [seat EXCEPT ![r].at = "source", ![r].about = About(r)]
        /\ UNCHANGED <<article, shown, snapshots, judged, written, links, latest>>

\* Mutant: the version is not compared.
AnyVersion(d) == RequirePublishedArticle(d)

\* The fingerprint of the source is the one that the decision has.
StillAsJudged(d) == RequirePublishedArticle(d) /\ article[d.key].version = d.version

ReadSource(r) ==
    /\ seat[r].at = "source"
    /\ IF StillAsJudged(seat[r].about)
       THEN seat' = [seat EXCEPT ![r].at = "model", ![r].seen = article[seat[r].about.key].version]
       ELSE GiveUp(r)
    /\ UNCHANGED <<article, shown, snapshots, judged, written, links, latest>>

\* Mutant: a text of another development is no obstacle.
OverwritesText(task, d) == \E w \in written : w.task = task /\ w.decision = d

\* applyGeneratedTitle and applyGeneratedOneLiner refuse to overwrite.
HasText(task, d) == task \in {"T05", "T06"} /\ Recorded(task, d)

\* T04 applies its match: the article is linked, unless it is already.
Link(d) ==
    LET link == [d EXCEPT !.form = SourceArticleId(d)]
    IN  /\ links' = links \cup {link}
        /\ latest' = IF link \in links THEN latest ELSE d

Record(r) ==
    LET task == seat[r].task
        d == seat[r].about
    IN  /\ seat[r].at = "model" /\ task # "T02"
        /\ IF HasText(task, d)
           THEN /\ UNCHANGED <<written, links, latest>>
                /\ IF \E w \in written : w.task = task /\ w.decision = d
                   THEN GoOn(r, seat[r].decision) ELSE GiveUp(r)
           ELSE /\ written' = written \cup {[task |-> task, decision |-> d, seen |-> seat[r].seen]}
                /\ IF task = "T04" THEN Link(d) ELSE UNCHANGED <<links, latest>>
                /\ GoOn(r, seat[r].decision) \/ SitDown(r, task, seat[r].decision)
        /\ UNCHANGED <<article, shown, snapshots, judged>>

\* CMS, model or database cannot be reached: the task is repeated, or given up.
ReadingFails(r) ==
    /\ seat[r].at \in {"read", "source", "model"}
    /\ \/ SitDown(r, seat[r].task, IF seat[r].task = "T02" THEN Unseen(seat[r].decision) ELSE seat[r].decision)
       \/ GiveUp(r)
    /\ UNCHANGED <<article, shown, snapshots, judged, written, links, latest>>

ReadingNext ==
    \/ \E k \in Articles : Revise(k) \/ ChangeStatus(k)
    \/ \E r \in Readers, ref \in References : IngestArticle(r, ref) \/ CallT02(r, ref)
    \/ \E r \in Readers : \/ ReadForT02(r) \/ Judge(r) \/ LookUpRecord(r)
                          \/ ReadSource(r) \/ Record(r) \/ ReadingFails(r)

ReadingSpec == ReadingInit /\ [][ReadingNext]_readingVars

-----------------------------------------------------------------------------
(* Properties.                                                             *)

\* Whatever a task wrote about a decision it wrote from the version that T02 had
\* judged, although the newsroom may change the article between any two tasks.
OnVersionJudged == \A w \in written : w.decision \in judged /\ w.seen = w.decision.version

\* Nothing was ever made of a version that the readers of the newsroom could not
\* see, nor of a reference that may not enter.
NothingUnpublished ==
    \A d \in judged \cup snapshots : <<d.key, d.version>> \in shown /\ ProviderOf(d) # "rejected"

\* However it is referred to, an article has one name: no version of it has two
\* snapshots, or is linked to the issue twice.
OneNameEach ==
    \A set \in {snapshots, links} : \A d, e \in set : d.key = e.key /\ d.version = e.version => d = e

\* Several pipelines may write a title at once, for different developments: one
\* is kept, and the one-liner comes after it.
OneWording ==
    /\ \A v, w \in written : v.task = w.task /\ v.task \in {"T05", "T06"} => v = w
    /\ \A w \in written : w.task = "T06" => Recorded("T05", w.decision)

\* The safety of reading: however an article is referred to, and whatever the
\* newsroom does to it between two tasks, everything that is written about it is
\* about the published version that T02 judged, under one name, with one wording.
ReadingSafe ==
    /\ ReadingTypeOK
    /\ OnVersionJudged
    /\ NothingUnpublished
    /\ OneNameEach
    /\ OneWording
=============================================================================

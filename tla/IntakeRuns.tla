----------------------------- MODULE IntakeRuns -----------------------------
(***************************************************************************)
(* The news intake API beside the scheduler: an operator pulls articles    *)
(* from a channel the workspace is entitled to, and pages through the      *)
(* recent runs of the company, newest first, while new runs keep coming.   *)
(***************************************************************************)
EXTENDS Naturals, FiniteSets

CONSTANTS Pulls,      \* calls of POST /news-intake/pull
          PullKeys,   \* idempotency keys
          Channels,   \* channels a workspace may be entitled to
          MaxRuns,    \* bound: runs that are ever created
          PageLimit,  \* rows of a page
          MaxOffset   \* MAX_RUNS_OFFSET: a cursor may not point further

ASSUME RunsAssumption ==
    MaxRuns \in Nat /\ PageLimit \in Nat \ {0} /\ MaxOffset \in Nat

VARIABLES allowed,  \* allowed_news_channel_ids of the tenant
          runs,     \* the jobs of the company
          pull,     \* where each pull is
          reader    \* a client that follows next_cursor to the end

runsVars == <<allowed, runs, pull, reader>>

NoKey == "no key"
Family == {"intake", "ai_task"}
\* A job is known by its number, and found again by its key, if a pull made it.
Job == [id : 1 .. MaxRuns, family : Family, key : PullKeys \cup {NoKey}]

RunsTypeOK ==
    /\ allowed \subseteq Channels
    /\ runs \subseteq Job
    /\ pull \in [Pulls -> [at : {"idle", "tenant", "ready", "enqueue"}, key : PullKeys, channel : Channels]]
    /\ reader \in [at : {"idle", "page", "done", "refused"}, ai : BOOLEAN, offset : Nat,
                   goal : SUBSET (1 .. MaxRuns), seen : SUBSET (1 .. MaxRuns)]

RunsInit ==
    /\ allowed \in SUBSET Channels
    /\ runs = {}
    /\ pull \in [Pulls -> [at : {"idle"}, key : PullKeys, channel : Channels]]
    /\ reader = [at |-> "idle", ai |-> FALSE, offset |-> 0, goal |-> {}, seen |-> {}]

\* An empty list means every channel.
AllowedChannels == IF allowed = {} THEN Channels ELSE allowed

UpdateAllowed ==
    /\ allowed' \in SUBSET Channels \ {{}, allowed}
    /\ UNCHANGED <<runs, pull, reader>>

-----------------------------------------------------------------------------
(* enqueueIngestTrigger: the entitlement and the readiness of the company  *)
(* are read first, the job is enqueued after both.                         *)

PullAt(p, from, to) == pull[p].at = from /\ pull' = [pull EXCEPT ![p].at = to]

ParsePull(p) == PullAt(p, "idle", "tenant") /\ UNCHANGED <<allowed, runs, reader>>

AssertChannelAllowed(p) ==
    /\ PullAt(p, "tenant", IF pull[p].channel \in AllowedChannels THEN "ready" ELSE "idle")
    /\ UNCHANGED <<allowed, runs, reader>>

\* resolveManagementIdentityReadiness: the context in force must be there and be
\* complete, and the identity drafted from it be ready.  CompanyContext says how
\* they come about; here a pull finds them in any state.
Context == {"missing", "incomplete", "complete"}
IdentityRecord == {"missing", "pending", "failed", "ready"}
Readiness(context, record) ==
    CASE context = "missing"    -> "missing"
      [] context = "incomplete" -> "context_incomplete"
      [] context = "complete"   -> record

AssertIntakeReady(p) ==
    /\ \E context \in Context, record \in IdentityRecord :
          PullAt(p, "ready", IF Readiness(context, record) = "ready" THEN "enqueue" ELSE "idle")
    /\ UNCHANGED <<allowed, runs, reader>>

\* Mutant: every job gets the number of the newest.
SameRun(family, key) == runs' = runs \cup {[id |-> Cardinality(runs), family |-> family, key |-> key]}
NewRun(family, key) ==
    /\ Cardinality(runs) < MaxRuns
    /\ runs' = runs \cup {[id |-> Cardinality(runs) + 1, family |-> family, key |-> key]}

EnqueuePull(p) ==
    /\ PullAt(p, "enqueue", "idle")
    /\ IF \E j \in runs : j.key = pull[p].key THEN runs' = runs ELSE NewRun("intake", pull[p].key)
    /\ UNCHANGED <<allowed, reader>>

\* The pipeline of an article puts jobs of its own on the queue.
EnqueueTask ==
    /\ NewRun("ai_task", NoKey)
    /\ UNCHANGED <<allowed, pull, reader>>

-----------------------------------------------------------------------------
(* GET /news-intake/runs, page by page.                                    *)

ListedRuns(ai) == {j \in runs : ai \/ j.family = "intake"}
Ids(s) == {j.id : j \in s}

BeginRead ==
    /\ reader.at = "idle"
    /\ \E ai \in BOOLEAN :
          reader' = [at |-> "page", ai |-> ai, offset |-> 0, goal |-> Ids(ListedRuns(ai)), seen |-> {}]
    /\ UNCHANGED <<allowed, runs, pull>>

\* ORDER BY created_at DESC: a run comes behind those that are newer.
Position(j, s) == Cardinality({k \in s : k.id >= j.id})
\* LIMIT and OFFSET.
Rows(s, limit, offset) == {j \in s : Position(j, s) \in (offset + 1) .. (offset + limit)}

\* One row more than the page is fetched, to know whether there are more.
Fetched == Rows(ListedRuns(reader.ai), PageLimit + 1, reader.offset)
\* Mutant: a full page always has a cursor.
FullPage(fetched) == Cardinality(fetched) >= PageLimit
HasMore(fetched) == Cardinality(fetched) > PageLimit
PageOf(fetched) == Rows(fetched, PageLimit, 0)

\* Mutant: the cursor counts the row that was fetched to look ahead.
SkipsOne == reader.offset + PageLimit + 1
\* The next cursor is refused when it points beyond MAX_RUNS_OFFSET.
NextOffset == reader.offset + PageLimit

ReadPage ==
    /\ reader.at = "page"
    /\ LET fetched == Fetched
       IN  reader' = [reader EXCEPT
               !.seen = @ \cup Ids(PageOf(fetched)),
               !.offset = IF HasMore(fetched) THEN NextOffset ELSE @,
               !.at = IF ~HasMore(fetched) THEN "done"
                      ELSE IF NextOffset > MaxOffset THEN "refused" ELSE "page"]
    /\ UNCHANGED <<allowed, runs, pull>>

RunsNext ==
    \/ UpdateAllowed \/ EnqueueTask \/ BeginRead \/ ReadPage
    \/ \E p \in Pulls : ParsePull(p) \/ AssertChannelAllowed(p) \/ AssertIntakeReady(p) \/ EnqueuePull(p)

RunsSpec == RunsInit /\ [][RunsNext]_runsVars

-----------------------------------------------------------------------------
(* Pages are cut by offset from a list that grows at its head: a client    *)
(* that follows the cursors to the end may see a run twice, but misses     *)
(* none that existed when it began.                                        *)
PagesMissNothing == reader.at = "done" => reader.goal \subseteq reader.seen

(* A client is cut off only behind the last offset a cursor may name, and  *)
(* only where there is more to read.                                       *)
RefusedOnlyAtTheEnd ==
    reader.at = "refused" => reader.offset > MaxOffset /\ Cardinality(ListedRuns(reader.ai)) > reader.offset

(* The safety of the list of runs: a client that follows next_cursor to    *)
(* the end has seen every run that was there when it began, however many   *)
(* jobs the pulls and the pipelines put before them meanwhile, and is cut  *)
(* off only where the offset may grow no further.                          *)
RunsSafe == RunsTypeOK /\ PagesMissNothing /\ RefusedOnlyAtTheEnd
=============================================================================

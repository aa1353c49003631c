----------------------------- MODULE MCSources -----------------------------
(***************************************************************************)
(* The job queue, and what stands at its head: the switch and the          *)
(* scheduler that ask for polls, the list of their runs, the feed of the   *)
(* news that were found, and the choice of the companies that an article   *)
(* is dispatched for.  They share no variable, so one run checks them all: *)
(* focus says which of them moves; of the feed, either the scoring loop    *)
(* moves on its own, with calls that fail, or loop and feed move together. *)
(***************************************************************************)
EXTENDS MCJobQueue, AutomaticIntake, IntakeRuns, NewsFeed, TenantDispatch

VARIABLE focus

\* Two articles of one source within a millisecond, and one of another
\* source with the content of the first.
TwoSources == <<"kompas", "tempo">>
ArticleSource == [a \in NewsArticles |-> IF a = 3 THEN "tempo" ELSE "kompas"]
SharedContent == [a \in NewsArticles |-> IF a = 3 THEN 1 ELSE a]
HalfMilliseconds == <<2, 3, 4>>

\* A bank, whose context has words of IT too, and a company of an evaluation
\* tenant: every way to start a host that claims jobs for them.
CompanyTenant == [c \in Customers |-> IF c = "c1" THEN "bank" ELSE "eval-x"]
CompanyWords == [c \in Customers |-> IF c = "c1" THEN {"it"} ELSE {"banking", "it"}]
IndustryOrder == <<"banking", "it">>
SomeEnvironments == [production : BOOLEAN, workers : {TRUE}, allowEval : BOOLEAN, budget : BOOLEAN,
                     listed : SUBSET Tenants, mode : {"off", "enforce"}]

aroundVars == <<intakeVars, runsVars, newsVars, dispatchVars>>

\* What does not move starts in one state.
SourcesInit ==
    /\ focus \in {"queue", "intake", "runs", "scoring", "feed", "dispatch"}
    /\ Init
    /\ IntakeInit /\ (focus # "intake" => desired = "unset")
    /\ RunsInit
    /\ focus # "runs" => /\ allowed = {}
                         /\ \A p \in Pulls : /\ pull[p].key = CHOOSE k \in PullKeys : TRUE
                                             /\ pull[p].channel = CHOOSE c \in Channels : TRUE
    /\ NewsInit
    /\ DispatchInit
    /\ focus # "dispatch" => /\ env = CHOOSE e \in Environments : TRUE
                             /\ \A j \in StageJobs : stageOf[j].tenant = CHOOSE t \in Tenants : TRUE

\* One component moves in a behaviour, from its start to its end.
MovesOnly(component) == focus = component /\ UNCHANGED focus

\* Requests are over some day; the queue never rests.
Rest == focus # "queue" /\ UNCHANGED <<focus, vars, aroundVars>>

SourcesNext ==
    \/ MovesOnly("queue") /\ Next /\ UNCHANGED aroundVars
    \/ MovesOnly("intake") /\ IntakeNext /\ UNCHANGED <<vars, runsVars, newsVars, dispatchVars>>
    \/ MovesOnly("runs") /\ RunsNext /\ UNCHANGED <<vars, intakeVars, newsVars, dispatchVars>>
    \/ MovesOnly("scoring") /\ NewsNext /\ UNCHANGED <<vars, intakeVars, runsVars, feed, dispatchVars>>
    \/ /\ MovesOnly("feed") /\ NewsNext
       /\ UNCHANGED <<vars, intakeVars, runsVars, horizon, failures, dispatchVars>>
    \/ MovesOnly("dispatch") /\ DispatchNext /\ UNCHANGED <<vars, intakeVars, runsVars, newsVars>>
    \/ Rest

SourcesSpec == SourcesInit /\ [][SourcesNext]_<<focus, vars, aroundVars>>

-----------------------------------------------------------------------------
(* What is pulled, and for whom.                                           *)

\* What an operator switched on is what runs, whatever requests, ticks and hosts
\* cross (IntakeSafe); its runs can be listed page by page without a gap while new
\* ones arrive (RunsSafe); and an article is dispatched for the companies that the
\* host's workers may work for, for each of them and nobody else (DispatchSafe).
PullsSafe == IntakeSafe /\ RunsSafe /\ DispatchSafe
=============================================================================

---------------------------- MODULE TenantDispatch ----------------------------
(***************************************************************************)
(* Whose work a host does.  Two filters are computed from one environment: *)
(* the worker policy says which jobs the host claims, and the company      *)
(* store says for which companies an article is dispatched.  In between,   *)
(* the dispatcher has the article scored for one industry and writes down  *)
(* whom that would have spared, which spares nobody.                       *)
(*                                                                         *)
(* A stage job is for one article; that it is leased to one run at a time  *)
(* is the business of JobQueue, and how often it is repeated of FanOut.    *)
(***************************************************************************)
EXTENDS Naturals, Sequences, FiniteSets

CONSTANTS Tenants,
          EvalTenants,      \* those whose id says that they are for evaluation
          Customers,        \* companies
          TenantOf,
          Words,            \* what the context of a company says: the industries whose words it has
          Named,            \* companies that the article names
          CATALOG,          \* the industries, the more specific first
          StageJobs,
          Environments      \* those under which a host may start

ASSUME TenantDispatchAssumption ==
    /\ EvalTenants \subseteq Tenants /\ TenantOf \in [Customers -> Tenants]
    /\ CATALOG \in Seq(STRING) /\ Words \in [Customers -> SUBSET {CATALOG[i] : i \in DOMAIN CATALOG}]
    /\ Named \subseteq Customers
    /\ \A e \in Environments :
          /\ e.production \in BOOLEAN /\ e.workers \in BOOLEAN
          /\ e.allowEval \in BOOLEAN /\ e.budget \in BOOLEAN
          /\ e.listed \subseteq Tenants /\ e.mode \in {"off", "shadow", "enforce"}

VARIABLES env,        \* what the host was started with
          policy,     \* of its workers: whose jobs it claims; nothing before it starts
          eligible,   \* active companies with a context in force and an identity for it
          stageOf,    \* per stage job: its tenant, and whether it is queued or done
          round,      \* per stage job: its run
          audit,      \* the row of ai.article_industry_decisions for the article
          started,    \* companies with a pipeline, and so with a job for T02
          ran         \* history: tenants a job of which was claimed

dispatchVars == <<env, policy, eligible, stageOf, round, audit, started, ran>>

\* Without a list, tenantIds is null.
Policy == [of : {"not started", "refused", "all", "list"}, tenants : SUBSET Tenants]
NotStarted == [of |-> "not started", tenants |-> {}]
Refused == [of |-> "refused", tenants |-> {}]
Unlisted == [of |-> "all", tenants |-> {}]

Admit == {"yes", "no", "null"}
Audit == [admit : Admit \cup {"no row"}, spared : SUBSET Customers, mapped : SUBSET Customers]
NoAudit == [admit |-> "no row", spared |-> {}, mapped |-> {}]
NoRound == [at |-> "idle", scopes |-> {}, admit |-> "null", left |-> {}]

DispatchTypeOK ==
    /\ env \in Environments
    /\ policy \in Policy
    /\ eligible \subseteq Customers
    /\ stageOf \in [StageJobs -> [tenant : Tenants, status : {"queued", "done"}]]
    /\ round \in [StageJobs -> [at : {"idle", "score", "persist", "serve"}, scopes : SUBSET Customers,
                                admit : Admit, left : SUBSET Customers]]
    /\ audit \in Audit
    /\ started \subseteq Customers /\ ran \subseteq Tenants

DispatchInit ==
    /\ env \in Environments
    /\ policy = NotStarted
    /\ eligible = Customers
    /\ stageOf \in [StageJobs -> [tenant : Tenants, status : {"queued"}]]
    /\ round = [j \in StageJobs |-> NoRound]
    /\ audit = NoAudit /\ started = {} /\ ran = {}

-----------------------------------------------------------------------------
(* The policy of the workers.                                              *)

IsEval(t) == t \in EvalTenants

\* Mutant: an allowlist of which the filter leaves nothing is as good as none.
LeftOver(e) ==
    LET tenantIds == {t \in e.listed : e.allowEval \/ ~IsEval(t)}
    IN  IF tenantIds # {} THEN [of |-> "list", tenants |-> tenantIds] ELSE Unlisted

\* resolveWorkerTenantPolicy
TenantIds(e) ==
    IF e.listed # {} \/ e.production
    THEN [of |-> "list", tenants |-> {t \in e.listed : e.allowEval \/ ~IsEval(t)}]
    ELSE Unlisted

PolicyRefuses(e) == e.workers /\ e.production /\ (e.listed = {} \/ ~e.budget)

StartHost ==
    /\ policy = NotStarted
    /\ policy' = IF PolicyRefuses(env) THEN Refused ELSE TenantIds(env)
    /\ UNCHANGED <<env, eligible, stageOf, round, audit, started, ran>>

\* claimNext: a list is taken as it is, and without one excludeEval counts.
Claims(t) ==
    /\ env.workers
    /\ \/ policy.of = "list" /\ t \in policy.tenants
       \/ policy.of = "all" /\ (env.allowEval \/ ~IsEval(t))

-----------------------------------------------------------------------------
(* The dispatcher.                                                         *)

\* Mutant: the store does not look at the list.
ScopeOfAll(t) == env.allowEval \/ ~IsEval(t)

\* scopeFilterFromEnv: of the list, what the filter leaves; none left is no list.
PassesTenantScope(t) ==
    LET allowlist == {u \in env.listed : env.allowEval \/ ~IsEval(u)}
    IN  (env.allowEval \/ ~IsEval(t)) /\ (allowlist # {} => t \in allowlist)

InScope == {c \in eligible : PassesTenantScope(TenantOf[c])}

\* The first industry of the catalog whose words the context has.
MapIndustry(c) ==
    LET hits == {i \in DOMAIN CATALOG : CATALOG[i] \in Words[c]}
    IN  IF hits = {} THEN "unmapped" ELSE CATALOG[CHOOSE i \in hits : \A k \in hits : i <= k]

BeginDispatch(j) ==
    /\ stageOf[j].status = "queued" /\ Claims(stageOf[j].tenant)
    /\ round[j].at = "idle"
    /\ ran' = ran \cup {stageOf[j].tenant}
    /\ round' = [round EXCEPT ![j] =
                    [@ EXCEPT !.at = IF env.mode = "off" THEN "serve" ELSE "score",
                              !.scopes = InScope, !.left = InScope]]
    /\ UNCHANGED <<env, policy, eligible, stageOf, audit, started>>

\* The scorer answers, or does not: then nothing is said.
ScoreArticle(j) ==
    /\ round[j].at = "score"
    /\ \E admit \in Admit :
          round' = [round EXCEPT ![j].at = "persist", ![j].admit = admit]
    /\ UNCHANGED <<env, policy, eligible, stageOf, audit, started, ran>>

ItMapped(scopes) == {c \in scopes : MapIndustry(c) = "it"}
WouldSkip(scopes, admit) == IF admit = "no" THEN ItMapped(scopes) \ Named ELSE {}

\* Mutant: the shadow is enforced.
ServeTheRest(j) == round[j].scopes \ WouldSkip(round[j].scopes, round[j].admit)

ToDispatch(j) == round[j].scopes

\* One row for an article, an industry and a model: the last one stays.  That
\* it could not be written is logged.
PersistScore(j) ==
    /\ round[j].at = "persist"
    /\ \/ audit' = [admit |-> round[j].admit, spared |-> WouldSkip(round[j].scopes, round[j].admit),
                    mapped |-> ItMapped(round[j].scopes)]
       \/ UNCHANGED audit
    /\ round' = [round EXCEPT ![j].at = "serve", ![j].left = ToDispatch(j)]
    /\ UNCHANGED <<env, policy, eligible, stageOf, started, ran>>

StartFor(j, c) ==
    /\ round[j].at = "serve" /\ c \in round[j].left
    /\ started' = started \cup {c}
    /\ round' = [round EXCEPT ![j].left = @ \ {c}]
    /\ UNCHANGED <<env, policy, eligible, stageOf, audit, ran>>

EndDispatch(j) ==
    /\ round[j].at = "serve" /\ round[j].left = {}
    /\ stageOf' = [stageOf EXCEPT ![j].status = "done"]
    /\ round' = [round EXCEPT ![j].at = "idle"]
    /\ UNCHANGED <<env, policy, eligible, audit, started, ran>>

\* The list of companies, a pipeline or a job cannot be had, or the host dies.
DispatchFails(j) ==
    /\ round[j].at # "idle"
    /\ round' = [round EXCEPT ![j] = NoRound]
    /\ UNCHANGED <<env, policy, eligible, stageOf, audit, started, ran>>

\* The pipeline of a company is taken up by this host.
RunTask(c) ==
    /\ c \in started /\ Claims(TenantOf[c])
    /\ ran' = ran \cup {TenantOf[c]}
    /\ UNCHANGED <<env, policy, eligible, stageOf, round, audit, started>>

\* A context is withdrawn, or an identity is not ready yet; or they are back.
EligibilityChanges(c) ==
    /\ eligible' = IF c \in eligible THEN eligible \ {c} ELSE eligible \cup {c}
    /\ UNCHANGED <<env, policy, stageOf, round, audit, started, ran>>

DispatchNext ==
    \/ StartHost
    \/ \E j \in StageJobs : \/ BeginDispatch(j) \/ ScoreArticle(j) \/ PersistScore(j)
                            \/ EndDispatch(j) \/ DispatchFails(j)
                            \/ \E c \in Customers : StartFor(j, c)
    \/ \E c \in Customers : RunTask(c) \/ EligibilityChanges(c)

DispatchSpec == DispatchInit /\ [][DispatchNext]_dispatchVars

-----------------------------------------------------------------------------
(* Properties.                                                             *)

\* Work for an evaluation tenant is done only if that is allowed, and where
\* there is a list, work is done for nobody else (worker-tenant-policy.js:7-11):
\* the claim takes the list of the policy without another look at it.
OnlyServedTenants ==
    \A t \in ran : /\ IsEval(t) => env.allowEval
                   /\ env.production \/ env.listed # {} => t \in env.listed

\* No production host works without a limit on what it spends.
SpendingIsLimited == ran # {} /\ env.production => env.budget

\* What is dispatched can run: the dispatcher, which filters companies, and the
\* workers, which filter jobs, agree on every tenant, though one takes an
\* allowlist of which nothing is left for "nobody" and the other for "no list".
DispatchedCanRun == \A c \in started : Claims(TenantOf[c])

\* The score is a shadow: who finished a dispatch that it entered as eligible has
\* a pipeline, whatever was scored, recorded or lost on the way.
NobodyIsSpared ==
    \A j \in StageJobs : stageOf[j].status = "done" => round[j].scopes \subseteq started

\* The safety of dispatching, part by part.
DispatchSafe ==
    /\ DispatchTypeOK
    /\ OnlyServedTenants
    /\ SpendingIsLimited
    /\ DispatchedCanRun
    /\ NobodyIsSpared
=============================================================================

---------------------------- MODULE SourceProofs ----------------------------
(***************************************************************************)
(* Theorems about what feeds the queue: the switch of the automatic intake *)
(* and its scheduler, the list of runs, the scoring loop and the feed of   *)
(* the news, and the dispatch to tenants; for any number of calls, ticks,  *)
(* servers, articles, hosts' environments, tenants and companies.          *)
(***************************************************************************)
EXTENDS MCSources, FiniteSetTheorems, WellFoundedInduction, TLAPS

-----------------------------------------------------------------------------
(* The dispatch to tenants.  Policy and filter are computed from one       *)
(* environment, which never changes, by two rules.                         *)

USE TenantDispatchAssumption

\* Whose policy is in force is what the host's environment says.
PolicyIsOfEnv ==
  policy = NotStarted \/ policy = Refused \/ (policy = TenantIds(env) /\ ~PolicyRefuses(env))

\* A dispatch under way was claimed, and is about companies that pass the filter;
\* whom it has left behind has a pipeline.
RoundHolds(j) ==
  /\ round[j].at # "idle" => Claims(stageOf[j].tenant)
  /\ \A c \in round[j].scopes \cup round[j].left : Claims(TenantOf[c])
  /\ round[j].at = "serve" => round[j].scopes \ round[j].left \subseteq started

DispatchInv ==
  /\ DispatchTypeOK /\ PolicyIsOfEnv
  /\ \A t \in ran : Claims(t)
  /\ DispatchedCanRun /\ NobodyIsSpared
  /\ \A j \in StageJobs : RoundHolds(j)

LEMMA ClaimsOfEnv ==
  ASSUME PolicyIsOfEnv, NEW t, Claims(t)
  PROVE  policy = TenantIds(env) /\ ~PolicyRefuses(env)
<1>1. policy.of \in {"list", "all"}
  BY DEF Claims
<1>2. NotStarted.of = "not started" /\ Refused.of = "refused"
  BY DEF NotStarted, Refused
<1>3. policy # NotStarted /\ policy # Refused
  BY <1>1, <1>2
<1>. QED
  BY <1>3 DEF PolicyIsOfEnv

\* Who passes the filter of the store can be claimed, if anybody can: an allowlist
\* of which nothing is left is no list to the store, and claims nothing.
LEMMA FilterIsClaimed ==
  ASSUME DispatchTypeOK, PolicyIsOfEnv, NEW t \in Tenants, NEW u \in Tenants, Claims(t), PassesTenantScope(u)
  PROVE  Claims(u)
<1>1. policy = TenantIds(env)
  BY ClaimsOfEnv
<1>2. CASE env.listed # {} \/ env.production
  <2>1. policy.of = "list" /\ policy.tenants = {v \in env.listed : env.allowEval \/ ~IsEval(v)}
    BY <1>1, <1>2 DEF TenantIds
  <2>2. policy.tenants # {}
    BY <2>1 DEF Claims
  <2>3. u \in policy.tenants
    BY <2>1, <2>2 DEF PassesTenantScope
  <2>. QED
    BY <2>1, <2>3 DEF Claims
<1>3. CASE ~(env.listed # {} \/ env.production)
  BY <1>1, <1>3 DEF TenantIds, Unlisted, PassesTenantScope, Claims
<1>. QED
  BY <1>2, <1>3

\* Claims depends on env and policy only.
LEMMA ClaimsKept ==
  ASSUME UNCHANGED <<env, policy>>, NEW t
  PROVE  Claims(t)' <=> Claims(t)
BY DEF Claims

LEMMA DispatchStart == DispatchInit => DispatchInv
<1>. SUFFICES ASSUME DispatchInit PROVE DispatchInv
  OBVIOUS
<1>1. DispatchTypeOK
  BY DEF DispatchInit, DispatchTypeOK, NotStarted, Policy, NoRound, NoAudit, Audit, Admit
<1>2. \A j \in StageJobs : RoundHolds(j) /\ stageOf[j].status = "queued"
  BY DEF DispatchInit, RoundHolds, NoRound
<1>. QED
  BY <1>1, <1>2 DEF DispatchInit, DispatchInv, PolicyIsOfEnv, DispatchedCanRun, NobodyIsSpared

LEMMA RoundFields ==
  ASSUME DispatchTypeOK, NEW j \in StageJobs
  PROVE  /\ round[j].at \in {"idle", "score", "persist", "serve"} /\ round[j].scopes \subseteq Customers
         /\ round[j].admit \in Admit /\ round[j].left \subseteq Customers
         /\ stageOf[j].tenant \in Tenants /\ stageOf[j].status \in {"queued", "done"}
BY DEF DispatchTypeOK

\* A step of one dispatch that leaves the policy alone: the others go on as they were.
LEMMA RoundMoves ==
  ASSUME DispatchInv, NEW j \in StageJobs,
         NEW r \in [at : {"idle", "score", "persist", "serve"}, scopes : SUBSET Customers,
                    admit : Admit, left : SUBSET Customers],
         round' = [round EXCEPT ![j] = r], UNCHANGED <<env, policy, eligible>>,
         stageOf' \in [StageJobs -> [tenant : Tenants, status : {"queued", "done"}]],
         \A k \in StageJobs : /\ stageOf'[k].tenant = stageOf[k].tenant
                              /\ k # j => stageOf'[k] = stageOf[k],
         audit' \in Audit, started \subseteq started', started' \subseteq Customers, ran' \subseteq Tenants,
         \A t \in ran' : Claims(t),
         \A c \in started' : Claims(TenantOf[c]),
         r.at # "idle" => Claims(stageOf[j].tenant),
         \A c \in r.scopes \cup r.left : Claims(TenantOf[c]),
         r.at = "serve" => r.scopes \ r.left \subseteq started',
         stageOf'[j].status = "done" => r.scopes \subseteq started'
  PROVE  DispatchInv'
<1>1. /\ round \in [StageJobs -> [at : {"idle", "score", "persist", "serve"}, scopes : SUBSET Customers,
                                  admit : Admit, left : SUBSET Customers]]
      /\ env \in Environments /\ policy \in Policy /\ eligible \subseteq Customers
  BY DEF DispatchInv, DispatchTypeOK
<1>2. DispatchTypeOK'
  BY <1>1 DEF DispatchTypeOK
<1>3. \A t : Claims(t)' <=> Claims(t)
  BY ClaimsKept
<1>4. PolicyIsOfEnv'
  BY DEF DispatchInv, PolicyIsOfEnv, TenantIds, PolicyRefuses
<1>5. \A k \in StageJobs : round'[k] = IF k = j THEN r ELSE round[k]
  BY <1>1
<1>6. ASSUME NEW k \in StageJobs PROVE RoundHolds(k)'
  <2>1. RoundHolds(k)
    BY DEF DispatchInv
  <2>. QED
    BY <1>3, <1>5, <2>1 DEF RoundHolds
<1>7. NobodyIsSpared'
  BY <1>5 DEF DispatchInv, NobodyIsSpared
<1>8. DispatchedCanRun'
  BY <1>3 DEF DispatchedCanRun
<1>. QED
  BY <1>2, <1>3, <1>4, <1>6, <1>7, <1>8 DEF DispatchInv

LEMMA DispatchStep == DispatchInv /\ [DispatchNext]_dispatchVars => DispatchInv'
<1>. SUFFICES ASSUME DispatchInv, [DispatchNext]_dispatchVars PROVE DispatchInv'
  OBVIOUS
<1>0. DispatchTypeOK /\ PolicyIsOfEnv
  BY DEF DispatchInv
<1>. DEFINE Round == [at : {"idle", "score", "persist", "serve"}, scopes : SUBSET Customers,
                      admit : Admit, left : SUBSET Customers]
<1>t. /\ round \in [StageJobs -> Round] /\ started \subseteq Customers /\ ran \subseteq Tenants
      /\ audit \in Audit /\ eligible \subseteq Customers /\ env \in Environments
      /\ stageOf \in [StageJobs -> [tenant : Tenants, status : {"queued", "done"}]]
      /\ TenantOf \in [Customers -> Tenants]
      /\ \A t \in ran : Claims(t)
      /\ \A c \in started : Claims(TenantOf[c])
  BY DEF DispatchInv, DispatchTypeOK, DispatchedCanRun
<1>1. CASE StartHost
  <2>1. ~(\E t : Claims(t))
    BY <1>1 DEF StartHost, Claims, NotStarted
  <2>2. ran = {} /\ started = {}
    BY <2>1, <1>t
  <2>3. \A j \in StageJobs : round[j].at = "idle" /\ round[j].scopes = {} /\ round[j].left = {}
    BY <2>1 DEF DispatchInv, RoundHolds
  <2>4. policy' \in Policy
    <3>1. \A e \in Environments : TenantIds(e) \in Policy
      BY DEF TenantIds, Policy, Unlisted
    <3>. QED
      BY <1>1, <1>t, <3>1 DEF StartHost, Policy, Refused
  <2>5. DispatchTypeOK'
    BY <1>1, <2>4, <1>0 DEF StartHost, DispatchTypeOK
  <2>6. PolicyIsOfEnv'
    BY <1>1 DEF StartHost, PolicyIsOfEnv, TenantIds, PolicyRefuses
  <2>7. \A j \in StageJobs : RoundHolds(j)'
    BY <1>1, <2>3 DEF StartHost, RoundHolds
  <2>8. DispatchedCanRun' /\ NobodyIsSpared'
    BY <1>1, <2>2, <2>3 DEF StartHost, DispatchedCanRun, NobodyIsSpared
  <2>. QED
    BY <1>1, <2>2, <2>5, <2>6, <2>7, <2>8 DEF StartHost, DispatchInv
<1>2. ASSUME NEW j \in StageJobs,
             \/ BeginDispatch(j) \/ ScoreArticle(j) \/ PersistScore(j) \/ EndDispatch(j) \/ DispatchFails(j)
             \/ \E c \in Customers : StartFor(j, c)
      PROVE  DispatchInv'
  <2>0. /\ RoundHolds(j) /\ round[j] \in Round /\ stageOf[j].tenant \in Tenants
        /\ stageOf[j].status = "done" => round[j].scopes \subseteq started
    BY <1>t DEF DispatchInv, NobodyIsSpared
  <2>1. CASE BeginDispatch(j)
    <3>. DEFINE r == [round[j] EXCEPT !.at = IF env.mode = "off" THEN "serve" ELSE "score",
                                      !.scopes = InScope, !.left = InScope]
    <3>1. InScope \subseteq Customers /\ \A c \in InScope : Claims(TenantOf[c])
      BY <2>1, <2>0, <1>0, <1>t, FilterIsClaimed DEF InScope, BeginDispatch
    <3>2. r \in Round /\ r.at \in {"serve", "score"} /\ r.scopes = InScope /\ r.left = InScope
      BY <2>0, <3>1
    <3>3. /\ round' = [round EXCEPT ![j] = r] /\ Claims(stageOf[j].tenant) /\ stageOf[j].status = "queued"
          /\ ran' = ran \cup {stageOf[j].tenant} /\ UNCHANGED <<env, policy, eligible, stageOf, audit, started>>
      BY <2>1 DEF BeginDispatch
    <3>. HIDE DEF r
    <3>. QED
      BY <1>t, <2>0, <3>1, <3>2, <3>3, RoundMoves
  <2>2. CASE ScoreArticle(j)
    <3>1. PICK admit \in Admit : round' = [round EXCEPT ![j].at = "persist", ![j].admit = admit]
      BY <2>2 DEF ScoreArticle
    <3>. DEFINE r == [round[j] EXCEPT !.at = "persist", !.admit = admit]
    <3>2. r \in Round /\ r.at = "persist" /\ r.scopes = round[j].scopes /\ r.left = round[j].left
      BY <2>0
    <3>3. /\ round' = [round EXCEPT ![j] = r] /\ round[j].at = "score"
          /\ UNCHANGED <<env, policy, eligible, stageOf, audit, started, ran>>
      BY <2>2, <3>1 DEF ScoreArticle
    <3>. HIDE DEF r
    <3>. QED
      BY <1>t, <2>0, <3>2, <3>3, RoundMoves DEF RoundHolds
  <2>3. CASE PersistScore(j)
    <3>. DEFINE r == [round[j] EXCEPT !.at = "serve", !.left = ToDispatch(j)]
    <3>1. r \in Round /\ r.at = "serve" /\ r.scopes = round[j].scopes /\ r.left = round[j].scopes
      BY <2>0 DEF ToDispatch
    <3>2. /\ round' = [round EXCEPT ![j] = r] /\ round[j].at = "persist"
          /\ UNCHANGED <<env, policy, eligible, stageOf, started, ran>>
      BY <2>3 DEF PersistScore
    <3>3. audit' \in Audit
      <4>1. \A scopes \in SUBSET Customers : \A admit :
               ItMapped(scopes) \subseteq Customers /\ WouldSkip(scopes, admit) \subseteq Customers
        BY DEF ItMapped, WouldSkip
      <4>2. round[j].scopes \in SUBSET Customers /\ round[j].admit \in Admit
        BY <2>0
      <4>. DEFINE spared == WouldSkip(round[j].scopes, round[j].admit)
                  mapped == ItMapped(round[j].scopes)
      <4>3. spared \subseteq Customers /\ mapped \subseteq Customers
        BY <4>1, <4>2
      <4>4. audit' = [admit |-> round[j].admit, spared |-> spared, mapped |-> mapped] \/ audit' = audit
        BY <2>3 DEF PersistScore
      <4>. HIDE DEF spared, mapped
      <4>5. CASE audit' = audit
        BY <4>5, <1>t
      <4>6. CASE audit' = [admit |-> round[j].admit, spared |-> spared, mapped |-> mapped]
        BY <4>2, <4>3, <4>6 DEF Audit
      <4>. QED
        BY <4>4, <4>5, <4>6
    <3>. HIDE DEF r
    <3>. QED
      BY <1>t, <2>0, <3>1, <3>2, <3>3, RoundMoves DEF RoundHolds
  <2>4. CASE EndDispatch(j)
    <3>. DEFINE r == [round[j] EXCEPT !.at = "idle"]
    <3>1. r \in Round /\ r.at = "idle" /\ r.scopes = round[j].scopes /\ r.left = round[j].left
      BY <2>0
    <3>2. /\ round' = [round EXCEPT ![j] = r] /\ round[j].at = "serve" /\ round[j].left = {}
          /\ UNCHANGED <<env, policy, eligible, audit, started, ran>>
      BY <2>4 DEF EndDispatch
    <3>3. /\ stageOf' \in [StageJobs -> [tenant : Tenants, status : {"queued", "done"}]]
          /\ \A k \in StageJobs : /\ stageOf'[k].tenant = stageOf[k].tenant
                                  /\ k # j => stageOf'[k] = stageOf[k]
      BY <2>4, <1>t DEF EndDispatch
    <3>. HIDE DEF r
    <3>. QED
      BY <1>t, <2>0, <3>1, <3>2, <3>3, RoundMoves DEF RoundHolds
  <2>5. CASE DispatchFails(j)
    <3>1. NoRound \in Round /\ NoRound.at = "idle" /\ NoRound.scopes = {} /\ NoRound.left = {}
      BY DEF NoRound, Admit
    <3>2. round' = [round EXCEPT ![j] = NoRound] /\ UNCHANGED <<env, policy, eligible, stageOf, audit, started, ran>>
      BY <2>5 DEF DispatchFails
    <3>. QED
      BY <1>t, <3>1, <3>2, RoundMoves
  <2>6. ASSUME NEW c \in Customers, StartFor(j, c) PROVE DispatchInv'
    <3>. DEFINE r == [round[j] EXCEPT !.left = @ \ {c}]
    <3>1. r \in Round /\ r.at = round[j].at /\ r.scopes = round[j].scopes /\ r.left = round[j].left \ {c}
      BY <2>0
    <3>2. /\ round' = [round EXCEPT ![j] = r] /\ round[j].at = "serve" /\ c \in round[j].left
          /\ started' = started \cup {c} /\ UNCHANGED <<env, policy, eligible, stageOf, audit, ran>>
      BY <2>6 DEF StartFor
    <3>. HIDE DEF r
    <3>. QED
      BY <1>t, <2>0, <3>1, <3>2, RoundMoves DEF RoundHolds
  <2>. QED
    BY <1>2, <2>1, <2>2, <2>3, <2>4, <2>5, <2>6
<1>3. ASSUME NEW c \in Customers, RunTask(c) \/ EligibilityChanges(c) PROVE DispatchInv'
  <2>1. /\ UNCHANGED <<env, policy, stageOf, round, audit, started>> /\ eligible' \subseteq Customers
        /\ ran' \subseteq Tenants /\ \A t \in ran' : Claims(t)
    BY <1>3, <1>t DEF RunTask, EligibilityChanges
  <2>2. \A t : Claims(t)' <=> Claims(t)
    BY <2>1, ClaimsKept
  <2>3. DispatchTypeOK'
    BY <2>1, <1>0 DEF DispatchTypeOK
  <2>4. PolicyIsOfEnv'
    BY <2>1, <1>0 DEF PolicyIsOfEnv, TenantIds, PolicyRefuses
  <2>5. \A j \in StageJobs : RoundHolds(j)'
    BY <2>1, <2>2 DEF DispatchInv, RoundHolds
  <2>6. DispatchedCanRun' /\ NobodyIsSpared'
    BY <2>1, <2>2 DEF DispatchInv, DispatchedCanRun, NobodyIsSpared
  <2>. QED
    BY <2>1, <2>2, <2>3, <2>4, <2>5, <2>6 DEF DispatchInv
<1>4. CASE UNCHANGED dispatchVars
  <2>1. UNCHANGED <<env, policy, eligible, stageOf, round, audit, started, ran>>
    BY <1>4 DEF dispatchVars
  <2>. QED
    BY <2>1 DEF DispatchInv, DispatchTypeOK, PolicyIsOfEnv, TenantIds, PolicyRefuses, Claims, RoundHolds,
                DispatchedCanRun, NobodyIsSpared
<1>. QED
  BY <1>1, <1>2, <1>3, <1>4 DEF DispatchNext

LEMMA DispatchInvIsSafe == DispatchInv => DispatchSafe
<1>. SUFFICES ASSUME DispatchInv PROVE DispatchSafe
  OBVIOUS
<1>1. ASSUME NEW t \in ran PROVE Claims(t) /\ policy = TenantIds(env) /\ ~PolicyRefuses(env)
  BY ClaimsOfEnv DEF DispatchInv
<1>2. OnlyServedTenants
  BY <1>1 DEF OnlyServedTenants, Claims, TenantIds, Unlisted
<1>3. SpendingIsLimited
  BY <1>1 DEF SpendingIsLimited, Claims, PolicyRefuses
<1>. QED
  BY <1>2, <1>3 DEF DispatchInv, DispatchSafe

\* Whatever a host was started with: it works for those it may work for, within a
\* budget in production, what it dispatches can be claimed, and the shadow of the
\* prefilter spares nobody (worker-tenant-policy.js, company-scope.js,
\* pipeline-stage-dispatcher.js).
THEOREM DispatchIsSafe == DispatchSpec => []DispatchSafe
BY DispatchStart, DispatchStep, DispatchInvIsSafe, PTL DEF DispatchSpec

-----------------------------------------------------------------------------
(* The automatic intake.                                                   *)

USE IntakeAssumption

Booting == {"booting", "seeding", "resolved"}

\* A call that is over is forgotten; those under way meet only where that is
\* recorded as contention; the boot hands on what is stored, and the one call
\* that has persisted what it wants has still to apply it.
OneAtATime == \A g, h \in Toggles : toggle[g] # NoToggle /\ toggle[h] # NoToggle => g = h
SwitchInv ==
  /\ IntakeTypeOK
  /\ \A g \in Toggles : toggle[g].at = "idle" => toggle[g] = NoToggle
  /\ server = "down" => toggle = AllIdle
  /\ ~contended /\ server \in Booting => toggle = AllIdle
  /\ ~contended /\ server = "resolved" => bootValue = desired
  /\ ~contended /\ server = "up" =>
       /\ OneAtATime
       /\ \A g \in Toggles : toggle[g].at = "apply" => desired = toggle[g].want
  /\ QuietAgrees

\* Where nobody is under way, everybody is idle.
LEMMA AllAreIdle ==
  ASSUME IntakeTypeOK
  PROVE  toggle = AllIdle <=> \A g \in Toggles : toggle[g] = NoToggle
BY DEF IntakeTypeOK, AllIdle

LEMMA SwitchStart == IntakeInit => SwitchInv
<1>. SUFFICES ASSUME IntakeInit PROVE SwitchInv
  OBVIOUS
<1>1. toggle = [g \in Toggles |-> NoToggle] /\ tick = [k \in Ticks |-> NoTick]
  BY DEF IntakeInit, AllIdle, NoTicks
<1>2. IntakeTypeOK
  <2>1. NoToggle \in [at : {"idle", "persist", "apply"}, want : Switch]
    BY DEF NoToggle, Switch
  <2>2. NoTick \in [at : {"idle", "list", "serve"}, todo : SUBSET Scopes]
    BY DEF NoTick
  <2>. QED
    BY <1>1, <2>1, <2>2 DEF IntakeInit, IntakeTypeOK, Switch
<1>. QED
  BY <1>1, <1>2 DEF IntakeInit, SwitchInv, QuietAgrees, Booting, AllIdle

\* Ticks and failed polls change nothing that the switch is about.
LEMMA TicksGoOn ==
  ASSUME SwitchInv, UNCHANGED <<desired, server, bootValue, running, toggle, contended>>, IntakeTypeOK'
  PROVE  SwitchInv'
BY DEF SwitchInv, OneAtATime, QuietAgrees

LEMMA SwitchStep == SwitchInv /\ [IntakeNext]_intakeVars => SwitchInv'
<1>. SUFFICES ASSUME SwitchInv, [IntakeNext]_intakeVars PROVE SwitchInv'
  OBVIOUS
<1>t. /\ IntakeTypeOK
      /\ toggle \in [Toggles -> [at : {"idle", "persist", "apply"}, want : Switch]]
      /\ tick \in [Ticks -> [at : {"idle", "list", "serve"}, todo : SUBSET Scopes]]
      /\ desired \in {"unset", "on", "off"} /\ bootValue \in {"on", "off"} /\ polled \subseteq Scopes
      /\ server \in {"down", "booting", "seeding", "resolved", "up", "stopping"}
      /\ running \in BOOLEAN /\ contended \in BOOLEAN
  BY DEF SwitchInv, IntakeTypeOK, Switch
<1>a. /\ AllIdle \in [Toggles -> [at : {"idle", "persist", "apply"}, want : Switch]]
      /\ NoTicks \in [Ticks -> [at : {"idle", "list", "serve"}, todo : SUBSET Scopes]]
      /\ \A g \in Toggles : AllIdle[g] = NoToggle
  BY DEF AllIdle, NoTicks, NoToggle, NoTick, Switch
<1>1. CASE Listen \/ ReadDesired \/ SeedDesired
  <2>1. IntakeTypeOK'
    BY <1>1, <1>t DEF Listen, ReadDesired, SeedDesired, IntakeTypeOK, Switch
  <2>. QED
    BY <1>1, <2>1, <1>t DEF Listen, ReadDesired, SeedDesired, SwitchInv, Booting, QuietAgrees
<1>2. CASE Launch
  <2>1. /\ server = "resolved" /\ server' = "up" /\ UNCHANGED <<desired, bootValue, toggle, tick, contended>>
        /\ running' = (bootValue = "on") /\ polled' \subseteq Scopes
    BY <1>2, <1>t DEF Launch, StartScheduler, StopScheduler
  <2>2. IntakeTypeOK'
    BY <2>1, <1>t DEF IntakeTypeOK, Switch
  <2>3. ~contended => toggle = AllIdle /\ bootValue = desired
    BY <2>1 DEF SwitchInv, Booting
  <2>4. QuietAgrees'
    BY <2>1, <2>3 DEF QuietAgrees
  <2>5. ~contended' => OneAtATime' /\ \A g \in Toggles : toggle'[g].at # "apply"
    BY <2>1, <2>3, <1>a DEF OneAtATime, NoToggle
  <2>6. \A g \in Toggles : toggle'[g].at = "idle" => toggle'[g] = NoToggle
    BY <2>1 DEF SwitchInv
  <2>. QED
    BY <2>1, <2>2, <2>4, <2>5, <2>6 DEF SwitchInv, Booting
<1>3. CASE BeginStop
  <2>1. IntakeTypeOK'
    BY <1>3, <1>t DEF BeginStop, StopScheduler, IntakeTypeOK, Switch
  <2>. QED
    BY <1>3, <2>1 DEF BeginStop, StopScheduler, SwitchInv, Booting, QuietAgrees
<1>4. CASE EndStop \/ ServerCrash
  <2>1. Gone
    BY <1>4 DEF EndStop, ServerCrash
  <2>2. IntakeTypeOK'
    BY <2>1, <1>t, <1>a DEF Gone, IntakeTypeOK, Switch
  <2>. QED
    BY <2>1, <2>2, <1>a DEF Gone, SwitchInv, Booting, QuietAgrees
<1>5. ASSUME NEW g \in Toggles, BeginToggle(g) PROVE SwitchInv'
  <2>1. PICK want \in Switch : toggle' = [toggle EXCEPT ![g] = [at |-> "persist", want |-> want]]
    BY <1>5 DEF BeginToggle
  <2>2. /\ server \in {"booting", "seeding", "resolved", "up"}
        /\ contended' = (contended \/ server # "up" \/ toggle # AllIdle)
        /\ UNCHANGED <<desired, server, bootValue, running, tick, polled>>
    BY <1>5 DEF BeginToggle
  <2>3. IntakeTypeOK'
    BY <2>1, <2>2, <1>t DEF IntakeTypeOK, Switch
  <2>4. /\ toggle'[g].at = "persist" /\ toggle'[g] # NoToggle
        /\ \A h \in Toggles \ {g} : toggle'[h] = toggle[h]
    BY <2>1, <1>t DEF NoToggle
  <2>5. toggle' # AllIdle
    BY <2>4, <1>a
  <2>6. ~contended' => server' = "up" /\ \A h \in Toggles \ {g} : toggle'[h] = NoToggle
    BY <2>2, <2>4, <1>a
  <2>7. \A h \in Toggles : toggle'[h].at = "idle" => toggle'[h] = NoToggle
    BY <2>4 DEF SwitchInv
  <2>8. ~contended' => OneAtATime' /\ \A h \in Toggles : toggle'[h].at # "apply"
    BY <2>4, <2>6 DEF OneAtATime, NoToggle
  <2>. QED
    BY <2>2, <2>3, <2>5, <2>6, <2>7, <2>8 DEF SwitchInv, Booting, QuietAgrees
<1>6. ASSUME NEW g \in Toggles, Persist(g) PROVE SwitchInv'
  <2>1. /\ toggle[g].at = "persist" /\ desired' = toggle[g].want
        /\ toggle' = [toggle EXCEPT ![g].at = "apply"]
        /\ UNCHANGED <<server, bootValue, running, tick, polled, contended>>
    BY <1>6 DEF Persist
  <2>2. IntakeTypeOK'
    BY <2>1, <1>t DEF IntakeTypeOK, Switch
  <2>3. /\ toggle'[g].at = "apply" /\ toggle'[g].want = toggle[g].want /\ toggle[g] # NoToggle
        /\ toggle'[g] # NoToggle /\ \A h \in Toggles \ {g} : toggle'[h] = toggle[h]
    BY <2>1, <1>t DEF NoToggle
  <2>4. toggle # AllIdle /\ toggle' # AllIdle
    BY <2>3, <1>a
  <2>5. ~contended /\ server = "up" => OneAtATime' /\ \A h \in Toggles \ {g} : toggle'[h] = NoToggle
    BY <2>3 DEF SwitchInv, OneAtATime
  <2>6. \A h \in Toggles : toggle'[h].at = "idle" => toggle'[h] = NoToggle
    BY <2>3 DEF SwitchInv
  <2>7. ~contended /\ server = "up" => \A h \in Toggles : toggle'[h].at = "apply" => desired' = toggle'[h].want
    BY <2>1, <2>3, <2>5 DEF NoToggle
  <2>8. ~contended => server \notin Booting /\ server # "down"
    BY <2>4 DEF SwitchInv
  <2>. QED
    BY <2>1, <2>2, <2>4, <2>5, <2>6, <2>7, <2>8 DEF SwitchInv, Booting, QuietAgrees
<1>7. ASSUME NEW g \in Toggles, PersistFails(g) PROVE SwitchInv'
  <2>1. /\ toggle[g].at = "persist" /\ desired' \in {desired, toggle[g].want} /\ contended' = TRUE
        /\ toggle' = [toggle EXCEPT ![g] = NoToggle]
        /\ UNCHANGED <<server, bootValue, running, tick, polled>>
    BY <1>7 DEF PersistFails
  <2>2. NoToggle \in [at : {"idle", "persist", "apply"}, want : Switch]
    BY DEF NoToggle, Switch
  <2>3. IntakeTypeOK'
    BY <2>1, <2>2, <1>t DEF IntakeTypeOK, Switch
  <2>4. toggle'[g] = NoToggle /\ \A h \in Toggles \ {g} : toggle'[h] = toggle[h]
    BY <2>1, <1>t
  <2>5. server = "down" => toggle' = AllIdle
    BY <2>3, <2>4, AllAreIdle, <1>a, <2>1 DEF SwitchInv, IntakeTypeOK, AllIdle
  <2>. QED
    BY <2>1, <2>3, <2>4, <2>5 DEF SwitchInv, QuietAgrees
<1>8. ASSUME NEW g \in Toggles, ApplyToScheduler(g) PROVE SwitchInv'
  <2>1. /\ toggle[g].at = "apply" /\ toggle' = [toggle EXCEPT ![g] = NoToggle]
        /\ UNCHANGED <<desired, server, bootValue, tick, contended>>
        /\ running' \in BOOLEAN /\ polled' \subseteq Scopes
        /\ server = "up" => running' = (toggle[g].want = "on")
    BY <1>8, <1>t DEF ApplyToScheduler, StartScheduler, StopScheduler
  <2>2. NoToggle \in [at : {"idle", "persist", "apply"}, want : Switch]
    BY DEF NoToggle, Switch
  <2>3. IntakeTypeOK'
    BY <2>1, <2>2, <1>t DEF IntakeTypeOK, Switch
  <2>4. /\ toggle'[g] = NoToggle /\ toggle[g] # NoToggle
        /\ \A h \in Toggles \ {g} : toggle'[h] = toggle[h]
    BY <2>1, <1>t DEF NoToggle
  <2>5. toggle # AllIdle
    BY <2>4, <1>a
  <2>6. server # "down" /\ (~contended => server \notin Booting)
    BY <2>5 DEF SwitchInv
  <2>7. \A h \in Toggles : toggle'[h].at = "idle" => toggle'[h] = NoToggle
    BY <2>4 DEF SwitchInv
  <2>8. ~contended /\ server = "up" => OneAtATime' /\ \A h \in Toggles : toggle'[h] = NoToggle
    BY <2>4 DEF SwitchInv, OneAtATime
  <2>9. ~contended /\ server = "up" => desired = toggle[g].want
    BY <2>1 DEF SwitchInv
  <2>10. QuietAgrees'
    BY <2>1, <2>9 DEF QuietAgrees
  <2>. QED
    BY <2>1, <2>3, <2>6, <2>7, <2>8, <2>10 DEF SwitchInv, NoToggle
<1>9. ASSUME NEW k \in Ticks, TickStep(k) PROVE SwitchInv'
  <2>1. /\ UNCHANGED <<desired, server, bootValue, running, toggle, contended>>
        /\ polled' \subseteq Scopes
        /\ tick' \in [Ticks -> [at : {"idle", "list", "serve"}, todo : SUBSET Scopes]]
    BY <1>9, <1>t DEF TickStep, BeginTick, ListEligible, ListFails, EnqueuePoll, EndTick, AfterScope, NoTick
  <2>2. IntakeTypeOK'
    BY <2>1, <1>t DEF IntakeTypeOK, Switch
  <2>. QED
    BY <2>1, <2>2, TicksGoOn
<1>10. CASE UNCHANGED intakeVars
  <2>1. IntakeTypeOK'
    BY <1>10, <1>t DEF intakeVars, IntakeTypeOK
  <2>. QED
    BY <1>10, <2>1, TicksGoOn DEF intakeVars
<1>. QED
  BY <1>1, <1>2, <1>3, <1>4, <1>5, <1>6, <1>7, <1>8, <1>9, <1>10 DEF IntakeNext

\* What an operator switched on is what runs, on a server that has come to rest,
\* if the calls came one at a time and succeeded, through any number of crashes and
\* ticks (automatic-intake.controller.js, scheduler.js, server.js).
THEOREM IntakeIsSafe == IntakeSpec => []IntakeSafe
<1>1. SwitchInv => IntakeSafe
  BY DEF SwitchInv, IntakeSafe
<1>. QED
  BY <1>1, SwitchStart, SwitchStep, PTL DEF IntakeSpec

-----------------------------------------------------------------------------
(* The list of runs.  A run keeps its number, and new ones come before all *)
(* others: its position in a list only grows.                              *)

USE RunsAssumption

Upto(j, s) == {k \in s : k.id >= j.id}

\* A set of jobs that a query lists: known by their numbers.
Listing(s) == IsFiniteSet(s) /\ \A j, k \in s : j.id \in Nat /\ (j.id = k.id => j = k)

LEMMA Positions ==
  ASSUME NEW s, Listing(s), NEW j \in s
  PROVE  /\ Position(j, s) = Cardinality(Upto(j, s)) /\ Position(j, s) \in Nat \ {0}
         /\ IsFiniteSet(Upto(j, s)) /\ Upto(j, s) \subseteq s /\ Position(j, s) <= Cardinality(s)
<1>1. Upto(j, s) \subseteq s /\ IsFiniteSet(Upto(j, s)) /\ j \in Upto(j, s)
  BY FS_Subset DEF Upto, Listing
<1>2. Cardinality(Upto(j, s)) \in Nat /\ Cardinality(Upto(j, s)) # 0
  BY <1>1, FS_CardinalityType, FS_EmptySet
<1>3. Cardinality(Upto(j, s)) <= Cardinality(s)
  BY <1>1, FS_Subset DEF Listing
<1>. QED
  BY <1>1, <1>2, <1>3 DEF Position, Upto

\* In a longer list a run comes no earlier.
LEMMA PositionsGrow ==
  ASSUME NEW s, NEW t, Listing(t), s \subseteq t, NEW j \in s
  PROVE  Position(j, s) <= Position(j, t)
<1>1. Upto(j, s) \subseteq Upto(j, t) /\ IsFiniteSet(Upto(j, t))
  <2>1. Upto(j, s) \subseteq Upto(j, t)
    BY DEF Upto
  <2>2. j \in t
    OBVIOUS
  <2>. QED
    BY <2>1, <2>2, Positions
<1>2. Cardinality(Upto(j, s)) <= Cardinality(Upto(j, t))
  BY <1>1, FS_Subset
<1>. QED
  BY <1>2 DEF Position, Upto

\* The run before: one position less.
LEMMA NextNewer ==
  ASSUME NEW s, Listing(s), NEW j \in s, Position(j, s) > 1
  PROVE  \E k \in s : Position(k, s) = Position(j, s) - 1
<1>. DEFINE newer == {i.id : i \in Upto(j, s) \ {j}}
<1>1. newer \subseteq Nat
  BY DEF Upto, Listing
<1>2. newer # {}
  <2>1. ASSUME Upto(j, s) \ {j} = {} PROVE FALSE
    <3>1. Upto(j, s) = {j}
      BY <2>1 DEF Upto, Listing
    <3>2. Cardinality(Upto(j, s)) = 1
      BY <3>1, FS_Singleton
    <3>. QED
      BY <3>2, Positions
  <2>2. \E i \in Upto(j, s) \ {j} : i.id \in newer
    BY ONLY <2>1
  <2>. QED
    BY ONLY <2>2
<1>3. PICK m \in newer : \A y \in newer : ~(<<y, m>> \in OpToRel(<, Nat))
  <2>. HIDE DEF newer
  <2>. QED
    BY <1>1, <1>2, NatLessThanWellFounded, WFMin
<1>4. \A y \in newer : ~(y < m)
  BY <1>1, <1>3 DEF OpToRel
<1>5. PICK k \in Upto(j, s) \ {j} : k.id = m
  OBVIOUS
<1>6. \A i \in Upto(j, s) \ {j} : i.id >= k.id
  <2>1. \A i \in Upto(j, s) \ {j} : ~(i.id < k.id) /\ i.id \in Nat /\ k.id \in Nat
    BY <1>1, <1>4, <1>5
  <2>. QED
    BY <2>1
<1>7. Upto(k, s) = Upto(j, s) \ {j}
  <2>1. k \in s /\ k.id \in Nat /\ j.id \in Nat /\ k.id > j.id
    BY <1>5 DEF Upto, Listing
  <2>2. ASSUME NEW i \in s PROVE i \in Upto(k, s) <=> i \in Upto(j, s) \ {j}
    <3>1. i.id \in Nat
      BY DEF Listing
    <3>. QED
      BY <1>6, <2>1, <3>1 DEF Upto
  <2>. QED
    BY <2>2 DEF Upto
<1>8. Cardinality(Upto(k, s)) = Cardinality(Upto(j, s)) - 1
  <2>1. j \in Upto(j, s)
    BY DEF Upto, Listing
  <2>. QED
    BY <1>7, <2>1, Positions, FS_RemoveElement
<1>9. k \in s
  BY <1>5 DEF Upto
<1>. QED
  BY <1>8, <1>9, Positions

\* A list has no gaps.
LEMMA NoGaps ==
  ASSUME NEW s, Listing(s), NEW j \in s, NEW n \in Nat \ {0}, n <= Position(j, s)
  PROVE  \E k \in s : Position(k, s) = n
<1>. DEFINE behind == {p \in Nat : p >= n /\ \E k \in s : Position(k, s) = p}
<1>1. Position(j, s) \in behind
  BY Positions
<1>2. PICK m \in behind : \A y \in behind : ~(<<y, m>> \in OpToRel(<, Nat))
  <2>1. behind \subseteq Nat /\ behind # {}
    BY <1>1
  <2>. HIDE DEF behind
  <2>. QED
    BY <2>1, NatLessThanWellFounded, WFMin
<1>3. \A y \in behind : ~(y < m)
  BY <1>2 DEF OpToRel
<1>4. m \in Nat /\ m >= n /\ \E k \in s : Position(k, s) = m
  BY <1>2
<1>5. ASSUME NEW p \in Nat, p >= n, NEW k \in s, Position(k, s) = p PROVE ~(p < m)
  <2>1. p \in behind
    BY <1>5
  <2>. QED
    BY <1>3, <2>1
<1>. HIDE DEF behind
<1>6. PICK k \in s : Position(k, s) = m
  BY <1>4
<1>7. ASSUME m > n PROVE FALSE
  <2>1. Position(k, s) > 1 /\ m - 1 \in Nat /\ m - 1 >= n
    BY <1>4, <1>6, <1>7
  <2>2. PICK i \in s : Position(i, s) = Position(k, s) - 1
    BY <2>1, NextNewer
  <2>3. ~(m - 1 < m)
    BY <1>5, <1>6, <2>1, <2>2
  <2>. QED
    BY <1>4, <2>3
<1>. QED
  BY <1>4, <1>6, <1>7

\* What is newer comes first.
LEMMA NewestFirst ==
  ASSUME NEW s, Listing(s), NEW j \in s, NEW k \in s
  PROVE  Position(j, s) <= Position(k, s) <=> j.id >= k.id
<1>0. j.id \in Nat /\ k.id \in Nat /\ \A i \in s : i.id \in Nat
  BY DEF Listing
<1>1. CASE j.id >= k.id
  <2>1. Upto(j, s) \subseteq Upto(k, s)
    BY <1>0, <1>1 DEF Upto
  <2>2. Cardinality(Upto(j, s)) <= Cardinality(Upto(k, s))
    BY <2>1, Positions, FS_Subset
  <2>. QED
    BY <1>1, <2>2, Positions
<1>2. CASE j.id < k.id
  <2>1. Upto(k, s) \subseteq Upto(j, s) \ {j} /\ j \in Upto(j, s)
    BY <1>0, <1>2 DEF Upto
  <2>2. /\ IsFiniteSet(Upto(j, s) \ {j})
        /\ Cardinality(Upto(j, s) \ {j}) = Cardinality(Upto(j, s)) - 1
    BY <2>1, Positions, FS_RemoveElement
  <2>3. Cardinality(Upto(k, s)) <= Cardinality(Upto(j, s)) - 1
    BY <2>1, <2>2, FS_Subset
  <2>. QED
    BY <1>0, <1>2, <2>3, Positions
<1>. QED
  BY <1>0, <1>1, <1>2

\* A page that ends with a run holds what lies between.
Between(s, o, p) == {k \in s : Position(k, s) > o /\ Position(k, s) <= p}
LEMMA PagesAreFull ==
  ASSUME NEW s, Listing(s), NEW j \in s, NEW o \in Nat, o < Position(j, s)
  PROVE  Cardinality(Between(s, o, Position(j, s))) = Position(j, s) - o
<1>1. /\ \A k \in s : Position(k, s) \in Nat \ {0} /\ (k \in Upto(j, s) <=> Position(k, s) <= Position(j, s))
      /\ Upto(j, s) \subseteq s
  <2>1. ASSUME NEW k \in s
        PROVE  Position(k, s) \in Nat \ {0} /\ (k \in Upto(j, s) <=> Position(k, s) <= Position(j, s))
    BY Positions, NewestFirst DEF Upto
  <2>. QED
    BY <2>1 DEF Upto
<1>2. CASE o = 0
  <2>1. Between(s, o, Position(j, s)) = Upto(j, s)
    BY <1>1, <1>2 DEF Between
  <2>. QED
    BY <1>2, <2>1, Positions
<1>3. CASE o # 0
  <2>1. PICK i \in s : Position(i, s) = o
    BY <1>3, NoGaps, Positions
  <2>2. /\ \A k \in s : k \in Upto(i, s) <=> Position(k, s) <= o
        /\ Upto(i, s) \subseteq s
    BY <2>1, NewestFirst DEF Upto
  <2>3. Between(s, o, Position(j, s)) = Upto(j, s) \ Upto(i, s)
    BY <1>1, <2>2 DEF Between
  <2>4. Upto(j, s) \cap Upto(i, s) = Upto(i, s)
    <3>1. \A k \in Upto(i, s) : k \in s /\ Position(k, s) <= o
      BY <2>2
    <3>2. \A k \in Upto(i, s) : Position(k, s) <= Position(j, s)
      BY <1>1, <3>1, Positions
    <3>. QED
      BY <1>1, <2>2, <3>2
  <2>5. Cardinality(Upto(j, s) \ Upto(i, s)) = Cardinality(Upto(j, s)) - Cardinality(Upto(i, s))
    <3>1. IsFiniteSet(Upto(j, s))
      BY Positions
    <3>. QED
      BY <2>4, <3>1, FS_Difference
  <2>. QED
    BY <2>1, <2>3, <2>5, Positions
<1>. QED
  BY <1>2, <1>3

\* What one fetch learns: whether there are more, and the page itself.
LEMMA FetchedOneMore ==
  ASSUME NEW s, Listing(s), NEW o \in Nat, NEW fetched, fetched = Rows(s, PageLimit + 1, o)
  PROVE  /\ (\E j \in s : Position(j, s) > o + PageLimit) => HasMore(fetched)
         /\ HasMore(fetched) => Cardinality(s) > o + PageLimit
         /\ PageOf(fetched) = {j \in s : Position(j, s) > o /\ Position(j, s) <= o + PageLimit}
<1>0. /\ PageLimit \in Nat \ {0} /\ \A j \in s : Position(j, s) \in Nat \ {0}
      /\ IsFiniteSet(s) /\ \A j \in s : j.id \in Nat
  BY Positions DEF Listing
<1>1. fetched = Between(s, o, o + PageLimit + 1) /\ fetched \subseteq s
  BY <1>0 DEF Rows, Between
<1>2. IsFiniteSet(fetched) /\ Cardinality(fetched) \in Nat /\ Cardinality(s) \in Nat
      /\ Cardinality(fetched) <= Cardinality(s)
  BY <1>0, <1>1, FS_Subset, FS_CardinalityType
<1>3. ASSUME NEW j \in s, Position(j, s) > o + PageLimit PROVE HasMore(fetched)
  <2>1. PICK k \in s : Position(k, s) = o + PageLimit + 1
    <3>1. o + PageLimit + 1 \in Nat \ {0} /\ o + PageLimit + 1 <= Position(j, s)
      BY <1>0, <1>3
    <3>. QED
      BY <3>1, NoGaps
  <2>2. Cardinality(Between(s, o, Position(k, s))) = Position(k, s) - o
    BY <1>0, <2>1, PagesAreFull
  <2>. QED
    BY <1>0, <1>1, <2>1, <2>2 DEF HasMore
<1>4. ASSUME HasMore(fetched) PROVE Cardinality(s) > o + PageLimit
  <2>1. Cardinality(fetched) > PageLimit
    BY <1>4 DEF HasMore
  <2>2. CASE o = 0
    BY <1>0, <1>2, <2>1, <2>2
  <2>3. CASE o # 0
    <3>1. PICK j \in fetched : TRUE
      BY <1>0, <1>2, <2>1, FS_EmptySet
    <3>2. j \in s /\ o <= Position(j, s)
      BY <1>0, <1>1 DEF Between
    <3>3. PICK i \in s : Position(i, s) = o
      BY <2>3, <3>2, NoGaps
    <3>4. \A k \in Upto(i, s) : k \in s /\ Position(k, s) <= o
      BY <3>3, NewestFirst DEF Upto
    <3>5. Upto(i, s) \cap fetched = {} /\ Upto(i, s) \cup fetched \subseteq s
      <4>1. \A k \in fetched : k \in s /\ Position(k, s) > o /\ Position(k, s) \in Nat
        BY <1>0, <1>1 DEF Between
      <4>2. \A k \in Upto(i, s) : k \notin fetched
        BY <3>4, <4>1
      <4>. QED
        BY <3>4, <4>1, <4>2
    <3>6. Cardinality(Upto(i, s) \cup fetched) = Cardinality(Upto(i, s)) + Cardinality(fetched) - Cardinality({})
      BY <1>2, <3>5, Positions, FS_Union
    <3>7. Cardinality(Upto(i, s) \cup fetched) <= Cardinality(s)
      BY <1>0, <3>5, FS_Subset
    <3>8. Cardinality(Upto(i, s)) = o /\ Cardinality({}) = 0
      BY <3>3, Positions, FS_EmptySet
    <3>9. Cardinality(Upto(i, s) \cup fetched) = o + Cardinality(fetched)
      BY <1>2, <3>6, <3>8
    <3>. QED
      BY <1>0, <1>2, <2>1, <3>7, <3>9
  <2>. QED
    BY <2>2, <2>3
<1>5. ASSUME NEW j \in fetched PROVE Position(j, fetched) = Position(j, s) - o /\ j \in s /\ Position(j, s) \in Nat
  <2>1. j \in s /\ Position(j, s) \in Nat /\ o < Position(j, s) /\ Position(j, s) <= o + PageLimit + 1
    BY <1>0, <1>1 DEF Between
  <2>2. {k \in fetched : k.id >= j.id} = Between(s, o, Position(j, s))
    <3>1. ASSUME NEW k \in s
          PROVE  k \in fetched /\ k.id >= j.id <=> k \in Between(s, o, Position(j, s))
      <4>1. k.id >= j.id <=> Position(k, s) <= Position(j, s)
        BY <2>1, NewestFirst
      <4>2. Position(k, s) \in Nat
        BY <1>0
      <4>. QED
        BY <1>0, <1>1, <2>1, <4>1, <4>2 DEF Between
    <3>. QED
      BY <1>1, <3>1 DEF Between
  <2>3. Cardinality(Between(s, o, Position(j, s))) = Position(j, s) - o
    BY <2>1, PagesAreFull
  <2>. QED
    BY <2>1, <2>2, <2>3 DEF Position
<1>6. PageOf(fetched) = {j \in s : Position(j, s) > o /\ Position(j, s) <= o + PageLimit}
  <2>. DEFINE page == {j \in s : Position(j, s) > o /\ Position(j, s) <= o + PageLimit}
  <2>1. PageOf(fetched) = {j \in fetched : Position(j, fetched) \in 1 .. PageLimit}
    BY <1>0 DEF PageOf, Rows
  <2>2. \A j \in fetched : Position(j, fetched) \in 1 .. PageLimit <=> j \in page
    <3>1. ASSUME NEW j \in fetched PROVE Position(j, fetched) \in 1 .. PageLimit <=> j \in page
      <4>1. Position(j, fetched) = Position(j, s) - o /\ j \in s /\ Position(j, s) \in Nat
        BY <1>5
      <4>. QED
        BY <1>0, <4>1
    <3>. QED
      BY <3>1
  <2>3. page \subseteq fetched
    BY <1>0, <1>1 DEF Between
  <2>. HIDE DEF page
  <2>4. PageOf(fetched) = page
    BY <2>1, <2>2, <2>3
  <2>. QED
    BY <2>4 DEF page
<1>. QED
  BY <1>3, <1>4, <1>6

\* Runs are numbered as they come; who reads has seen, or has still before it,
\* all that was there when it began.
AheadOf(j) == Position(j, ListedRuns(reader.ai)) > reader.offset
NumberedRuns ==
  /\ IsFiniteSet(runs) /\ Cardinality(runs) \in 0 .. MaxRuns
  /\ \A j \in runs : j.id \in 1 .. Cardinality(runs)
  /\ \A j, k \in runs : j.id = k.id => j = k
RunsInv ==
  /\ RunsTypeOK /\ NumberedRuns
  /\ reader.at = "page" =>
       \A i \in reader.goal \ reader.seen : \E j \in ListedRuns(reader.ai) : j.id = i /\ AheadOf(j)
  /\ PagesMissNothing /\ RefusedOnlyAtTheEnd

Reader == [at : {"idle", "page", "done", "refused"}, ai : BOOLEAN, offset : Nat,
           goal : SUBSET (1 .. MaxRuns), seen : SUBSET (1 .. MaxRuns)]

LEMMA RunsFields ==
  ASSUME RunsInv
  PROVE  /\ runs \subseteq Job /\ reader \in Reader /\ allowed \subseteq Channels
         /\ IsFiniteSet(runs) /\ Cardinality(runs) \in 0 .. MaxRuns
         /\ \A ai : Listing(ListedRuns(ai)) /\ ListedRuns(ai) \subseteq runs /\ Ids(ListedRuns(ai)) \subseteq 1 .. MaxRuns
<1>1. runs \subseteq Job /\ reader \in Reader /\ allowed \subseteq Channels /\ NumberedRuns
  BY DEF RunsInv, RunsTypeOK, Reader
<1>2. ASSUME NEW ai
      PROVE  Listing(ListedRuns(ai)) /\ ListedRuns(ai) \subseteq runs /\ Ids(ListedRuns(ai)) \subseteq 1 .. MaxRuns
  <2>1. ListedRuns(ai) \subseteq runs /\ IsFiniteSet(ListedRuns(ai))
    BY <1>1, FS_Subset DEF ListedRuns, NumberedRuns
  <2>2. Ids(ListedRuns(ai)) \subseteq 1 .. MaxRuns
    BY <1>1, <2>1 DEF Ids, Job
  <2>. QED
    BY <1>1, <2>1, <2>2 DEF Listing, NumberedRuns
<1>. QED
  BY <1>1, <1>2 DEF NumberedRuns

LEMMA RunsStart == RunsInit => RunsInv
<1>. SUFFICES ASSUME RunsInit PROVE RunsInv
  OBVIOUS
<1>1. RunsTypeOK
  BY DEF RunsInit, RunsTypeOK, Job
<1>2. NumberedRuns
  BY FS_EmptySet DEF RunsInit, NumberedRuns
<1>. QED
  BY <1>1, <1>2 DEF RunsInit, RunsInv, PagesMissNothing, RefusedOnlyAtTheEnd

\* Nothing is listed that is not there, and the reader stays where it is.
LEMMA RunsGoOn ==
  ASSUME RunsInv, UNCHANGED <<runs, reader>>, allowed' \subseteq Channels,
         pull' \in [Pulls -> [at : {"idle", "tenant", "ready", "enqueue"}, key : PullKeys, channel : Channels]]
  PROVE  RunsInv'
<1>1. RunsTypeOK'
  BY DEF RunsInv, RunsTypeOK
<1>. QED
  BY <1>1 DEF RunsInv, NumberedRuns, AheadOf, ListedRuns, PagesMissNothing, RefusedOnlyAtTheEnd

\* A run comes before all others.
LEMMA RunsGrow ==
  ASSUME RunsInv, NEW family \in Family, NEW key \in PullKeys \cup {NoKey}, NewRun(family, key),
         UNCHANGED <<reader, allowed>>,
         pull' \in [Pulls -> [at : {"idle", "tenant", "ready", "enqueue"}, key : PullKeys, channel : Channels]]
  PROVE  RunsInv'
<1>. DEFINE job == [id |-> Cardinality(runs) + 1, family |-> family, key |-> key]
<1>0. /\ IsFiniteSet(runs) /\ Cardinality(runs) \in Nat /\ Cardinality(runs) < MaxRuns /\ MaxRuns \in Nat
      /\ runs' = runs \cup {job} /\ runs \subseteq Job
      /\ \A j \in runs : j.id \in 1 .. Cardinality(runs)
      /\ \A j, k \in runs : j.id = k.id => j = k
      /\ reader \in Reader
  BY RunsFields DEF NewRun, RunsInv, NumberedRuns
<1>1. job \in Job /\ job.id = Cardinality(runs) + 1 /\ job.family = family
  BY <1>0 DEF Job
<1>. HIDE DEF job
<1>2. job \notin runs
  BY <1>0, <1>1
<1>3. IsFiniteSet(runs') /\ Cardinality(runs') = Cardinality(runs) + 1
  BY <1>0, <1>2, FS_AddElement
<1>4. NumberedRuns'
  <2>1. \A j \in runs' : j.id \in 1 .. Cardinality(runs')
    BY <1>0, <1>1, <1>3
  <2>2. ASSUME NEW j \in runs', NEW k \in runs', j.id = k.id PROVE j = k
    <3>1. \A i \in runs : i.id # job.id
      BY <1>0, <1>1
    <3>. QED
      BY <1>0, <2>2, <3>1
  <2>3. Cardinality(runs') \in 0 .. MaxRuns
    BY <1>0, <1>3
  <2>. QED
    BY <1>3, <2>1, <2>2, <2>3 DEF NumberedRuns
<1>5. RunsTypeOK'
  BY <1>0, <1>1 DEF RunsInv, RunsTypeOK
<1>. DEFINE before == ListedRuns(reader.ai)
            after == ListedRuns(reader.ai)'
<1>6. before \subseteq after /\ Listing(before) /\ Listing(after) /\ after \subseteq runs'
  <2>1. before \subseteq after /\ after \subseteq runs'
    BY <1>0 DEF ListedRuns
  <2>2. IsFiniteSet(after)
    BY <1>3, <2>1, FS_Subset
  <2>3. \A j, k \in after : j.id \in Nat /\ (j.id = k.id => j = k)
    BY <1>4, <2>1 DEF NumberedRuns
  <2>. QED
    BY <2>1, <2>2, <2>3, RunsFields DEF Listing
<1>7. ASSUME reader'.at = "page", NEW i \in reader'.goal \ reader'.seen
      PROVE  \E j \in after : j.id = i /\ AheadOf(j)'
  <2>1. PICK j \in before : j.id = i /\ AheadOf(j)
    BY <1>7 DEF RunsInv
  <2>2. Position(j, before) <= Position(j, after) /\ Position(j, before) \in Nat /\ Position(j, after) \in Nat
    BY <1>6, PositionsGrow, Positions
  <2>3. reader.offset \in Nat
    BY <1>0 DEF Reader
  <2>4. Position(j, after) > reader.offset
    BY <2>1, <2>2, <2>3 DEF AheadOf
  <2>. QED
    BY <1>6, <2>1, <2>4 DEF AheadOf
<1>8. Cardinality(before) <= Cardinality(after) /\ Cardinality(before) \in Nat /\ Cardinality(after) \in Nat
  BY <1>6, FS_Subset, FS_CardinalityType DEF Listing
<1>9. PagesMissNothing' /\ RefusedOnlyAtTheEnd'
  <2>1. reader.offset \in Nat
    BY <1>0 DEF Reader
  <2>. QED
    BY <1>8, <2>1 DEF RunsInv, PagesMissNothing, RefusedOnlyAtTheEnd
<1>. QED
  BY <1>4, <1>5, <1>7, <1>9 DEF RunsInv

LEMMA RunsStep == RunsInv /\ [RunsNext]_runsVars => RunsInv'
<1>. SUFFICES ASSUME RunsInv, [RunsNext]_runsVars PROVE RunsInv'
  OBVIOUS
<1>. DEFINE Pull == [at : {"idle", "tenant", "ready", "enqueue"}, key : PullKeys, channel : Channels]
<1>t. pull \in [Pulls -> Pull] /\ allowed \subseteq Channels
  BY DEF RunsInv, RunsTypeOK
<1>p. ASSUME NEW p \in Pulls, NEW from, NEW to \in {"idle", "tenant", "ready", "enqueue"}, PullAt(p, from, to)
      PROVE  pull' \in [Pulls -> Pull]
  BY <1>t, <1>p DEF PullAt
<1>1. CASE UpdateAllowed
  BY <1>1, <1>t, RunsGoOn DEF UpdateAllowed
<1>2. CASE EnqueueTask
  <2>1. NewRun("ai_task", NoKey) /\ UNCHANGED <<allowed, pull, reader>>
    BY <1>2 DEF EnqueueTask
  <2>2. "ai_task" \in Family /\ NoKey \in PullKeys \cup {NoKey}
    BY DEF Family
  <2>. QED
    BY <1>t, <2>1, <2>2, RunsGrow
<1>3. CASE BeginRead
  <2>1. PICK ai \in BOOLEAN :
          reader' = [at |-> "page", ai |-> ai, offset |-> 0, goal |-> Ids(ListedRuns(ai)), seen |-> {}]
    BY <1>3 DEF BeginRead
  <2>2. UNCHANGED <<allowed, runs, pull>>
    BY <1>3 DEF BeginRead
  <2>. DEFINE listed == ListedRuns(ai)
  <2>3. Listing(listed) /\ Ids(listed) \subseteq 1 .. MaxRuns
    BY RunsFields
  <2>4. /\ reader'.at = "page" /\ reader'.ai = ai /\ reader'.offset = 0 /\ reader'.goal = Ids(listed)
        /\ reader'.seen = {} /\ reader' \in Reader
    BY <2>1, <2>3 DEF Reader
  <2>5. RunsTypeOK'
    BY <2>2, <2>4 DEF RunsInv, RunsTypeOK, Reader
  <2>6. ListedRuns(reader.ai)' = listed
    BY <2>2, <2>4 DEF ListedRuns
  <2>7. ASSUME NEW i \in reader'.goal PROVE \E j \in listed : j.id = i /\ AheadOf(j)'
    <3>1. PICK j \in listed : j.id = i
      BY <2>4, <2>7 DEF Ids
    <3>2. Position(j, listed) \in Nat \ {0}
      BY <2>3, Positions
    <3>. QED
      BY <2>4, <2>6, <3>1, <3>2 DEF AheadOf
  <2>8. NumberedRuns'
    BY <2>2 DEF RunsInv, NumberedRuns
  <2>. QED
    BY <2>4, <2>5, <2>6, <2>7, <2>8 DEF RunsInv, PagesMissNothing, RefusedOnlyAtTheEnd
<1>4. CASE ReadPage
  <2>. DEFINE listed == ListedRuns(reader.ai)
              fetched == Fetched
  <2>1. /\ reader.at = "page" /\ UNCHANGED <<allowed, runs, pull>>
        /\ reader' = [reader EXCEPT
               !.seen = @ \cup Ids(PageOf(fetched)),
               !.offset = IF HasMore(fetched) THEN NextOffset ELSE @,
               !.at = IF ~HasMore(fetched) THEN "done"
                      ELSE IF NextOffset > MaxOffset THEN "refused" ELSE "page"]
    BY <1>4 DEF ReadPage
  <2>2. Listing(listed) /\ Ids(listed) \subseteq 1 .. MaxRuns /\ reader \in Reader
    BY RunsFields
  <2>3. reader.offset \in Nat /\ PageLimit \in Nat \ {0} /\ reader.offset + PageLimit \in Nat /\ MaxOffset \in Nat
    BY <2>2 DEF Reader
  <2>4. fetched = Rows(listed, PageLimit + 1, reader.offset)
    BY DEF Fetched
  <2>5. /\ (\E j \in listed : Position(j, listed) > reader.offset + PageLimit) => HasMore(fetched)
        /\ HasMore(fetched) => Cardinality(listed) > reader.offset + PageLimit
        /\ PageOf(fetched) = {j \in listed : Position(j, listed) > reader.offset
                                          /\ Position(j, listed) <= reader.offset + PageLimit}
    BY <2>2, <2>3, <2>4, FetchedOneMore
  <2>6. Ids(PageOf(fetched)) \subseteq 1 .. MaxRuns
    BY <2>2, <2>5 DEF Ids
  <2>7. /\ reader' \in Reader /\ reader'.ai = reader.ai /\ reader'.goal = reader.goal
        /\ reader'.seen = reader.seen \cup Ids(PageOf(fetched))
        /\ reader'.offset = IF HasMore(fetched) THEN reader.offset + PageLimit ELSE reader.offset
        /\ reader'.at = IF ~HasMore(fetched) THEN "done"
                        ELSE IF reader.offset + PageLimit > MaxOffset THEN "refused" ELSE "page"
    BY <2>1, <2>2, <2>3, <2>6 DEF Reader, NextOffset
  <2>8. ListedRuns(reader.ai)' = listed
    BY <2>1, <2>7 DEF ListedRuns
  <2>9. ASSUME NEW i \in reader.goal \ reader'.seen
        PROVE  \E j \in listed : j.id = i /\ Position(j, listed) > reader.offset + PageLimit
    <3>1. i \in reader.goal \ reader.seen
      BY <2>7, <2>9
    <3>2. PICK j \in listed : j.id = i /\ Position(j, listed) > reader.offset
      BY <2>1, <3>1 DEF RunsInv, AheadOf
    <3>3. j \notin PageOf(fetched)
      BY <2>7, <2>9, <3>2 DEF Ids
    <3>4. Position(j, listed) \in Nat
      BY <2>2, Positions
    <3>. QED
      BY <2>3, <2>5, <3>2, <3>3, <3>4
  <2>10. PagesMissNothing'
    <3>1. ~HasMore(fetched) => reader'.goal \subseteq reader'.seen
      BY <2>5, <2>7, <2>9
    <3>. QED
      BY <2>7, <3>1 DEF PagesMissNothing
  <2>11. RefusedOnlyAtTheEnd'
    BY <2>3, <2>5, <2>7, <2>8 DEF RefusedOnlyAtTheEnd
  <2>12. reader'.at = "page" =>
           \A i \in reader'.goal \ reader'.seen : \E j \in listed : j.id = i /\ AheadOf(j)'
    BY <2>7, <2>8, <2>9 DEF AheadOf
  <2>13. RunsTypeOK'
    BY <2>1, <2>7 DEF RunsInv, RunsTypeOK, Reader
  <2>14. NumberedRuns'
    BY <2>1 DEF RunsInv, NumberedRuns
  <2>. QED
    BY <2>8, <2>10, <2>11, <2>12, <2>13, <2>14 DEF RunsInv
<1>5. ASSUME NEW p \in Pulls, ParsePull(p) \/ AssertChannelAllowed(p) \/ AssertIntakeReady(p)
      PROVE  RunsInv'
  <2>1. pull' \in [Pulls -> Pull] /\ UNCHANGED <<allowed, runs, reader>>
    BY <1>5, <1>p DEF ParsePull, AssertChannelAllowed, AssertIntakeReady
  <2>. QED
    BY <1>t, <2>1, RunsGoOn
<1>6. ASSUME NEW p \in Pulls, EnqueuePull(p) PROVE RunsInv'
  <2>1. pull' \in [Pulls -> Pull] /\ UNCHANGED <<allowed, reader>>
    BY <1>6, <1>p DEF EnqueuePull
  <2>2. pull[p].key \in PullKeys \cup {NoKey} /\ "intake" \in Family
    BY <1>t DEF Family
  <2>3. CASE runs' = runs
    BY <1>t, <2>1, <2>3, RunsGoOn
  <2>4. CASE NewRun("intake", pull[p].key)
    BY <1>t, <2>1, <2>2, <2>4, RunsGrow
  <2>. QED
    BY <1>6, <2>3, <2>4 DEF EnqueuePull
<1>7. CASE UNCHANGED runsVars
  BY <1>7, <1>t, RunsGoOn DEF runsVars
<1>. QED
  BY <1>1, <1>2, <1>3, <1>4, <1>5, <1>6, <1>7 DEF RunsNext

\* Who pages through the runs of a company to the end has seen all that were there
\* when it began, however many come before them meanwhile, and is refused only
\* where there is more behind the last offset (routes/news-intake.js).
THEOREM RunsAreSafe == RunsSpec => []RunsSafe
<1>1. RunsInv => RunsSafe
  BY DEF RunsInv, RunsSafe
<1>. QED
  BY <1>1, RunsStart, RunsStep, PTL DEF RunsSpec

-----------------------------------------------------------------------------
(* The news feed.  Time passes a Date, which keeps milliseconds: what lies *)
(* between a timestamp and its millisecond is of that millisecond.         *)

USE NewsAssumption

LEMMA Remainder == \A t \in Nat : t % Precision \in Nat /\ t % Precision < Precision
  OBVIOUS

LEMMA Quotient ==
  \A t \in Nat : t = (Precision * (t \div Precision)) + (t % Precision) /\ t \div Precision \in Nat
  OBVIOUS

LEMMA MillisecondsAreOrdered ==
  ASSUME NEW a \in Nat, NEW b \in Nat, Precision * a < (Precision * b) + Precision
  PROVE  a <= b
<1>1. SUFFICES ASSUME a > b PROVE FALSE
  OBVIOUS
<1>2. PICK d \in Nat : a = b + 1 + d
  <2>1. a - b - 1 \in Nat
    BY <1>1
  <2>. QED
    BY <2>1
<1>3. Precision * a = (Precision * b) + Precision + (Precision * d)
  BY <1>2
<1>4. Precision * d \in Nat /\ Precision * b \in Nat
  OBVIOUS
<1>. QED
  BY <1>1, <1>3, <1>4

LEMMA IsoStringCuts ==
  \A t \in Nat : IsoString(t) \in Nat /\ IsoString(t) <= t /\ (t >= Precision => IsoString(t) > 0)
<1>. SUFFICES ASSUME NEW t \in Nat
              PROVE  IsoString(t) \in Nat /\ IsoString(t) <= t /\ (t >= Precision => IsoString(t) > 0)
  OBVIOUS
<1>1. t % Precision \in Nat /\ t % Precision < Precision
  BY Remainder
<1>2. t - (t % Precision) = Precision * (t \div Precision) /\ Precision * (t \div Precision) \in Nat
  BY Quotient, <1>1
<1>. QED
  BY <1>1, <1>2 DEF IsoString

LEMMA SameMillisecond ==
  \A t, x \in Nat : IsoString(t) <= x /\ x <= t => IsoString(x) = IsoString(t)
<1>. SUFFICES ASSUME NEW t \in Nat, NEW x \in Nat, IsoString(t) <= x, x <= t
              PROVE  IsoString(x) = IsoString(t)
  OBVIOUS
<1>. DEFINE m == t \div Precision
            n == x \div Precision
<1>1. m \in Nat /\ n \in Nat /\ Precision * m \in Nat /\ Precision * n \in Nat
  BY Quotient
<1>2. IsoString(t) = Precision * m /\ t < (Precision * m) + Precision
  BY <1>1, Remainder, Quotient DEF IsoString
<1>3. IsoString(x) = Precision * n /\ Precision * n <= x /\ x < (Precision * n) + Precision
  BY <1>1, Remainder, Quotient DEF IsoString
<1>. HIDE DEF m, n
<1>4. Precision * m < (Precision * n) + Precision /\ Precision * n < (Precision * m) + Precision
  BY <1>1, <1>2, <1>3
<1>5. m <= n /\ n <= m
  BY <1>1, <1>4, MillisecondsAreOrdered
<1>. QED
  BY <1>1, <1>2, <1>3, <1>5

LEMMA IsoStringOfIt == \A t \in Nat : IsoString(IsoString(t)) = IsoString(t)
  BY IsoStringCuts, SameMillisecond

\* What is ordered by time, and then by id, has a first.
LEMMA FirstExists ==
  ASSUME NEW S, S # {}, NEW time \in [S -> Nat], NEW id \in [S -> Nat],
         \A x, y \in S : id[x] = id[y] => x = y
  PROVE  \E x \in S : \A y \in S \ {x} : time[x] < time[y] \/ (time[x] = time[y] /\ id[x] < id[y])
<1>. DEFINE times == {time[x] : x \in S}
<1>1. PICK t \in times : \A y \in times : ~(<<y, t>> \in OpToRel(<, Nat))
  <2>1. times \subseteq Nat /\ times # {}
    OBVIOUS
  <2>. HIDE DEF times
  <2>. QED
    BY <2>1, NatLessThanWellFounded, WFMin
<1>2. t \in Nat /\ \A y \in S : ~(time[y] < t)
  <2>1. t \in times /\ \A y \in S : time[y] \in times
    BY <1>1
  <2>2. \A y \in S : <<time[y], t>> \notin OpToRel(<, Nat)
    BY <1>1, <2>1
  <2>3. t \in Nat /\ \A y \in S : time[y] \in Nat
    BY <2>1
  <2>. HIDE DEF times
  <2>. QED
    BY <2>2, <2>3 DEF OpToRel
<1>. DEFINE ids == {id[x] : x \in {y \in S : time[y] = t}}
<1>3. PICK n \in ids : \A y \in ids : ~(<<y, n>> \in OpToRel(<, Nat))
  <2>1. PICK z \in S : time[z] = t
    BY <1>1
  <2>2. ids \subseteq Nat /\ id[z] \in ids
    BY <2>1
  <2>. HIDE DEF ids
  <2>. QED
    BY <2>2, NatLessThanWellFounded, WFMin
<1>4. n \in Nat /\ \A y \in S : time[y] = t => ~(id[y] < n)
  BY <1>3 DEF OpToRel
<1>5. PICK x \in S : time[x] = t /\ id[x] = n
  BY <1>3
<1>6. ASSUME NEW y \in S \ {x} PROVE time[x] < time[y] \/ (time[x] = time[y] /\ id[x] < id[y])
  <2>1. time[y] \in Nat /\ id[y] \in Nat /\ id[y] # n
    BY <1>5
  <2>. QED
    BY <1>2, <1>4, <1>5, <2>1
<1>. QED
  BY <1>6

-----------------------------------------------------------------------------
(* The scoring loop.  Its mark passes by what is judged, what it never     *)
(* promised to judge, what was withdrawn, what will be collected too late, *)
(* and what shares its millisecond; a page that is under way still holds   *)
(* the rest of what lies before its last article.                          *)

SharesMillisecond(a) ==
  \E b \in NewsArticles \ {a} : SourceOf[b] = SourceOf[a] /\ IsoString(Stamp[b]) = IsoString(Stamp[a])
Explained(a) ==
  \/ a \in outOfReach \/ KeyOf(a) \in DOMAIN decisions \/ SharesMillisecond(a)
  \/ a \in known \ valid \/ (a \notin known /\ Overtaken(a))
Passed(s, mark) == \A a \in NewsArticles : SourceOf[a] = s /\ Stamp[a] <= mark => Explained(a)
PageHolds(s, page) ==
  \A p \in page :
    /\ SourceOf[p] = s /\ p \in known
    /\ \A a \in NewsArticles : SourceOf[a] = s /\ Stamp[a] <= Stamp[p] => Explained(a) \/ a \in page
ScanHolds(me) ==
  LET s == SourceOrder[me.index] IN
  /\ me.at \in {"page", "item", "score", "upsert", "cursor"} => me.index <= Len(SourceOrder) /\ Passed(s, me.since)
  /\ me.at \in {"page", "item", "score", "upsert"} => me.remaining > 0
  /\ me.at \in {"item", "score", "upsert"} => me.page # {} /\ PageHolds(s, me.page)
  /\ me.at \in {"item", "score", "upsert", "cursor"} => Passed(s, me.last)
ScoringInv ==
  /\ NewsTypeOK
  /\ \A s \in Sources : Passed(s, scoreMark[s])
  /\ \A l \in Loops : ScanHolds(loop[l])

Scan == [at : LoopStates, remaining : 0 .. MaxPerTick, index : 1 .. Len(SourceOrder) + 1,
         lookback : Nat, since : Nat, page : SUBSET NewsArticles,
         last : Nat, more : BOOLEAN, verdict : Verdicts]

\* The first of a page.
LEMMA Earliest ==
  ASSUME NEW page \in SUBSET NewsArticles, page # {}
  PROVE  /\ EarliestOf(page) \in page
         /\ \A b \in page \ {EarliestOf(page)} : Stamp[b] >= Stamp[EarliestOf(page)]
<1>. DEFINE time == [a \in page |-> Stamp[a]]
            id == [a \in page |-> a]
<1>1. \E x \in page : \A y \in page \ {x} : time[x] < time[y] \/ (time[x] = time[y] /\ id[x] < id[y])
  <2>1. time \in [page -> Nat] /\ id \in [page -> Nat] /\ \A x, y \in page : id[x] = id[y] => x = y
    OBVIOUS
  <2>2. page # {}
    OBVIOUS
  <2>. HIDE DEF time, id
  <2>. QED
    BY ONLY <2>1, <2>2, FirstExists
<1>2. \E x \in page : \A y \in page \ {x} : Older(x, y)
  BY <1>1 DEF Older
<1>3. EarliestOf(page) \in page /\ \A y \in page \ {EarliestOf(page)} : Older(EarliestOf(page), y)
  BY <1>2 DEF EarliestOf
<1>4. ASSUME NEW b \in page \ {EarliestOf(page)} PROVE Stamp[b] >= Stamp[EarliestOf(page)]
  <2>1. Stamp[b] \in Nat /\ Stamp[EarliestOf(page)] \in Nat /\ Older(EarliestOf(page), b)
    BY <1>3
  <2>. QED
    BY <2>1 DEF Older
<1>. QED
  BY <1>3, <1>4

\* Articles are collected, withdrawn and judged for good.
NothingIsUndone ==
  /\ known \subseteq known' /\ known \ valid \subseteq known' \ valid'
  /\ outOfReach \subseteq outOfReach' /\ DOMAIN decisions \subseteq DOMAIN decisions'
  /\ \A a \in known' \ known : Overtaken(a) => a \in outOfReach'

LEMMA ExplainedForGood ==
  ASSUME NothingIsUndone, NEW a \in NewsArticles, Explained(a)
  PROVE  Explained(a)'
<1>1. Overtaken(a) => Overtaken(a)'
  BY DEF Overtaken, NothingIsUndone
<1>2. CASE a \notin known /\ Overtaken(a)
  BY <1>1, <1>2 DEF NothingIsUndone, Explained
<1>3. CASE KeyOf(a) \in DOMAIN decisions
  BY <1>3 DEF NothingIsUndone, Explained, KeyOf
<1>4. CASE SharesMillisecond(a)
  BY <1>4 DEF Explained, SharesMillisecond
<1>. QED
  BY <1>2, <1>3, <1>4 DEF NothingIsUndone, Explained

LEMMA PassedForGood ==
  ASSUME NothingIsUndone, NEW s, NEW mark, Passed(s, mark)
  PROVE  Passed(s, mark)'
  BY ExplainedForGood DEF Passed

LEMMA ScanGoesOn ==
  ASSUME NothingIsUndone, NEW me \in Scan, ScanHolds(me)
  PROVE  ScanHolds(me)'
<1>1. ASSUME NEW s, NEW page \in SUBSET NewsArticles, PageHolds(s, page) PROVE PageHolds(s, page)'
  BY <1>1, ExplainedForGood DEF PageHolds, NothingIsUndone
<1>2. me.page \in SUBSET NewsArticles
  BY DEF Scan
<1>. QED
  BY <1>1, <1>2, PassedForGood DEF ScanHolds

\* One loop moves, the others stand.
LEMMA LoopMoves ==
  ASSUME NothingIsUndone, ScoringInv, NEW l \in Loops, NEW me \in Scan, ScanHolds(me)',
         loop' = [loop EXCEPT ![l] = me]
  PROVE  loop' \in [Loops -> Scan] /\ (\A k \in Loops : ScanHolds(loop[k]))'
<1>1. loop \in [Loops -> Scan]
  BY DEF ScoringInv, NewsTypeOK, Scan
<1>2. ASSUME NEW k \in Loops PROVE ScanHolds(loop[k])'
  <2>1. CASE k = l
    <3>1. loop'[k] = me
      BY <1>1, <2>1
    <3>. QED
      BY <3>1
  <2>2. CASE k # l
    <3>1. PICK other \in Scan : other = loop[k]
      BY <1>1
    <3>2. ScanHolds(other)'
      BY <3>1, ScanGoesOn DEF ScoringInv
    <3>3. loop'[k] = other
      BY <1>1, <2>2, <3>1
    <3>. QED
      BY <3>2, <3>3
  <2>. QED
    BY <2>1, <2>2
<1>3. loop' \in [Loops -> Scan]
  BY <1>1
<1>. QED
  BY <1>2, <1>3

\* A page of the store is the next part of what the mark has not passed.
LEMMA PageIsNext ==
  ASSUME ScoringInv, NEW s, NEW since \in Nat, Passed(s, since), NEW n \in Nat
  PROVE  /\ FirstOf(Candidates(s, since), n) \in SUBSET NewsArticles
         /\ PageHolds(s, FirstOf(Candidates(s, since), n))
<1>. DEFINE all == Candidates(s, since)
            page == FirstOf(all, n)
            olderThan(a) == {b \in all : Older(b, a)}
<1>1. valid \subseteq known /\ known \subseteq NewsArticles
  BY DEF ScoringInv, NewsTypeOK
<1>2. /\ \A a \in all : a \in valid /\ SourceOf[a] = s /\ Stamp[a] > since
      /\ \A a \in valid : SourceOf[a] = s /\ Stamp[a] > since => a \in all
  BY DEF Candidates
<1>3. page \subseteq all /\ \A a \in all : a \in page <=> Cardinality(olderThan(a)) < n
  BY DEF FirstOf
<1>4. all \subseteq NewsArticles /\ IsFiniteSet(all)
  BY <1>1, <1>2, FS_Subset
<1>. HIDE DEF all, page
<1>5. ASSUME NEW p \in page, NEW a \in all, Older(a, p) PROVE a \in page
  <2>1. olderThan(a) \subseteq olderThan(p) /\ olderThan(p) \subseteq all
    <3>1. ASSUME NEW b \in all, Older(b, a) PROVE Older(b, p)
      <4>1. b \in NewsArticles /\ a \in NewsArticles /\ p \in NewsArticles
        BY <1>3, <1>4
      <4>2. b \in Nat /\ a \in Nat /\ p \in Nat /\ Stamp[b] \in Nat /\ Stamp[a] \in Nat /\ Stamp[p] \in Nat
        BY <4>1
      <4>. QED
        BY <1>5, <3>1, <4>2 DEF Older
    <3>. QED
      BY <3>1
  <2>2. IsFiniteSet(olderThan(p)) /\ IsFiniteSet(olderThan(a))
    BY <1>4, <2>1, FS_Subset
  <2>3. Cardinality(olderThan(a)) <= Cardinality(olderThan(p))
    BY <2>1, <2>2, FS_Subset
  <2>4. Cardinality(olderThan(a)) \in Nat /\ Cardinality(olderThan(p)) \in Nat
    BY <2>2, FS_CardinalityType
  <2>5. Cardinality(olderThan(p)) < n
    BY <1>3
  <2>6. Cardinality(olderThan(a)) < n
    BY <2>3, <2>4, <2>5
  <2>. QED
    BY <1>3, <2>6
<1>6. ASSUME NEW p \in page, NEW a \in NewsArticles, SourceOf[a] = s, Stamp[a] <= Stamp[p], ~Explained(a)
      PROVE  a \in page
  <2>1. p \in NewsArticles /\ p \in all /\ p \in known /\ SourceOf[p] = s
    BY <1>1, <1>2, <1>3, <1>4
  <2>2. Stamp[a] \in Nat /\ Stamp[p] \in Nat
    BY <2>1
  <2>3. CASE a = p
    BY <2>3
  <2>4. CASE a # p
    <3>1. Stamp[a] # Stamp[p]
      <4>1. Stamp[a] = Stamp[p] => SharesMillisecond(a)
        BY <1>6, <2>1, <2>4 DEF SharesMillisecond
      <4>. QED
        BY <1>6, <4>1 DEF Explained
    <3>2. Stamp[a] < Stamp[p]
      BY <1>6, <2>2, <3>1
    <3>3. Overtaken(a)
      BY <1>6, <2>1, <3>2 DEF Overtaken
    <3>4. a \in valid
      BY <1>6, <3>3 DEF Explained
    <3>5. ~(Stamp[a] <= since)
      BY <1>6 DEF Passed
    <3>6. a \in all
      BY <1>2, <1>6, <2>2, <3>4, <3>5
    <3>. QED
      BY <1>5, <3>2, <3>6 DEF Older
  <2>. QED
    BY <2>3, <2>4
<1>7. PageHolds(s, page)
  <2>1. \A p \in page : SourceOf[p] = s /\ p \in known
    BY <1>1, <1>2, <1>3
  <2>. QED
    BY <1>6, <2>1 DEF PageHolds
<1>. QED
  BY <1>3, <1>4, <1>7 DEF all, page

\* The first article of a page is judged: the mark may pass it.
LEMMA ReadOn ==
  ASSUME NothingIsUndone, NEW s, NEW page \in SUBSET NewsArticles, page # {}, PageHolds(s, page),
         NEW head, head = EarliestOf(page), Explained(head)'
  PROVE  PageHolds(s, page \ {head})' /\ Passed(s, IsoString(Stamp[head]))'
<1>1. head \in page /\ head \in NewsArticles /\ SourceOf[head] = s /\ \A b \in page \ {head} : Stamp[b] >= Stamp[head]
  BY Earliest DEF PageHolds
<1>2. ASSUME NEW p \in page \ {head}, NEW a \in NewsArticles, SourceOf[a] = s, Stamp[a] <= Stamp[p]
      PROVE  Explained(a)' \/ a \in page \ {head}
  <2>1. Explained(a) \/ a \in page
    BY <1>2 DEF PageHolds
  <2>. QED
    BY <2>1, ExplainedForGood
<1>3. ASSUME NEW p \in page \ {head} PROVE SourceOf[p] = s /\ p \in known'
  BY DEF PageHolds, NothingIsUndone
<1>4. ASSUME NEW a \in NewsArticles, SourceOf[a] = s, Stamp[a] <= IsoString(Stamp[head]) PROVE Explained(a)'
  <2>1. Stamp[a] \in Nat /\ Stamp[head] \in Nat /\ IsoString(Stamp[head]) \in Nat /\ IsoString(Stamp[head]) <= Stamp[head]
    BY <1>1, IsoStringCuts
  <2>2. Stamp[a] <= Stamp[head]
    BY <1>4, <2>1
  <2>3. Explained(a) \/ a \in page
    BY <1>1, <1>4, <2>2 DEF PageHolds
  <2>4. CASE a \in page \ {head}
    <3>1. Stamp[a] = Stamp[head]
      <4>1. Stamp[a] >= Stamp[head]
        BY <1>1, <2>4
      <4>. QED
        BY <2>1, <2>2, <4>1
    <3>2. SharesMillisecond(a)'
      BY <1>1, <1>4, <2>4, <3>1 DEF SharesMillisecond
    <3>. QED
      BY <3>2 DEF Explained
  <2>. QED
    BY <2>3, <2>4, ExplainedForGood
<1>5. PageHolds(s, page \ {head})'
  BY <1>2, <1>3 DEF PageHolds
<1>6. Passed(s, IsoString(Stamp[head]))'
  BY <1>4 DEF Passed
<1>. QED
  BY <1>5, <1>6

LEMMA JudgedHolds ==
  ASSUME NothingIsUndone, ScoringInv, NEW l \in Loops, loop[l].at \in {"item", "upsert"},
         NEW head, head = HeadOf(l), Explained(head)', NEW remaining \in 0 .. MaxPerTick, NEW me, me = Judged(l, remaining)
  PROVE  me \in Scan /\ ScanHolds(me)'
<1>1. loop[l] \in Scan /\ ScanHolds(loop[l])
  BY DEF ScoringInv, NewsTypeOK, Scan
<1>. DEFINE s == SourceOrder[loop[l].index]
<1>2. PICK page \in SUBSET NewsArticles : page = loop[l].page
  BY <1>1 DEF Scan
<1>3. page # {} /\ PageHolds(s, page) /\ head = EarliestOf(page) /\ head \in page /\ head \in NewsArticles
  <2>1. page # {} /\ PageHolds(s, page) /\ head = EarliestOf(page)
    BY <1>1, <1>2 DEF ScanHolds, HeadOf
  <2>. QED
    BY <2>1, Earliest
<1>4. PICK source : source = s
  OBVIOUS
<1>5. PICK since \in Nat : since = loop[l].since /\ Passed(source, since)
  BY <1>1, <1>4 DEF ScanHolds, Scan
<1>6. PageHolds(source, page \ {head})' /\ Passed(source, IsoString(Stamp[head]))' /\ Passed(source, since)'
  <2>1. PageHolds(source, page)
    BY <1>3, <1>4
  <2>2. PageHolds(source, page \ {head})' /\ Passed(source, IsoString(Stamp[head]))'
    BY <1>3, <2>1, ReadOn
  <2>3. Passed(source, since)'
    BY <1>5, PassedForGood
  <2>. QED
    BY <2>2, <2>3
<1>7. IsoString(Stamp[head]) \in Nat
  BY <1>3, IsoStringCuts
<1>8. /\ me = [loop[l] EXCEPT !.page = page \ {head}, !.last = IsoString(Stamp[head]), !.remaining = remaining,
                              !.at = IF page \ {head} = {} \/ remaining = 0 THEN "cursor" ELSE "item"]
  BY <1>2 DEF Judged
<1>9. me \in Scan
  <2>. DEFINE at == IF page \ {head} = {} \/ remaining = 0 THEN "cursor" ELSE "item"
  <2>1. at \in LoopStates
    BY DEF LoopStates
  <2>2. /\ me = [loop[l] EXCEPT !.page = page \ {head}, !.last = IsoString(Stamp[head]), !.remaining = remaining, !.at = at]
        /\ page \ {head} \in SUBSET NewsArticles
    BY <1>8
  <2>. HIDE DEF at
  <2>. QED
    BY ONLY <1>1, <1>7, <2>1, <2>2, remaining \in 0 .. MaxPerTick DEF Scan
<1>10. /\ me.page = page \ {head} /\ me.last = IsoString(Stamp[head]) /\ me.remaining = remaining
       /\ me.index = loop[l].index /\ me.since = since /\ me.at \in {"cursor", "item"}
       /\ me.at = "item" => page \ {head} # {} /\ remaining # 0
  BY <1>1, <1>5, <1>8 DEF Scan
<1>11. me.index <= Len(SourceOrder) /\ SourceOrder[me.index] = source
  BY <1>1, <1>4, <1>10 DEF ScanHolds
<1>. QED
  BY <1>6, <1>9, <1>10, <1>11 DEF ScanHolds

FeedState == [at : {"idle", "page", "hydrate", "done"}, view : {"channel", "mixed", "it-v4"},
              sources : SUBSET Sources, cursor : Nat \X Nat, rows : SUBSET NewsArticles,
              goal : SUBSET (NewsArticles \cup Hashes), seen : SUBSET (NewsArticles \cup Hashes)]

LEMMA NewsTypes ==
  NewsTypeOK <=>
    /\ valid \subseteq known /\ known \subseteq NewsArticles /\ outOfReach \subseteq NewsArticles
    /\ horizon \in 0 .. MaxHorizon /\ failures \in 0 .. MaxFailures
    /\ \A k \in DOMAIN decisions : k \in Key /\ decisions[k] \in Decision
    /\ scoreMark \in [Sources -> Nat] /\ loop \in [Loops -> Scan] /\ feed \in FeedState
  BY DEF NewsTypeOK, Scan, FeedState

LEMMA Sleeps == Asleep \in Scan /\ Asleep.at = "idle"
<1>1. 1 \in 1 .. Len(SourceOrder) + 1 /\ 0 \in 0 .. MaxPerTick
  OBVIOUS
<1>. QED
  BY <1>1 DEF Asleep, Scan, LoopStates, Verdicts, Nothing

LEMMA ScoringStart == NewsInit => ScoringInv
<1>. SUFFICES ASSUME NewsInit PROVE ScoringInv
  OBVIOUS
<1>1. Asleep \in Scan /\ Asleep.at = "idle"
  BY Sleeps
<1>2. NoFeed \in FeedState
  BY DEF NoFeed, FeedState
<1>3. NewsTypeOK
  BY <1>1, <1>2, NewsTypes DEF NewsInit, Nothing
<1>4. ASSUME NEW s \in Sources PROVE Passed(s, scoreMark[s])
  <2>1. \A a \in NewsArticles : ~(Stamp[a] <= 0)
    OBVIOUS
  <2>2. scoreMark[s] = 0
    BY DEF NewsInit, Nothing
  <2>. QED
    BY <2>1, <2>2 DEF Passed
<1>5. ASSUME NEW l \in Loops PROVE ScanHolds(loop[l])
  <2>1. loop[l].at = "idle"
    BY <1>1 DEF NewsInit
  <2>. QED
    BY <2>1 DEF ScanHolds
<1>. QED
  BY <1>3, <1>4, <1>5 DEF ScoringInv

\* The mark of every source stays where it is.
LEMMA MarksStay ==
  ASSUME NothingIsUndone, ScoringInv, scoreMark' = scoreMark
  PROVE  (\A s \in Sources : Passed(s, scoreMark[s]))'
<1>1. ASSUME NEW s \in Sources PROVE Passed(s, scoreMark[s])'
  <2>1. PICK mark : mark = scoreMark[s]
    OBVIOUS
  <2>2. Passed(s, mark)'
    BY <2>1, PassedForGood DEF ScoringInv
  <2>. QED
    BY <2>1, <2>2
<1>. QED
  BY <1>1

LEMMA LoopsStay ==
  ASSUME NothingIsUndone, ScoringInv, loop' = loop
  PROVE  (\A l \in Loops : ScanHolds(loop[l]))'
<1>1. ASSUME NEW l \in Loops PROVE ScanHolds(loop[l])'
  <2>1. PICK me \in Scan : me = loop[l]
    BY NewsTypes DEF ScoringInv
  <2>2. ScanHolds(me)'
    BY <2>1, ScanGoesOn DEF ScoringInv
  <2>. QED
    BY <2>1, <2>2
<1>. QED
  BY <1>1

\* A loop that moves reads and judges; what it leaves alone stays true.
LEMMA ScanStep ==
  ASSUME ScoringInv, NothingIsUndone, NEW l \in Loops, NEW me \in Scan, ScanHolds(me)',
         loop' = [loop EXCEPT ![l] = me], UNCHANGED <<known, valid, horizon, decisions, scoreMark, feed>>,
         outOfReach' \subseteq NewsArticles, failures' \in 0 .. MaxFailures
  PROVE  ScoringInv'
<1>1. loop' \in [Loops -> Scan] /\ (\A k \in Loops : ScanHolds(loop[k]))'
  BY LoopMoves
<1>2. NewsTypeOK'
  BY <1>1, NewsTypes DEF ScoringInv, NewsTypeOK, Scan
<1>3. (\A s \in Sources : Passed(s, scoreMark[s]))'
  BY MarksStay
<1>. QED
  BY <1>1, <1>2, <1>3 DEF ScoringInv

LEMMA GetCursorStep ==
  ASSUME ScoringInv, NEW l \in Loops, GetCursor(l)
  PROVE  ScoringInv' /\ NothingIsUndone
<1>. DEFINE over == loop[l].index > Len(SourceOrder) \/ loop[l].remaining = 0
            s == SourceOrder[loop[l].index]
            first == scoreMark[s] = Nothing
            since == IF first THEN loop[l].lookback ELSE scoreMark[s]
            behind == {a \in NewsArticles : SourceOf[a] = s /\ Stamp[a] <= since}
<1>1. /\ loop[l] \in Scan /\ scoreMark \in [Sources -> Nat] /\ outOfReach \subseteq NewsArticles
      /\ failures \in 0 .. MaxFailures
  BY NewsTypes DEF ScoringInv
<1>2. /\ outOfReach' = IF over \/ ~first THEN outOfReach ELSE outOfReach \cup behind
      /\ UNCHANGED <<known, valid, horizon, decisions, scoreMark, failures, feed>>
      /\ loop' = [loop EXCEPT ![l] = IF over THEN Asleep ELSE [loop[l] EXCEPT !.at = "page", !.since = since]]
  BY DEF GetCursor, LoopStep, judged
<1>3. NothingIsUndone
  BY <1>2 DEF NothingIsUndone
<1>4. outOfReach' \subseteq NewsArticles
  BY <1>1, <1>2
<1>5. CASE over
  <2>1. Asleep \in Scan /\ Asleep.at = "idle"
    BY Sleeps
  <2>2. PICK me \in Scan : me = Asleep
    BY <2>1
  <2>3. ScanHolds(me)'
    BY <2>1, <2>2 DEF ScanHolds
  <2>4. loop' = [loop EXCEPT ![l] = me]
    BY <1>2, <1>5, <2>2
  <2>. HIDE DEF over, behind
  <2>. QED
    BY <1>1, <1>2, <1>3, <1>4, <2>2, <2>3, <2>4, ScanStep
<1>6. CASE ~over
  <2>1. loop[l].index \in 1 .. Len(SourceOrder) /\ loop[l].remaining \in 0 .. MaxPerTick /\ loop[l].remaining # 0
    BY <1>1, <1>6 DEF Scan
  <2>2. s \in Sources
    BY <2>1 DEF Sources
  <2>3. since \in Nat
    BY <1>1, <2>2 DEF Scan
  <2>4. PICK me : me = [loop[l] EXCEPT !.at = "page", !.since = since]
    OBVIOUS
  <2>5. me \in Scan
    BY <1>1, <2>3, <2>4 DEF Scan, LoopStates
  <2>6. PICK source : source = s
    OBVIOUS
  <2>7. PICK mark \in Nat : mark = since
    BY <2>3
  <2>8. Passed(source, mark)'
    <3>1. CASE first
      BY <1>2, <1>6, <2>6, <2>7, <3>1 DEF Passed, Explained
    <3>2. CASE ~first
      <4>1. Passed(source, mark)
        BY <2>2, <2>6, <2>7, <3>2 DEF ScoringInv
      <4>. QED
        BY <4>1, <1>3, PassedForGood
    <3>. QED
      BY <3>1, <3>2
  <2>9. /\ me.at = "page" /\ me.index = loop[l].index /\ me.since = mark /\ me.remaining = loop[l].remaining
    BY <1>1, <2>4, <2>7 DEF Scan
  <2>10. ScanHolds(me)'
    BY <2>1, <2>6, <2>8, <2>9 DEF ScanHolds
  <2>11. loop' = [loop EXCEPT ![l] = me]
    BY <1>2, <1>6, <2>4
  <2>. HIDE DEF over, behind, s, first, since
  <2>. QED
    BY <1>1, <1>2, <1>3, <1>4, <2>5, <2>10, <2>11, ScanStep
<1>. QED
  BY <1>3, <1>5, <1>6

\* A loop that reads, or gives up, judges nothing and moves no mark.
LEMMA ReadingStep ==
  ASSUME ScoringInv, NEW l \in Loops, NEW me \in Scan, ScanHolds(me), loop' = [loop EXCEPT ![l] = me],
         UNCHANGED <<known, valid, outOfReach, horizon, decisions, scoreMark, feed>>,
         failures' \in 0 .. MaxFailures
  PROVE  ScoringInv' /\ NothingIsUndone
<1>1. NothingIsUndone
  BY DEF NothingIsUndone
<1>2. ScanHolds(me)'
  BY <1>1, ScanGoesOn
<1>3. outOfReach' \subseteq NewsArticles
  BY NewsTypes DEF ScoringInv
<1>4. ScoringInv'
  BY <1>1, <1>2, <1>3, ScanStep
<1>. QED
  BY <1>1, <1>4

LEMMA BeginScoringStep ==
  ASSUME ScoringInv, NEW l \in Loops, BeginScoring(l)
  PROVE  ScoringInv' /\ NothingIsUndone
<1>1. horizon * Precision \in Nat /\ failures \in 0 .. MaxFailures
  BY NewsTypes DEF ScoringInv
<1>2. PICK me : me = [Asleep EXCEPT !.at = "source", !.remaining = MaxPerTick, !.lookback = horizon * Precision]
  OBVIOUS
<1>3. me \in Scan /\ me.at = "source"
  <2>1. MaxPerTick \in 0 .. MaxPerTick
    OBVIOUS
  <2>. QED
    BY <1>1, <1>2, <2>1, Sleeps DEF Scan, LoopStates
<1>4. ScanHolds(me)
  BY <1>3 DEF ScanHolds
<1>5. loop' = [loop EXCEPT ![l] = me] /\ UNCHANGED <<known, valid, outOfReach, horizon, decisions, scoreMark, feed, failures>>
  BY <1>2 DEF BeginScoring, LoopStep, judged, collected
<1>. QED
  BY <1>1, <1>3, <1>4, <1>5, ReadingStep

LEMMA NextSourceHolds ==
  ASSUME ScoringInv, NEW l \in Loops, loop[l].index \in 1 .. Len(SourceOrder), NEW me, me = NextSource(l)
  PROVE  me \in Scan /\ ScanHolds(me) /\ me.at = "source"
<1>1. loop[l] \in Scan /\ loop[l].index + 1 \in 1 .. Len(SourceOrder) + 1
  BY NewsTypes DEF ScoringInv
<1>2. me \in Scan /\ me.at = "source"
  BY <1>1 DEF NextSource, Scan, LoopStates
<1>. QED
  BY <1>2 DEF ScanHolds

LEMMA ListStep ==
  ASSUME ScoringInv, NEW l \in Loops, ListScoringCandidates(l)
  PROVE  ScoringInv' /\ NothingIsUndone
<1>. DEFINE found == FirstOf(Candidates(SourceOrder[loop[l].index], loop[l].since), RowsRequested(l))
            full == Cardinality(found) = RowsRequested(l)
<1>1. /\ loop[l] \in Scan /\ ScanHolds(loop[l]) /\ loop[l].at = "page" /\ failures \in 0 .. MaxFailures
      /\ UNCHANGED <<known, valid, outOfReach, horizon, decisions, scoreMark, feed, failures>>
      /\ loop' = [loop EXCEPT ![l] = IF found = {} THEN NextSource(l)
                                     ELSE [loop[l] EXCEPT !.at = "item", !.page = found, !.last = Nothing, !.more = full]]
  BY NewsTypes DEF ScoringInv, ListScoringCandidates, LoopStep, judged, collected
<1>2. loop[l].index \in 1 .. Len(SourceOrder) /\ Passed(SourceOrder[loop[l].index], loop[l].since) /\ loop[l].remaining > 0
  BY <1>1 DEF ScanHolds, Scan
<1>3. loop[l].since \in Nat /\ RowsRequested(l) \in Nat
  BY <1>1 DEF Scan, RowsRequested
<1>4. found \in SUBSET NewsArticles /\ PageHolds(SourceOrder[loop[l].index], found)
  BY <1>2, <1>3, PageIsNext
<1>. HIDE DEF found
<1>5. CASE found = {}
  <2>1. PICK me : me = NextSource(l)
    OBVIOUS
  <2>2. me \in Scan /\ ScanHolds(me)
    BY <1>2, <2>1, NextSourceHolds
  <2>3. loop' = [loop EXCEPT ![l] = me]
    BY <1>1, <1>5, <2>1
  <2>. QED
    BY <1>1, <2>2, <2>3, ReadingStep
<1>6. CASE found # {}
  <2>1. full \in BOOLEAN
    OBVIOUS
  <2>. HIDE DEF full
  <2>2. PICK me : me = [loop[l] EXCEPT !.at = "item", !.page = found, !.last = Nothing, !.more = full]
    OBVIOUS
  <2>3. me \in Scan
    BY <1>1, <1>4, <2>1, <2>2 DEF Scan, LoopStates, Nothing
  <2>4. /\ me.at = "item" /\ me.page = found /\ me.last = 0 /\ me.index = loop[l].index
        /\ me.remaining = loop[l].remaining /\ me.since = loop[l].since
    BY <1>1, <2>2 DEF Scan, Nothing
  <2>5. Passed(SourceOrder[me.index], 0)
    <3>1. \A a \in NewsArticles : ~(Stamp[a] <= 0)
      OBVIOUS
    <3>. QED
      BY <3>1 DEF Passed
  <2>6. ScanHolds(me)
    BY <1>2, <1>4, <1>6, <2>4, <2>5 DEF ScanHolds
  <2>7. loop' = [loop EXCEPT ![l] = me]
    BY <1>1, <1>6, <2>2
  <2>. QED
    BY <1>1, <2>3, <2>6, <2>7, ReadingStep
<1>. QED
  BY <1>5, <1>6

\* A loop goes on with what it holds, or leaves the page at what it has judged.
LEMMA Onwards ==
  ASSUME ScoringInv, NEW l \in Loops, NEW me \in Scan, loop[l].at \in {"item", "score"},
         me.at \in {"score", "upsert", "cursor"}, me.index = loop[l].index, me.since = loop[l].since,
         me.remaining = loop[l].remaining, me.page = loop[l].page, me.last = loop[l].last,
         loop' = [loop EXCEPT ![l] = me],
         UNCHANGED <<known, valid, outOfReach, horizon, decisions, scoreMark, feed>>,
         failures' \in 0 .. MaxFailures
  PROVE  ScoringInv' /\ NothingIsUndone
<1>1. ScanHolds(me)
  BY DEF ScoringInv, ScanHolds
<1>. QED
  BY <1>1, ReadingStep

LEMMA ScoreStep ==
  ASSUME ScoringInv, NEW l \in Loops, Score(l) \/ ScoreFails(l)
  PROVE  ScoringInv' /\ NothingIsUndone
<1>1. /\ loop[l] \in Scan /\ loop[l].at = "score" /\ failures' \in 0 .. MaxFailures
      /\ UNCHANGED <<known, valid, outOfReach, horizon, decisions, scoreMark, feed>>
  <2>1. loop[l] \in Scan /\ failures \in 0 .. MaxFailures
    BY NewsTypes DEF ScoringInv
  <2>2. /\ loop[l].at = "score" /\ (failures' = failures \/ Fails)
        /\ UNCHANGED <<known, valid, outOfReach, horizon, decisions, scoreMark, feed>>
    BY DEF Score, ScoreFails, LoopStep, judged, collected
  <2>. QED
    BY <2>1, <2>2 DEF Fails
<1>2. CASE Score(l)
  <2>1. PICK v \in Verdicts : loop' = [loop EXCEPT ![l] = [loop[l] EXCEPT !.at = "upsert", !.verdict = v]]
    BY <1>2 DEF Score, LoopStep
  <2>2. PICK me : me = [loop[l] EXCEPT !.at = "upsert", !.verdict = v]
    OBVIOUS
  <2>3. /\ me \in Scan /\ me.at = "upsert" /\ me.index = loop[l].index /\ me.since = loop[l].since
        /\ me.remaining = loop[l].remaining /\ me.page = loop[l].page /\ me.last = loop[l].last
    BY <1>1, <2>2 DEF Scan, LoopStates
  <2>. QED
    BY <1>1, <2>1, <2>2, <2>3, Onwards
<1>3. CASE ScoreFails(l)
  <2>1. PICK me : me = [loop[l] EXCEPT !.at = "cursor", !.more = FALSE]
    OBVIOUS
  <2>2. loop' = [loop EXCEPT ![l] = me]
    BY <1>3, <2>1 DEF ScoreFails, LoopStep, BreakOff
  <2>3. /\ me \in Scan /\ me.at = "cursor" /\ me.index = loop[l].index /\ me.since = loop[l].since
        /\ me.remaining = loop[l].remaining /\ me.page = loop[l].page /\ me.last = loop[l].last
    BY <1>1, <2>1 DEF Scan, LoopStates
  <2>. QED
    BY <1>1, <2>2, <2>3, Onwards
<1>. QED
  BY <1>2, <1>3

LEMMA GetDecisionStep ==
  ASSUME ScoringInv, NEW l \in Loops, GetDecision(l)
  PROVE  ScoringInv' /\ NothingIsUndone
<1>1. /\ loop[l] \in Scan /\ loop[l].at = "item" /\ failures' = failures /\ failures \in 0 .. MaxFailures
      /\ outOfReach' \subseteq NewsArticles
      /\ UNCHANGED <<known, valid, outOfReach, horizon, decisions, scoreMark, feed>>
  BY NewsTypes DEF ScoringInv, GetDecision, LoopStep, judged, collected
<1>2. NothingIsUndone
  BY <1>1 DEF NothingIsUndone
<1>3. CASE KeyOf(HeadOf(l)) \in DOMAIN decisions
  <2>1. PICK head : head = HeadOf(l)
    OBVIOUS
  <2>2. Explained(head)'
    BY <1>1, <1>3, <2>1 DEF Explained, KeyOf
  <2>3. PICK me : me = Judged(l, loop[l].remaining)
    OBVIOUS
  <2>4. loop[l].remaining \in 0 .. MaxPerTick
    BY <1>1 DEF Scan
  <2>5. me \in Scan /\ ScanHolds(me)'
    BY <1>1, <1>2, <2>1, <2>2, <2>3, <2>4, JudgedHolds
  <2>6. loop' = [loop EXCEPT ![l] = me]
    BY <1>3, <2>3 DEF GetDecision, LoopStep
  <2>7. ScoringInv'
    BY <1>1, <1>2, <2>5, <2>6, ScanStep
  <2>. QED
    BY <1>2, <2>7
<1>4. CASE KeyOf(HeadOf(l)) \notin DOMAIN decisions
  <2>1. PICK me : me = [loop[l] EXCEPT !.at = "score"]
    OBVIOUS
  <2>2. loop' = [loop EXCEPT ![l] = me]
    BY <1>4, <2>1 DEF GetDecision, LoopStep
  <2>3. /\ me \in Scan /\ me.at = "score" /\ me.index = loop[l].index /\ me.since = loop[l].since
        /\ me.remaining = loop[l].remaining /\ me.page = loop[l].page /\ me.last = loop[l].last
    BY <1>1, <2>1 DEF Scan, LoopStates
  <2>. QED
    BY <1>1, <2>2, <2>3, Onwards
<1>. QED
  BY <1>3, <1>4

LEMMA ThrowsStep ==
  ASSUME ScoringInv, NEW l \in Loops, Throws(l)
  PROVE  ScoringInv' /\ NothingIsUndone
<1>1. /\ failures' \in 0 .. MaxFailures /\ loop' = [loop EXCEPT ![l] = Asleep]
      /\ UNCHANGED <<known, valid, outOfReach, horizon, decisions, scoreMark, feed>>
  BY NewsTypes DEF ScoringInv, Throws, Fails, TickOver, judged, collected
<1>2. PICK me \in Scan : me = Asleep
  BY Sleeps
<1>3. ScanHolds(me)
  BY <1>2, Sleeps DEF ScanHolds
<1>. QED
  BY <1>1, <1>2, <1>3, ReadingStep

LEMMA SetCursorStep ==
  ASSUME ScoringInv, NEW l \in Loops, SetCursor(l)
  PROVE  ScoringInv' /\ NothingIsUndone
<1>. DEFINE s == SourceOrder[loop[l].index]
            again == (loop[l].last # Nothing /\ loop[l].last # loop[l].since) /\ loop[l].more /\ loop[l].remaining > 0
<1>1. /\ loop[l] \in Scan /\ ScanHolds(loop[l]) /\ loop[l].at = "cursor" /\ failures' = failures
      /\ UNCHANGED <<known, valid, outOfReach, horizon, decisions, feed>>
      /\ loop' = [loop EXCEPT ![l] = IF again THEN [loop[l] EXCEPT !.at = "page", !.since = loop[l].last, !.page = {}]
                                     ELSE NextSource(l)]
      /\ scoreMark' = IF loop[l].last = Nothing THEN scoreMark ELSE [scoreMark EXCEPT ![s] = loop[l].last]
  BY NewsTypes DEF ScoringInv, SetCursor, LoopStep, collected
<1>2. loop[l].index \in 1 .. Len(SourceOrder) /\ loop[l].last \in Nat /\ Passed(s, loop[l].last) /\ s \in Sources
  BY <1>1 DEF ScanHolds, Scan, Sources
<1>3. NothingIsUndone
  BY <1>1 DEF NothingIsUndone
<1>4. \E me \in Scan : ScanHolds(me) /\ loop' = [loop EXCEPT ![l] = me]
  <2>1. CASE again
    <3>1. PICK me : me = [loop[l] EXCEPT !.at = "page", !.since = loop[l].last, !.page = {}]
      OBVIOUS
    <3>2. /\ me \in Scan /\ me.at = "page" /\ me.since = loop[l].last /\ me.index = loop[l].index
          /\ me.remaining = loop[l].remaining
      BY <1>1, <1>2, <3>1 DEF Scan, LoopStates
    <3>3. ScanHolds(me)
      BY <1>2, <2>1, <3>2 DEF ScanHolds
    <3>. QED
      BY <1>1, <2>1, <3>1, <3>2, <3>3
  <2>2. CASE ~again
    <3>1. PICK me : me = NextSource(l)
      OBVIOUS
    <3>2. me \in Scan /\ ScanHolds(me)
      BY <1>2, <3>1, NextSourceHolds
    <3>. QED
      BY <1>1, <2>2, <3>1, <3>2
  <2>. QED
    BY <2>1, <2>2
<1>5. PICK me \in Scan : ScanHolds(me)' /\ loop' = [loop EXCEPT ![l] = me]
  BY <1>3, <1>4, ScanGoesOn
<1>6. loop' \in [Loops -> Scan] /\ (\A k \in Loops : ScanHolds(loop[k]))'
  BY <1>3, <1>5, LoopMoves
<1>7. scoreMark \in [Sources -> Nat] /\ scoreMark' \in [Sources -> Nat]
  BY <1>1, <1>2, NewsTypes DEF ScoringInv
<1>8. NewsTypeOK'
  BY <1>1, <1>6, <1>7, NewsTypes DEF ScoringInv, NewsTypeOK, Scan
<1>9. ASSUME NEW source \in Sources PROVE Passed(source, scoreMark[source])'
  <2>1. CASE scoreMark'[source] = scoreMark[source]
    <3>1. PICK mark : mark = scoreMark[source]
      OBVIOUS
    <3>2. Passed(source, mark)'
      BY <1>3, <3>1, PassedForGood DEF ScoringInv
    <3>. QED
      BY <2>1, <3>1, <3>2
  <2>2. CASE scoreMark'[source] # scoreMark[source]
    <3>1. source = s /\ scoreMark'[source] = loop[l].last
      BY <1>1, <1>7, <2>2
    <3>2. PICK mark : mark = loop[l].last
      OBVIOUS
    <3>3. Passed(source, mark)'
      BY <1>2, <1>3, <3>1, <3>2, PassedForGood
    <3>. QED
      BY <3>1, <3>2, <3>3
  <2>. QED
    BY <2>1, <2>2
<1>. QED
  BY <1>3, <1>6, <1>8, <1>9 DEF ScoringInv

LEMMA UpsertStep ==
  ASSUME ScoringInv, NEW l \in Loops, Upsert(l)
  PROVE  ScoringInv' /\ NothingIsUndone
<1>1. PICK head : head = HeadOf(l)
  OBVIOUS
<1>2. PICK written : written = [admit |-> loop[l].verdict = "admit", stamp |-> IsoString(Stamp[head]), id |-> head]
  OBVIOUS
<1>3. PICK k : k = KeyOf(head)
  OBVIOUS
<1>4. /\ loop[l] \in Scan /\ ScanHolds(loop[l]) /\ loop[l].at = "upsert"
      /\ UNCHANGED <<known, valid, outOfReach, horizon, scoreMark, failures>>
      /\ loop' = [loop EXCEPT ![l] = Judged(l, loop[l].remaining - 1)]
      /\ decisions' = [x \in DOMAIN decisions \cup {k} |-> IF x = k THEN written ELSE decisions[x]]
      /\ feed' = IF k \in DOMAIN decisions /\ feed.view = "it-v4"
                 THEN [feed EXCEPT !.goal = @ \ {HashOf[head]}] ELSE feed
  BY <1>1, <1>2, <1>3, NewsTypes DEF ScoringInv, Upsert, LoopStep, collected
<1>5. /\ \A x \in DOMAIN decisions : x \in Key /\ decisions[x] \in Decision
      /\ feed \in FeedState
  BY NewsTypes DEF ScoringInv
<1>6. head \in NewsArticles
  <2>1. loop[l].page \in SUBSET NewsArticles /\ loop[l].page # {}
    BY <1>4 DEF ScanHolds, Scan
  <2>. QED
    BY <1>1, <2>1, Earliest DEF HeadOf
<1>7. NothingIsUndone
  BY <1>4 DEF NothingIsUndone
<1>8. Explained(head)'
  BY <1>3, <1>4 DEF Explained, KeyOf
<1>9. loop[l].remaining - 1 \in 0 .. MaxPerTick
  <2>1. loop[l].remaining \in 0 .. MaxPerTick /\ loop[l].remaining > 0
    BY <1>4 DEF ScanHolds, Scan
  <2>. QED
    BY <2>1
<1>10. PICK me : me = Judged(l, loop[l].remaining - 1)
  OBVIOUS
<1>11. me \in Scan /\ ScanHolds(me)'
  BY <1>1, <1>4, <1>7, <1>8, <1>9, <1>10, JudgedHolds
<1>12. loop' \in [Loops -> Scan] /\ (\A j \in Loops : ScanHolds(loop[j]))'
  BY <1>4, <1>7, <1>10, <1>11, LoopMoves
<1>13. (\A s \in Sources : Passed(s, scoreMark[s]))'
  BY <1>4, <1>7, MarksStay
<1>14. \A x \in DOMAIN decisions' : x \in Key /\ decisions'[x] \in Decision
  <2>1. written \in Decision
    <3>1. (loop[l].verdict = "admit") \in BOOLEAN
      OBVIOUS
    <3>. QED
      BY <1>2, <1>6, <3>1, IsoStringCuts DEF Decision
  <2>2. k \in Key
    BY <1>3, <1>6 DEF KeyOf, Key, Sources, Hashes
  <2>. QED
    BY <1>4, <1>5, <2>1, <2>2
<1>15. feed' \in FeedState
  <2>1. feed.goal \ {HashOf[head]} \in SUBSET (NewsArticles \cup Hashes)
    BY <1>5 DEF FeedState
  <2>. QED
    BY <1>4, <1>5, <2>1 DEF FeedState
<1>16. NewsTypeOK'
  BY <1>4, <1>12, <1>14, <1>15, NewsTypes DEF ScoringInv, NewsTypeOK, Scan, FeedState
<1>. QED
  BY <1>7, <1>12, <1>13, <1>16 DEF ScoringInv

\* The crawler collects, articles are withdrawn, time passes.
LEMMA CrawlerStep ==
  ASSUME ScoringInv, NEW a \in NewsArticles, Collect(a) \/ TakeDown(a) \/ TimePasses
  PROVE  ScoringInv' /\ NothingIsUndone
<1>1. /\ UNCHANGED <<decisions, scoreMark, loop, failures>>
      /\ feed' = feed \/ feed' = [feed EXCEPT !.goal = @ \ {Shown(feed.view, a)}]
      /\ horizon' = horizon \/ (horizon < MaxHorizon /\ horizon' = horizon + 1)
  BY DEF Collect, TakeDown, TimePasses, judged
<1>2. /\ valid \subseteq known /\ known \subseteq NewsArticles /\ outOfReach \subseteq NewsArticles
      /\ horizon \in 0 .. MaxHorizon /\ feed \in FeedState
  BY NewsTypes DEF ScoringInv
<1>3. NothingIsUndone
  BY <1>1, <1>2 DEF NothingIsUndone, Collect, TakeDown, TimePasses, collected, judged
<1>4. valid' \subseteq known' /\ known' \subseteq NewsArticles /\ outOfReach' \subseteq NewsArticles
  BY <1>2 DEF Collect, TakeDown, TimePasses
<1>5. horizon' \in 0 .. MaxHorizon
  BY <1>1, <1>2
<1>6. feed' \in FeedState
  <2>1. feed.goal \ {Shown(feed.view, a)} \in SUBSET (NewsArticles \cup Hashes)
    BY <1>2 DEF FeedState
  <2>. QED
    BY <1>1, <1>2, <2>1 DEF FeedState
<1>7. NewsTypeOK'
  BY <1>1, <1>4, <1>5, <1>6, NewsTypes DEF ScoringInv, NewsTypeOK, Scan, FeedState
<1>8. (\A s \in Sources : Passed(s, scoreMark[s]))' /\ (\A l \in Loops : ScanHolds(loop[l]))'
  BY <1>1, <1>3, MarksStay, LoopsStay
<1>. QED
  BY <1>3, <1>7, <1>8 DEF ScoringInv

\* Who reads the feed changes nothing of it.
LEMMA ReaderStep ==
  ASSUME ScoringInv, UNCHANGED <<collected, judged, loop, failures>>, feed' \in FeedState
  PROVE  ScoringInv'
<1>1. UNCHANGED <<known, valid, outOfReach, horizon, decisions, scoreMark, loop, failures>>
  BY DEF collected, judged
<1>2. NothingIsUndone
  BY <1>1 DEF NothingIsUndone
<1>3. NewsTypeOK'
  BY <1>1, NewsTypes DEF ScoringInv, NewsTypeOK, Scan, FeedState
<1>4. (\A s \in Sources : Passed(s, scoreMark[s]))' /\ (\A l \in Loops : ScanHolds(loop[l]))'
  BY <1>1, <1>2, MarksStay, LoopsStay
<1>. QED
  BY <1>3, <1>4 DEF ScoringInv

-----------------------------------------------------------------------------
(* The feed.  Rows are ordered, so what a page leaves out lies behind the  *)
(* row that its cursor names.                                              *)

\* A set of rows that a query lists: known by their ids.
ListedRows(rows) ==
  \A r \in rows : r.id \in NewsArticles /\ r.at \in Nat /\ \A q \in rows : r.id = q.id => r = q

LEMMA RowsAreFinite == ASSUME NEW rows, ListedRows(rows) PROVE IsFiniteSet(rows)
<1>. DEFINE ids == [r \in rows |-> r.id]
<1>1. ids \in Injection(rows, NewsArticles)
  BY DEF ListedRows, Injection, IsInjective
<1>. HIDE DEF ids
<1>. QED
  BY <1>1, FS_Injection

LEMMA NewerOfRows ==
  ASSUME NEW rows, ListedRows(rows), NEW r \in rows, NEW q \in rows
  PROVE  /\ r # q => (Newer(r, q) <=> ~Newer(q, r))
         /\ ~Newer(r, r)
         /\ \A p \in rows : Newer(r, q) /\ Newer(q, p) => Newer(r, p)
<1>1. r.id \in Nat /\ q.id \in Nat /\ r.at \in Nat /\ q.at \in Nat /\ (r # q => r.id # q.id)
  BY DEF ListedRows
<1>2. ASSUME NEW p \in rows, Newer(r, q), Newer(q, p) PROVE Newer(r, p)
  <2>1. p.id \in Nat /\ p.at \in Nat
    BY DEF ListedRows
  <2>. QED
    BY <1>1, <1>2, <2>1 DEF Newer
<1>3. r # q => (Newer(r, q) <=> ~Newer(q, r))
  BY <1>1 DEF Newer
<1>4. ~Newer(r, r)
  BY <1>1 DEF Newer
<1>. QED
  BY <1>2, <1>3, <1>4

NewerThan(r, rows) == {q \in rows : Newer(q, r)}

LEMMA NewerThanGrows ==
  ASSUME NEW rows, ListedRows(rows), NEW r \in rows, NEW q \in rows, Newer(q, r)
  PROVE  /\ Cardinality(NewerThan(q, rows)) < Cardinality(NewerThan(r, rows))
         /\ Cardinality(NewerThan(q, rows)) \in Nat /\ Cardinality(NewerThan(r, rows)) \in Nat
<1>1. NewerThan(q, rows) \subseteq NewerThan(r, rows) \ {q}
  BY NewerOfRows DEF NewerThan
<1>2. q \in NewerThan(r, rows) /\ NewerThan(r, rows) \subseteq rows
  BY DEF NewerThan
<1>3. IsFiniteSet(NewerThan(r, rows))
  BY <1>2, RowsAreFinite, FS_Subset
<1>4. /\ IsFiniteSet(NewerThan(r, rows) \ {q})
      /\ Cardinality(NewerThan(r, rows) \ {q}) = Cardinality(NewerThan(r, rows)) - 1
  BY <1>2, <1>3, FS_RemoveElement
<1>5. IsFiniteSet(NewerThan(q, rows)) /\ Cardinality(NewerThan(q, rows)) <= Cardinality(NewerThan(r, rows) \ {q})
  BY <1>1, <1>4, FS_Subset
<1>6. Cardinality(NewerThan(q, rows)) \in Nat /\ Cardinality(NewerThan(r, rows)) \in Nat
  BY <1>3, <1>5, FS_CardinalityType
<1>. QED
  BY <1>4, <1>5, <1>6

\* A page of anything has a last row.
LEMMA PageHasLast ==
  ASSUME NEW rows, ListedRows(rows), rows # {}
  PROVE  /\ LastOf(FeedPage(rows)) \in FeedPage(rows)
         /\ \A q \in FeedPage(rows) \ {LastOf(FeedPage(rows))} : Newer(q, LastOf(FeedPage(rows)))
<1>. DEFINE rank(r) == Cardinality(NewerThan(r, rows))
            ranks == {rank(r) : r \in rows}
            page == FeedPage(rows)
<1>1. \A r \in rows : IsFiniteSet(NewerThan(r, rows)) /\ rank(r) \in Nat /\ NewerThan(r, rows) \subseteq rows
  <2>1. \A r \in rows : NewerThan(r, rows) \subseteq rows
    BY DEF NewerThan
  <2>. QED
    BY <2>1, RowsAreFinite, FS_Subset, FS_CardinalityType
<1>2. \A r \in rows : r \in page <=> rank(r) < FeedLimit
  BY DEF FeedPage, NewerThan
<1>3. page \subseteq rows
  BY DEF FeedPage
<1>. HIDE DEF page
<1>4. PICK x \in rows : TRUE
  OBVIOUS
<1>5. page # {}
  <2>1. PICK n \in ranks : \A y \in ranks : ~(<<y, n>> \in OpToRel(<, Nat))
    <3>1. ranks \subseteq Nat /\ rank(x) \in ranks
      BY <1>1, <1>4
    <3>. HIDE DEF ranks, rank
    <3>. QED
      BY <3>1, NatLessThanWellFounded, WFMin
  <2>2. PICK r \in rows : rank(r) = n
    OBVIOUS
  <2>3. ASSUME NEW q \in rows, Newer(q, r) PROVE FALSE
    <3>1. rank(q) < rank(r) /\ rank(q) \in Nat /\ rank(r) \in Nat /\ rank(q) \in ranks
      BY <2>3, NewerThanGrows
    <3>. QED
      BY <2>1, <2>2, <3>1 DEF OpToRel
  <2>4. NewerThan(r, rows) = {}
    BY <2>3 DEF NewerThan
  <2>5. rank(r) = 0
    BY <2>4, FS_EmptySet
  <2>. HIDE DEF rank
  <2>6. r \in page
    BY <1>2, <2>5
  <2>. QED
    BY <2>6
<1>6. LastOf(page) \in page /\ \A q \in page \ {LastOf(page)} : Newer(q, LastOf(page))
  <2>. DEFINE time == [r \in page |-> r.at]
              id == [r \in page |-> r.id]
  <2>1. /\ time \in [page -> Nat] /\ id \in [page -> Nat] /\ \A r, q \in page : id[r] = id[q] => r = q
    BY <1>3 DEF ListedRows
  <2>2. \E r \in page : \A q \in page \ {r} : time[r] < time[q] \/ (time[r] = time[q] /\ id[r] < id[q])
    <3>. HIDE DEF time, id
    <3>. QED
      BY ONLY <1>5, <2>1, FirstExists
  <2>3. \E r \in page : \A q \in page \ {r} : Newer(q, r)
    <3>1. PICK r \in page : \A q \in page \ {r} : time[r] < time[q] \/ (time[r] = time[q] /\ id[r] < id[q])
      BY <2>2
    <3>2. ASSUME NEW q \in page \ {r} PROVE Newer(q, r)
      <4>1. r.at < q.at \/ (r.at = q.at /\ r.id < q.id)
        BY <3>1
      <4>2. r.at \in Nat /\ q.at \in Nat /\ r.id \in Nat /\ q.id \in Nat
        BY <1>3 DEF ListedRows
      <4>. QED
        BY <4>1, <4>2 DEF Newer
    <3>. QED
      BY <3>2
  <2>. QED
    BY <2>3 DEF LastOf
<1>. QED
  BY <1>6 DEF page

\* Who is left out of a page is older than its last row, and makes it say that there is more.
LEMMA PageLeavesOut ==
  ASSUME NEW rows, ListedRows(rows), NEW x \in rows, x \notin FeedPage(rows)
  PROVE  /\ Cardinality(rows) > FeedLimit
         /\ LastOf(FeedPage(rows)) \in FeedPage(rows) /\ Newer(LastOf(FeedPage(rows)), x)
<1>. DEFINE rank(r) == Cardinality(NewerThan(r, rows))
            page == FeedPage(rows)
<1>1. \A r \in rows : IsFiniteSet(NewerThan(r, rows)) /\ rank(r) \in Nat /\ NewerThan(r, rows) \subseteq rows
  <2>1. \A r \in rows : NewerThan(r, rows) \subseteq rows
    BY DEF NewerThan
  <2>. QED
    BY <2>1, RowsAreFinite, FS_Subset, FS_CardinalityType
<1>2. \A r \in rows : r \in page <=> rank(r) < FeedLimit
  BY DEF FeedPage, NewerThan
<1>3. page \subseteq rows
  BY DEF FeedPage
<1>. HIDE DEF page
<1>4. Cardinality(rows) > FeedLimit
  <2>1. ~Newer(x, x)
    BY NewerOfRows
  <2>2. x \notin NewerThan(x, rows)
    BY <2>1 DEF NewerThan
  <2>3. IsFiniteSet(NewerThan(x, rows) \cup {x}) /\ Cardinality(NewerThan(x, rows) \cup {x}) = rank(x) + 1
    BY <1>1, <2>2, FS_AddElement
  <2>4. NewerThan(x, rows) \cup {x} \subseteq rows
    BY <1>1
  <2>5. Cardinality(NewerThan(x, rows) \cup {x}) <= Cardinality(rows) /\ Cardinality(rows) \in Nat
    BY <2>3, <2>4, RowsAreFinite, FS_Subset, FS_CardinalityType
  <2>6. ~(rank(x) < FeedLimit) /\ rank(x) \in Nat
    BY <1>1, <1>2 DEF page
  <2>. HIDE DEF rank
  <2>. QED
    BY <2>3, <2>5, <2>6
<1>5. LastOf(page) \in page
  BY PageHasLast DEF page
<1>6. Newer(LastOf(page), x)
  <2>1. LastOf(page) \in rows /\ LastOf(page) # x /\ rank(LastOf(page)) < FeedLimit /\ ~(rank(x) < FeedLimit)
    BY <1>2, <1>3, <1>5 DEF page
  <2>2. ASSUME Newer(x, LastOf(page)) PROVE FALSE
    <3>1. rank(x) < rank(LastOf(page)) /\ rank(x) \in Nat /\ rank(LastOf(page)) \in Nat
      BY <2>1, <2>2, NewerThanGrows
    <3>. HIDE DEF rank
    <3>. QED
      BY <2>1, <3>1
  <2>. QED
    BY <2>1, <2>2, NewerOfRows
<1>. QED
  BY <1>4, <1>5, <1>6 DEF page

\* Every verdict keeps the article it was given on, with its millisecond.
VerdictsKept ==
  \A k \in DOMAIN decisions :
    KeyOf(decisions[k].id) = k /\ decisions[k].stamp = IsoString(Stamp[decisions[k].id])

\* An article is shown, or one of its millisecond that is no older.
Shows(x) == \E y \in feed.seen : Stamp[y] >= Stamp[x] /\ IsoString(Stamp[y]) = IsoString(Stamp[x])
ArticlesShown ==
  /\ feed.at # "hydrate" /\ feed.goal \subseteq InView(feed.view, feed.sources)
  /\ \A x \in feed.goal : Shows(x) \/ (feed.at = "page" /\ BeforeCursor(Stamp[x], x, feed.cursor))

\* An admitted verdict is shown, or still to come: on a page, or among what is hydrated.
Coming(k) ==
  LET ahead == BeforeCursor(decisions[k].stamp, decisions[k].id, feed.cursor) IN
  \/ feed.at = "page" /\ ahead
  \/ feed.at = "hydrate" /\ (decisions[k].id \in feed.rows \/ (feed.cursor # <<0, 0>> /\ ahead))
VerdictsShown ==
  \A h \in feed.goal : h \in feed.seen \/ \E k \in Admitted(feed.sources) : k[2] = h /\ Alive(k) # {} /\ Coming(k)

FeedInv ==
  /\ VerdictsKept
  /\ feed.view # "it-v4" => ArticlesShown
  /\ feed.view = "it-v4" => VerdictsShown

LEMMA FeedStart == NewsInit => FeedInv
<1>1. NoFeed.goal = {} /\ NoFeed.at = "idle" /\ NoFeed.view = "mixed"
  BY DEF NoFeed
<1>. QED
  BY <1>1 DEF NewsInit, FeedInv, VerdictsKept, ArticlesShown

\* Whoever moves no verdict and withdraws nothing leaves a feed as it is.
LEMMA FeedLooksOn ==
  ASSUME FeedInv, UNCHANGED <<decisions, feed>>, valid \subseteq valid'
  PROVE  FeedInv'
<1>1. VerdictsKept'
  BY DEF FeedInv, VerdictsKept
<1>2. ASSUME feed.view # "it-v4" PROVE ArticlesShown'
  <2>1. InView(feed.view, feed.sources) \subseteq InView(feed.view, feed.sources)'
    BY DEF InView
  <2>. QED
    BY <1>2, <2>1 DEF FeedInv, ArticlesShown, Shows
<1>3. ASSUME feed.view = "it-v4" PROVE VerdictsShown'
  <2>1. ASSUME NEW k, Alive(k) # {} PROVE (Alive(k) # {})'
    BY <2>1 DEF Alive
  <2>. QED
    BY <1>3, <2>1 DEF FeedInv, VerdictsShown, Admitted, Coming
<1>. QED
  BY <1>1, <1>2, <1>3 DEF FeedInv

LEMMA TakeDownFeed ==
  ASSUME ScoringInv, FeedInv, NEW a \in NewsArticles, TakeDown(a)
  PROVE  FeedInv'
<1>1. feed \in FeedState
  BY NewsTypes DEF ScoringInv
<1>2. /\ valid' = valid \ {a} /\ decisions' = decisions
      /\ feed'.at = feed.at /\ feed'.view = feed.view /\ feed'.sources = feed.sources /\ feed'.cursor = feed.cursor
      /\ feed'.rows = feed.rows /\ feed'.seen = feed.seen /\ feed'.goal = feed.goal \ {Shown(feed.view, a)}
  BY <1>1 DEF TakeDown, judged, FeedState
<1>3. VerdictsKept'
  BY <1>2 DEF FeedInv, VerdictsKept
<1>4. ASSUME feed.view # "it-v4" PROVE ArticlesShown'
  <2>1. Shown(feed.view, a) = a
    BY <1>4 DEF Shown
  <2>2. ArticlesShown
    BY <1>4 DEF FeedInv
  <2>3. feed'.goal \subseteq InView(feed.view, feed.sources)'
    BY <1>2, <2>1, <2>2 DEF ArticlesShown, InView
  <2>4. \A x \in feed'.goal : Shows(x)' \/ (feed'.at = "page" /\ BeforeCursor(Stamp[x], x, feed'.cursor))
    BY <1>2, <2>2 DEF ArticlesShown, Shows
  <2>. QED
    BY <1>2, <2>2, <2>3, <2>4 DEF ArticlesShown
<1>5. ASSUME feed.view = "it-v4" PROVE VerdictsShown'
  <2>1. Shown(feed.view, a) = HashOf[a] /\ VerdictsShown
    BY <1>5 DEF Shown, FeedInv
  <2>2. ASSUME NEW h \in feed'.goal, h \notin feed.seen
        PROVE  \E k \in Admitted(feed.sources) : k[2] = h /\ Alive(k)' # {} /\ Coming(k)
    <3>1. PICK k \in Admitted(feed.sources) : k[2] = h /\ Alive(k) # {} /\ Coming(k)
      BY <1>2, <2>1, <2>2 DEF VerdictsShown
    <3>2. KeyOf(a) # k
      BY <1>2, <2>1, <3>1 DEF KeyOf
    <3>3. Alive(k)' = Alive(k)
      BY <1>2, <3>2 DEF Alive
    <3>. QED
      BY <3>1, <3>3
  <2>3. ASSUME NEW k, Coming(k) PROVE Coming(k)'
    BY <1>2, <2>3 DEF Coming
  <2>4. Admitted(feed.sources)' = Admitted(feed.sources)
    BY <1>2 DEF Admitted
  <2>. QED
    BY <1>2, <2>2, <2>3, <2>4 DEF VerdictsShown
<1>. QED
  BY <1>2, <1>3, <1>4, <1>5 DEF FeedInv

LEMMA UpsertFeed ==
  ASSUME ScoringInv, FeedInv, NEW l \in Loops, Upsert(l)
  PROVE  FeedInv'
<1>1. PICK head : head = HeadOf(l)
  OBVIOUS
<1>2. PICK written : written = [admit |-> loop[l].verdict = "admit", stamp |-> IsoString(Stamp[head]), id |-> head]
  OBVIOUS
<1>3. PICK k : k = KeyOf(head)
  OBVIOUS
<1>4. /\ valid' = valid
      /\ decisions' = [x \in DOMAIN decisions \cup {k} |-> IF x = k THEN written ELSE decisions[x]]
      /\ feed' = IF k \in DOMAIN decisions /\ feed.view = "it-v4"
                 THEN [feed EXCEPT !.goal = @ \ {HashOf[head]}] ELSE feed
  BY <1>1, <1>2, <1>3 DEF Upsert, collected
<1>5. feed \in FeedState
  BY NewsTypes DEF ScoringInv
<1>6. VerdictsKept'
  <2>1. ASSUME NEW x \in DOMAIN decisions'
        PROVE  KeyOf(decisions'[x].id) = x /\ decisions'[x].stamp = IsoString(Stamp[decisions'[x].id])
    <3>1. CASE x = k
      BY <1>2, <1>3, <1>4, <3>1
    <3>2. CASE x # k
      BY <1>4, <3>2 DEF FeedInv, VerdictsKept
    <3>. QED
      BY <3>1, <3>2
  <2>2. \A i : KeyOf(i)' = KeyOf(i)
    BY DEF KeyOf
  <2>. QED
    BY <2>1, <2>2 DEF VerdictsKept
<1>7. ASSUME feed.view # "it-v4" PROVE ArticlesShown' /\ feed' = feed
  BY <1>4, <1>7 DEF FeedInv, ArticlesShown, Shows, InView
<1>8. ASSUME feed.view = "it-v4" PROVE VerdictsShown' /\ feed'.view = feed.view
  <2>1. /\ feed'.at = feed.at /\ feed'.view = feed.view /\ feed'.sources = feed.sources /\ feed'.cursor = feed.cursor
        /\ feed'.rows = feed.rows /\ feed'.seen = feed.seen /\ feed'.goal \subseteq feed.goal
        /\ k \in DOMAIN decisions => HashOf[head] \notin feed'.goal
    BY <1>4, <1>5, <1>8 DEF FeedState
  <2>2. ASSUME NEW h \in feed'.goal, h \notin feed.seen
        PROVE  \E q \in Admitted(feed.sources)' : q[2] = h /\ Alive(q)' # {} /\ Coming(q)'
    <3>1. PICK q \in Admitted(feed.sources) : q[2] = h /\ Alive(q) # {} /\ Coming(q)
      BY <1>8, <2>1, <2>2 DEF FeedInv, VerdictsShown
    <3>2. q \in DOMAIN decisions /\ decisions[q].admit /\ q[1] \in feed.sources
      BY <3>1 DEF Admitted
    <3>3. q # k
      <4>1. k[2] = HashOf[head]
        BY <1>3 DEF KeyOf
      <4>. QED
        BY <2>1, <2>2, <3>1, <3>2, <4>1
    <3>4. q \in DOMAIN decisions' /\ decisions'[q] = decisions[q]
      BY <1>4, <3>2, <3>3
    <3>5. q \in Admitted(feed.sources)'
      BY <2>1, <3>2, <3>4 DEF Admitted
    <3>6. Alive(q)' # {}
      BY <1>4, <3>1 DEF Alive
    <3>7. Coming(q)'
      BY <2>1, <3>1, <3>4 DEF Coming
    <3>. QED
      BY <3>1, <3>5, <3>6, <3>7
  <2>. QED
    BY <2>1, <2>2 DEF VerdictsShown
<1>. QED
  BY <1>6, <1>7, <1>8 DEF FeedInv

\* The rows of a view can be listed.
LEMMA RowsOfView ==
  ASSUME ScoringInv, FeedInv
  PROVE  ListedRows(FeedRows(feed.view, feed.sources))
<1>1. /\ valid \subseteq NewsArticles
      /\ \A k \in DOMAIN decisions : decisions[k] \in Decision /\ KeyOf(decisions[k].id) = k
  BY NewsTypes DEF ScoringInv, FeedInv, VerdictsKept
<1>2. CASE feed.view = "it-v4"
  <2>1. FeedRows(feed.view, feed.sources) =
          {[id |-> decisions[k].id, at |-> decisions[k].stamp] : k \in Admitted(feed.sources)}
    BY <1>2 DEF FeedRows
  <2>2. \A k \in Admitted(feed.sources) : decisions[k].id \in NewsArticles /\ decisions[k].stamp \in Nat /\ KeyOf(decisions[k].id) = k
    BY <1>1 DEF Admitted, Decision
  <2>3. ASSUME NEW r \in FeedRows(feed.view, feed.sources), NEW q \in FeedRows(feed.view, feed.sources)
        PROVE  r.id \in NewsArticles /\ r.at \in Nat /\ (r.id = q.id => r = q)
    <3>1. PICK k \in Admitted(feed.sources) : r = [id |-> decisions[k].id, at |-> decisions[k].stamp]
      BY <2>1
    <3>2. PICK j \in Admitted(feed.sources) : q = [id |-> decisions[j].id, at |-> decisions[j].stamp]
      BY <2>1
    <3>. QED
      BY <2>2, <3>1, <3>2
  <2>. QED
    BY <2>3 DEF ListedRows
<1>3. CASE feed.view # "it-v4"
  <2>1. FeedRows(feed.view, feed.sources) = {[id |-> a, at |-> Stamp[a]] : a \in InView(feed.view, feed.sources)}
    BY <1>3 DEF FeedRows
  <2>2. \A a \in InView(feed.view, feed.sources) : a \in NewsArticles /\ Stamp[a] \in Nat
    BY <1>1 DEF InView
  <2>. QED
    BY <2>1, <2>2 DEF ListedRows
<1>. QED
  BY <1>2, <1>3

\* What a page leaves out comes behind its cursor, or within the millisecond of its last row.
LEMMA CursorLeavesOut ==
  ASSUME NEW rows, ListedRows(rows), NEW x \in rows, x \notin FeedPage(rows), NEW last, last = LastOf(FeedPage(rows)),
         NEW cursor, cursor = CursorOf(last)
  PROVE  \/ BeforeCursor(x.at, x.id, cursor)
         \/ last.at >= x.at /\ IsoString(last.at) = IsoString(x.at) /\ last.at # IsoString(last.at)
<1>1. last \in rows /\ Newer(last, x)
  BY PageLeavesOut DEF FeedPage
<1>2. x.at \in Nat /\ x.id \in Nat /\ last.at \in Nat /\ last.id \in Nat
  BY <1>1 DEF ListedRows
<1>3. cursor[1] = IsoString(last.at) /\ cursor[2] = last.id /\ IsoString(last.at) \in Nat /\ IsoString(last.at) <= last.at
  BY <1>2, IsoStringCuts DEF CursorOf
<1>4. last.at > x.at \/ (last.at = x.at /\ last.id > x.id)
  BY <1>1 DEF Newer
<1>5. CASE x.at < IsoString(last.at)
  BY <1>3, <1>5 DEF BeforeCursor
<1>6. CASE x.at >= IsoString(last.at)
  <2>1. IsoString(x.at) = IsoString(last.at) /\ last.at >= x.at
    BY <1>2, <1>3, <1>4, <1>6, SameMillisecond
  <2>2. CASE last.at = IsoString(last.at)
    <3>1. x.at = cursor[1] /\ x.id < cursor[2]
      BY <1>2, <1>3, <1>4, <1>6, <2>1, <2>2
    <3>. QED
      BY <3>1 DEF BeforeCursor
  <2>. QED
    BY <2>1, <2>2
<1>. QED
  BY <1>2, <1>3, <1>5, <1>6

FeedAt(at, cursor, rows, seen) ==
  /\ feed'.at = at /\ feed'.cursor = cursor /\ feed'.rows = rows /\ feed'.seen = seen
  /\ feed'.view = feed.view /\ feed'.sources = feed.sources /\ feed'.goal = feed.goal

LEMMA BeginFeedStep ==
  ASSUME ScoringInv, FeedInv, BeginFeed
  PROVE  feed' \in FeedState /\ FeedInv'
<1>1. PICK view \in {"channel", "mixed", "it-v4"}, sources \in SUBSET Sources :
        feed' = [NoFeed EXCEPT
                 !.at = "page", !.view = view, !.sources = sources,
                 !.goal = IF view = "it-v4" THEN {k[2] : k \in {x \in Admitted(sources) : Alive(x) # {}}}
                          ELSE InView(view, sources)]
  BY DEF BeginFeed
<1>2. /\ feed'.at = "page" /\ feed'.view = view /\ feed'.sources = sources /\ feed'.cursor = <<0, 0>>
      /\ feed'.rows = {} /\ feed'.seen = {}
      /\ feed'.goal = IF view = "it-v4" THEN {k[2] : k \in {x \in Admitted(sources) : Alive(x) # {}}}
                      ELSE InView(view, sources)
  BY <1>1 DEF NoFeed
<1>3. feed'.goal \subseteq NewsArticles \cup Hashes
  <2>1. valid \subseteq NewsArticles /\ \A k \in DOMAIN decisions : k \in Key
    BY NewsTypes DEF ScoringInv
  <2>2. \A k \in Admitted(sources) : k[2] \in Hashes
    BY <2>1 DEF Admitted, Key
  <2>3. InView(view, sources) \subseteq NewsArticles
    BY <2>1 DEF InView
  <2>4. {k[2] : k \in {x \in Admitted(sources) : Alive(x) # {}}} \subseteq Hashes
    BY <2>2
  <2>. QED
    BY <1>2, <2>3, <2>4
<1>4. feed' \in FeedState
  <2>1. NoFeed \in FeedState
    BY DEF NoFeed, FeedState
  <2>2. PICK goal \in SUBSET (NewsArticles \cup Hashes) : goal = feed'.goal
    BY <1>3
  <2>3. feed' = [NoFeed EXCEPT !.at = "page", !.view = view, !.sources = sources, !.goal = goal]
    BY <1>1, <1>2, <2>2
  <2>. QED
    BY <2>1, <2>3 DEF FeedState
<1>5. UNCHANGED <<known, valid, decisions>>
  BY DEF BeginFeed, collected, judged
<1>6. VerdictsKept'
  BY <1>5 DEF FeedInv, VerdictsKept, KeyOf
<1>7. \A t, i : BeforeCursor(t, i, feed'.cursor)
  BY <1>2 DEF BeforeCursor
<1>8. ASSUME view # "it-v4" PROVE ArticlesShown'
  <2>1. feed'.goal = InView(feed.view, feed.sources)'
    BY <1>2, <1>5, <1>8 DEF InView
  <2>. QED
    BY <1>2, <1>7, <2>1 DEF ArticlesShown
<1>9. ASSUME view = "it-v4" PROVE VerdictsShown'
  <2>1. ASSUME NEW h \in feed'.goal
        PROVE  \E k \in Admitted(feed.sources)' : k[2] = h /\ Alive(k)' # {} /\ Coming(k)'
    <3>1. PICK k \in Admitted(sources) : k[2] = h /\ Alive(k) # {}
      BY <1>2, <1>9, <2>1
    <3>2. k \in Admitted(feed.sources)' /\ Alive(k)' # {}
      BY <1>2, <1>5, <3>1 DEF Admitted, Alive
    <3>3. Coming(k)'
      BY <1>2, <1>7 DEF Coming
    <3>. QED
      BY <3>1, <3>2, <3>3
  <2>. QED
    BY <2>1 DEF VerdictsShown
<1>. QED
  BY <1>2, <1>4, <1>6, <1>8, <1>9 DEF FeedInv

LEMMA ListPageStep ==
  ASSUME ScoringInv, FeedInv, ListPage
  PROVE  feed' \in FeedState /\ FeedInv'
<1>1. PICK rows : rows = RowsAhead
  OBVIOUS
<1>2. PICK page : page = FeedPage(rows)
  OBVIOUS
<1>3. PICK more \in BOOLEAN : more <=> Cardinality(rows) > FeedLimit
  <2>1. CASE Cardinality(rows) > FeedLimit
    <3>. WITNESS TRUE \in BOOLEAN
    <3>. QED
      BY <2>1
  <2>2. CASE ~(Cardinality(rows) > FeedLimit)
    <3>. WITNESS FALSE \in BOOLEAN
    <3>. QED
      BY <2>2
  <2>. QED
    BY <2>1, <2>2
<1>4. PICK ids : ids = {r.id : r \in page}
  OBVIOUS
<1>5. PICK last : last = LastOf(page)
  OBVIOUS
<1>6. feed \in FeedState /\ feed.at = "page"
  BY NewsTypes DEF ScoringInv, ListPage
<1>7. FeedAt(IF feed.view = "it-v4" THEN "hydrate" ELSE IF more THEN "page" ELSE "done",
             IF more THEN CursorOf(last) ELSE <<0, 0>>,
             IF feed.view = "it-v4" THEN ids ELSE {},
             IF feed.view = "it-v4" THEN feed.seen ELSE feed.seen \cup ids)
  BY <1>1, <1>2, <1>3, <1>4, <1>5, <1>6 DEF ListPage, FeedAt, FeedState
<1>8. UNCHANGED <<known, valid, decisions>>
  BY DEF ListPage, collected, judged
<1>9. ListedRows(rows) /\ rows \subseteq FeedRows(feed.view, feed.sources)
  BY <1>1, RowsOfView DEF RowsAhead, ListedRows
<1>10. page \subseteq rows /\ ids \subseteq NewsArticles
  <2>1. page \subseteq rows
    BY <1>2 DEF FeedPage
  <2>. QED
    BY <1>4, <1>9, <2>1 DEF ListedRows
<1>11. more => last \in page
  <2>1. ASSUME more, rows = {} PROVE FALSE
    <3>1. Cardinality(rows) > FeedLimit
      BY <1>3, <2>1
    <3>2. Cardinality(rows) = 0
      BY <2>1, FS_EmptySet
    <3>. QED
      BY <3>1, <3>2
  <2>. QED
    BY <1>2, <1>5, <1>9, <2>1, PageHasLast
<1>12. (IF more THEN CursorOf(last) ELSE <<0, 0>>) \in Nat \X Nat
  <2>1. CASE more
    <3>1. last.at \in Nat /\ last.id \in Nat
      BY <1>9, <1>10, <1>11, <2>1 DEF ListedRows
    <3>. QED
      BY <2>1, <3>1, IsoStringCuts DEF CursorOf
  <2>. QED
    BY <2>1
<1>13. feed' \in FeedState
  <2>1. feed' = [feed EXCEPT
               !.cursor = IF more THEN CursorOf(last) ELSE <<0, 0>>,
               !.rows = IF feed.view = "it-v4" THEN ids ELSE {},
               !.seen = IF feed.view = "it-v4" THEN @ ELSE @ \cup ids,
               !.at = IF feed.view = "it-v4" THEN "hydrate" ELSE IF more THEN "page" ELSE "done"]
    BY <1>1, <1>2, <1>3, <1>4, <1>5 DEF ListPage
  <2>2. PICK cursor \in Nat \X Nat : cursor = IF more THEN CursorOf(last) ELSE <<0, 0>>
    BY <1>12
  <2>3. PICK seen \in SUBSET (NewsArticles \cup Hashes) :
          seen = IF feed.view = "it-v4" THEN feed.seen ELSE feed.seen \cup ids
    BY <1>6, <1>10 DEF FeedState
  <2>4. feed' = [feed EXCEPT !.cursor = cursor, !.rows = IF feed.view = "it-v4" THEN ids ELSE {}, !.seen = seen,
                   !.at = IF feed.view = "it-v4" THEN "hydrate" ELSE IF more THEN "page" ELSE "done"]
    BY <1>6, <2>1, <2>2, <2>3 DEF FeedState
  <2>. QED
    BY <1>6, <1>10, <2>4 DEF FeedState
<1>14. VerdictsKept'
  BY <1>8 DEF FeedInv, VerdictsKept, KeyOf
\* Who was ahead is on the page, or comes behind its cursor.
<1>15. ASSUME NEW x \in rows, x \notin page
       PROVE  /\ more
              /\ \/ BeforeCursor(x.at, x.id, CursorOf(last))
                 \/ last.at >= x.at /\ IsoString(last.at) = IsoString(x.at) /\ last.at # IsoString(last.at)
  <2>1. more
    BY <1>2, <1>3, <1>9, <1>15, PageLeavesOut
  <2>. QED
    BY <1>2, <1>5, <1>9, <1>15, <2>1, CursorLeavesOut
<1>16. ASSUME feed.view # "it-v4" PROVE ArticlesShown'
  <2>1. ArticlesShown
    BY <1>16 DEF FeedInv
  <2>2. feed'.seen = feed.seen \cup ids /\ feed'.goal = feed.goal /\ feed'.at = IF more THEN "page" ELSE "done"
    BY <1>7, <1>16 DEF FeedAt
  <2>3. feed'.goal \subseteq InView(feed.view, feed.sources)'
    BY <1>7, <1>8, <2>1, <2>2 DEF ArticlesShown, InView, FeedAt
  <2>4. ASSUME NEW x \in feed'.goal
        PROVE  Shows(x)' \/ (feed'.at = "page" /\ BeforeCursor(Stamp[x], x, feed'.cursor))
    <3>1. x \in InView(feed.view, feed.sources) /\ (Shows(x) \/ BeforeCursor(Stamp[x], x, feed.cursor))
      BY <2>1, <2>2 DEF ArticlesShown
    <3>2. x \in NewsArticles /\ Stamp[x] \in Nat
      <4>1. valid \subseteq NewsArticles
        BY NewsTypes DEF ScoringInv
      <4>. QED
        BY <3>1, <4>1 DEF InView
    <3>3. CASE Shows(x)
      BY <2>2, <3>3 DEF Shows
    <3>4. CASE BeforeCursor(Stamp[x], x, feed.cursor)
      <4>1. PICK r : r = [id |-> x, at |-> Stamp[x]]
        OBVIOUS
      <4>2. r \in FeedRows(feed.view, feed.sources)
        BY <1>16, <3>1, <4>1 DEF FeedRows
      <4>3. r \in rows /\ r.id = x /\ r.at = Stamp[x]
        BY <1>1, <3>4, <4>1, <4>2 DEF RowsAhead
      <4>4. CASE r \in page
        <5>1. x \in feed'.seen
          BY <1>4, <2>2, <4>3, <4>4
        <5>. QED
          BY <3>2, <5>1 DEF Shows
      <4>5. CASE r \notin page
        <5>1. /\ more
              /\ \/ BeforeCursor(Stamp[x], x, CursorOf(last))
                 \/ last.at >= Stamp[x] /\ IsoString(last.at) = IsoString(Stamp[x])
          BY <1>15, <4>3, <4>5
        <5>2. CASE BeforeCursor(Stamp[x], x, CursorOf(last))
          BY <1>7, <2>2, <5>1, <5>2 DEF FeedAt
        <5>3. CASE last.at >= Stamp[x] /\ IsoString(last.at) = IsoString(Stamp[x])
          <6>1. last \in FeedRows(feed.view, feed.sources) /\ last.id \in feed'.seen
            BY <1>4, <1>9, <1>10, <1>11, <2>2, <5>1
          <6>2. last.at = Stamp[last.id]
            BY <1>16, <6>1 DEF FeedRows
          <6>. QED
            BY <5>3, <6>1, <6>2 DEF Shows
        <5>. QED
          BY <5>1, <5>2, <5>3
      <4>. QED
        BY <4>4, <4>5
    <3>. QED
      BY <3>1, <3>3, <3>4
  <2>5. feed'.at # "hydrate"
    BY <2>2
  <2>. QED
    BY <2>3, <2>4, <2>5 DEF ArticlesShown
<1>17. ASSUME feed.view = "it-v4" PROVE VerdictsShown'
  <2>1. VerdictsShown
    BY <1>17 DEF FeedInv
  <2>2. feed'.seen = feed.seen /\ feed'.rows = ids /\ feed'.goal = feed.goal /\ feed'.at = "hydrate" /\ feed'.sources = feed.sources
    BY <1>7, <1>17 DEF FeedAt
  <2>3. ASSUME NEW h \in feed'.goal, h \notin feed'.seen
        PROVE  \E k \in Admitted(feed.sources)' : k[2] = h /\ Alive(k)' # {} /\ Coming(k)'
    <3>1. PICK k \in Admitted(feed.sources) : k[2] = h /\ Alive(k) # {} /\ Coming(k)
      BY <2>1, <2>2, <2>3 DEF VerdictsShown
    <3>2. PICK r : r = [id |-> decisions[k].id, at |-> decisions[k].stamp]
      OBVIOUS
    <3>3. r \in FeedRows(feed.view, feed.sources)
      BY <1>17, <3>1, <3>2 DEF FeedRows
    <3>4. r \in rows /\ r.id = decisions[k].id /\ r.at = decisions[k].stamp
      BY <1>1, <1>6, <3>1, <3>2, <3>3 DEF RowsAhead, Coming
    <3>5. Coming(k)'
      <4>1. CASE r \in page
        BY <1>4, <1>8, <2>2, <3>4, <4>1 DEF Coming
      <4>2. CASE r \notin page
        <5>1. more /\ last \in FeedRows(feed.view, feed.sources)
          BY <1>9, <1>10, <1>11, <1>15, <3>4, <4>2
        <5>2. PICK j \in Admitted(feed.sources) : last = [id |-> decisions[j].id, at |-> decisions[j].stamp]
          BY <1>17, <5>1 DEF FeedRows
        <5>3. j \in DOMAIN decisions /\ decisions[j].id \in NewsArticles
          BY <5>2, NewsTypes DEF Admitted, ScoringInv, Decision
        <5>4. last.at = IsoString(Stamp[last.id]) /\ last.id \in NewsArticles
          BY <5>2, <5>3 DEF FeedInv, VerdictsKept
        <5>5. IsoString(last.at) = last.at /\ last.at > 0
          <6>1. Stamp[last.id] \in Nat /\ Stamp[last.id] >= Precision
            BY <5>4
          <6>. QED
            BY <5>4, <6>1, IsoStringOfIt, IsoStringCuts
        <5>6. BeforeCursor(decisions[k].stamp, decisions[k].id, CursorOf(last))
          BY <1>15, <3>4, <4>2, <5>5
        <5>7. CursorOf(last) # <<0, 0>>
          BY <5>5 DEF CursorOf
        <5>8. feed'.cursor = CursorOf(last)
          BY <1>7, <5>1 DEF FeedAt
        <5>. QED
          BY <1>8, <2>2, <5>6, <5>7, <5>8 DEF Coming
      <4>. QED
        BY <4>1, <4>2
    <3>6. k \in Admitted(feed.sources)' /\ Alive(k)' # {}
      BY <1>8, <2>2, <3>1 DEF Admitted, Alive
    <3>. QED
      BY <3>1, <3>5, <3>6
  <2>. QED
    BY <2>3 DEF VerdictsShown
<1>18. feed'.view = feed.view
  BY <1>7 DEF FeedAt
<1>. QED
  BY <1>13, <1>14, <1>16, <1>17, <1>18 DEF FeedInv

LEMMA HydratePageStep ==
  ASSUME ScoringInv, FeedInv, HydratePage
  PROVE  feed' \in FeedState /\ FeedInv'
<1>1. feed \in FeedState /\ feed.at = "hydrate"
  BY NewsTypes DEF ScoringInv, HydratePage
<1>2. PICK shown : shown = ListArticlesByKeys(feed.rows)
  OBVIOUS
<1>3. FeedAt(IF feed.cursor = <<0, 0>> THEN "done" ELSE "page", feed.cursor, {}, feed.seen \cup shown)
  BY <1>1, <1>2 DEF HydratePage, FeedAt, FeedState
<1>4. UNCHANGED <<known, valid, decisions>>
  BY DEF HydratePage, collected, judged
<1>5. shown \subseteq Hashes
  BY <1>1, <1>2 DEF ListArticlesByKeys, FeedState, Hashes
<1>6. feed' \in FeedState
  <2>1. PICK seen \in SUBSET (NewsArticles \cup Hashes) : seen = feed.seen \cup shown
    BY <1>1, <1>5 DEF FeedState
  <2>2. feed' = [feed EXCEPT !.rows = {}, !.seen = seen, !.at = IF feed.cursor = <<0, 0>> THEN "done" ELSE "page"]
    BY <1>1, <1>2, <2>1 DEF HydratePage, FeedState
  <2>. QED
    BY <1>1, <2>2 DEF FeedState
<1>7. VerdictsKept'
  BY <1>4 DEF FeedInv, VerdictsKept, KeyOf
<1>8. feed.view = "it-v4" /\ feed'.view = "it-v4"
  BY <1>1, <1>3 DEF FeedInv, ArticlesShown, FeedAt
<1>9. VerdictsShown'
  <2>1. feed'.seen = feed.seen \cup shown /\ feed'.goal = feed.goal /\ feed'.sources = feed.sources /\ feed'.cursor = feed.cursor
        /\ feed'.at = IF feed.cursor = <<0, 0>> THEN "done" ELSE "page"
    BY <1>3 DEF FeedAt
  <2>2. ASSUME NEW h \in feed'.goal, h \notin feed'.seen
        PROVE  \E k \in Admitted(feed.sources)' : k[2] = h /\ Alive(k)' # {} /\ Coming(k)'
    <3>1. PICK k \in Admitted(feed.sources) : k[2] = h /\ Alive(k) # {} /\ Coming(k)
      BY <1>8, <2>1, <2>2 DEF FeedInv, VerdictsShown
    <3>2. decisions[k].id \notin feed.rows
      <4>1. ASSUME decisions[k].id \in feed.rows PROVE FALSE
        <5>1. KeyOf(decisions[k].id) = k
          BY <3>1 DEF FeedInv, VerdictsKept, Admitted
        <5>2. HashOf[decisions[k].id] = h
          BY <3>1, <5>1 DEF KeyOf
        <5>3. h \in shown
          BY <1>2, <3>1, <4>1, <5>1, <5>2 DEF ListArticlesByKeys
        <5>. QED
          BY <2>1, <2>2, <5>3
      <4>. QED
        BY <4>1
    <3>3. feed.cursor # <<0, 0>> /\ BeforeCursor(decisions[k].stamp, decisions[k].id, feed.cursor)
      BY <1>1, <3>1, <3>2 DEF Coming
    <3>4. Coming(k)'
      BY <1>4, <2>1, <3>3 DEF Coming
    <3>5. k \in Admitted(feed.sources)' /\ Alive(k)' # {}
      BY <1>4, <2>1, <3>1 DEF Admitted, Alive
    <3>. QED
      BY <3>1, <3>4, <3>5
  <2>. QED
    BY <2>2 DEF VerdictsShown
<1>. QED
  BY <1>6, <1>7, <1>8, <1>9 DEF FeedInv

-----------------------------------------------------------------------------

NewsInv == ScoringInv /\ FeedInv

LEMMA NewsStart == NewsInit => NewsInv
  BY ScoringStart, FeedStart DEF NewsInv

LEMMA NewsStep == NewsInv /\ [NewsNext]_newsVars => NewsInv'
<1>. SUFFICES ASSUME NewsInv, [NewsNext]_newsVars PROVE NewsInv'
  OBVIOUS
<1>0. ScoringInv /\ FeedInv
  BY DEF NewsInv
<1>1. CASE UNCHANGED newsVars
  <2>1. feed \in FeedState /\ feed' = feed /\ UNCHANGED <<collected, judged, loop, failures>>
    BY <1>0, <1>1, NewsTypes DEF newsVars, collected, judged, ScoringInv
  <2>2. UNCHANGED <<decisions, feed>> /\ valid \subseteq valid'
    BY <1>1 DEF newsVars
  <2>. QED
    BY <1>0, <2>1, <2>2, ReaderStep, FeedLooksOn DEF NewsInv
<1>2. ASSUME NEW a \in NewsArticles, Collect(a) PROVE NewsInv'
  <2>1. UNCHANGED <<decisions, feed>> /\ valid \subseteq valid'
    BY <1>2 DEF Collect, judged
  <2>. QED
    BY <1>0, <1>2, <2>1, CrawlerStep, FeedLooksOn DEF NewsInv
<1>3. ASSUME NEW a \in NewsArticles, TakeDown(a) PROVE NewsInv'
  BY <1>0, <1>3, CrawlerStep, TakeDownFeed DEF NewsInv
<1>4. CASE TimePasses
  <2>1. UNCHANGED <<decisions, feed>> /\ valid \subseteq valid'
    BY <1>4 DEF TimePasses, judged
  <2>2. ASSUME NEW a \in NewsArticles PROVE ScoringInv'
    BY <1>0, <1>4, CrawlerStep
  <2>3. ASSUME NewsArticles = {} PROVE ScoringInv'
    <3>1. NewsTypeOK'
      <4>1. horizon' \in 0 .. MaxHorizon
        BY <1>0, <1>4, NewsTypes DEF TimePasses, ScoringInv
      <4>. QED
        BY <1>0, <1>4, <4>1, NewsTypes DEF TimePasses, judged, ScoringInv, NewsTypeOK, Scan, FeedState
    <3>2. NothingIsUndone
      BY <1>4 DEF TimePasses, judged, NothingIsUndone
    <3>. QED
      BY <1>0, <1>4, <3>1, <3>2, MarksStay, LoopsStay DEF ScoringInv, TimePasses, judged
  <2>. QED
    BY <1>0, <2>1, <2>2, <2>3, FeedLooksOn DEF NewsInv
<1>5. ASSUME NEW l \in Loops, Upsert(l) PROVE NewsInv'
  BY <1>0, <1>5, UpsertStep, UpsertFeed DEF NewsInv
<1>6. ASSUME NEW l \in Loops,
             \/ BeginScoring(l) \/ GetCursor(l) \/ ListScoringCandidates(l) \/ GetDecision(l)
             \/ Score(l) \/ SetCursor(l) \/ ScoreFails(l) \/ Throws(l)
      PROVE  NewsInv'
  <2>1. UNCHANGED <<decisions, feed>> /\ valid' = valid
    BY <1>6 DEF BeginScoring, GetCursor, ListScoringCandidates, GetDecision, Score, SetCursor, ScoreFails, Throws,
                judged, collected
  <2>2. ScoringInv'
    BY <1>0, <1>6, BeginScoringStep, GetCursorStep, ListStep, GetDecisionStep, ScoreStep, SetCursorStep, ThrowsStep
  <2>. QED
    BY <1>0, <2>1, <2>2, FeedLooksOn DEF NewsInv
<1>7. CASE BeginFeed
  <2>1. UNCHANGED <<collected, judged, loop, failures>>
    BY <1>7 DEF BeginFeed
  <2>. QED
    BY <1>0, <1>7, <2>1, BeginFeedStep, ReaderStep DEF NewsInv
<1>8. CASE ListPage
  <2>1. UNCHANGED <<collected, judged, loop, failures>>
    BY <1>8 DEF ListPage
  <2>. QED
    BY <1>0, <1>8, <2>1, ListPageStep, ReaderStep DEF NewsInv
<1>9. CASE HydratePage
  <2>1. UNCHANGED <<collected, judged, loop, failures>>
    BY <1>9 DEF HydratePage
  <2>. QED
    BY <1>0, <1>9, <2>1, HydratePageStep, ReaderStep DEF NewsInv
<1>. QED
  BY <1>1, <1>2, <1>3, <1>4, <1>5, <1>6, <1>7, <1>8, <1>9 DEF NewsNext, ScoringTick

LEMMA NewsInvIsSafe == NewsInv => NewsSafe
<1>. SUFFICES ASSUME NewsInv PROVE NewsSafe
  OBVIOUS
<1>1. NewsTypeOK /\ valid \subseteq known /\ known \subseteq NewsArticles
  BY NewsTypes DEF NewsInv, ScoringInv
<1>2. PassedByIsExplained
  <2>1. ASSUME NEW a \in valid \ outOfReach, Stamp[a] <= scoreMark[SourceOf[a]]
        PROVE  KeyOf(a) \in DOMAIN decisions \/ SharesMillisecond(a)
    <3>1. a \in NewsArticles /\ a \in known /\ SourceOf[a] \in Sources
      BY <1>1 DEF Sources
    <3>2. Explained(a)
      BY <2>1, <3>1 DEF NewsInv, ScoringInv, Passed
    <3>. QED
      BY <3>1, <3>2 DEF Explained
  <2>. QED
    BY <2>1 DEF PassedByIsExplained, SharesMillisecond
<1>3. FeedMissesNothing
  <2>1. ASSUME feed.at = "done", NEW x \in feed.goal \ feed.seen
        PROVE  feed.view # "it-v4" /\ Shows(x)
    <3>1. ASSUME feed.view = "it-v4" PROVE FALSE
      BY <2>1, <3>1 DEF NewsInv, FeedInv, VerdictsShown, Coming
    <3>2. ArticlesShown
      BY <3>1 DEF NewsInv, FeedInv
    <3>. QED
      BY <2>1, <3>1, <3>2 DEF ArticlesShown
  <2>. QED
    BY <2>1 DEF FeedMissesNothing, Shows
<1>. QED
  BY <1>1, <1>2, <1>3 DEF NewsSafe

\* Whatever the watermark passes by and whatever a page leaves out is explained,
\* for any number of servers, sources and articles (news-feed/*.js).
THEOREM NewsIsSafe == NewsSpec => []NewsSafe
<1>1. NewsInit => NewsInv
  BY NewsStart
<1>2. NewsInv /\ [NewsNext]_newsVars => NewsInv'
  BY NewsStep
<1>3. NewsInv => NewsSafe
  BY NewsInvIsSafe
<1>. QED
  BY <1>1, <1>2, <1>3, PTL DEF NewsSpec

-----------------------------------------------------------------------------
(* The union of the run.  One component moves, the others rest.            *)

SourcesInv == SwitchInv /\ RunsInv /\ DispatchInv /\ NewsInv

LEMMA SourcesStart == SourcesInit => SourcesInv
  BY SwitchStart, RunsStart, DispatchStart, NewsStart DEF SourcesInit, SourcesInv

LEMMA SourcesStep == SourcesInv /\ [SourcesNext]_<<focus, vars, aroundVars>> => SourcesInv'
<1>. SUFFICES ASSUME SourcesInv, [SourcesNext]_<<focus, vars, aroundVars>> PROVE SourcesInv'
  OBVIOUS
<1>1. [IntakeNext]_intakeVars
  BY DEF SourcesNext, Rest, aroundVars
<1>2. [RunsNext]_runsVars
  BY DEF SourcesNext, Rest, aroundVars
<1>3. [DispatchNext]_dispatchVars
  BY DEF SourcesNext, Rest, aroundVars
<1>4. [NewsNext]_newsVars
  BY DEF SourcesNext, Rest, aroundVars
<1>. QED
  BY <1>1, <1>2, <1>3, <1>4, SwitchStep, RunsStep, DispatchStep, NewsStep DEF SourcesInv

\* The switch is what runs, the runs are listed without a gap, and what is
\* dispatched can run and spares nobody (automation, routes/news-intake.js).
THEOREM PullsAreSafe == SourcesSpec => []PullsSafe
<1>1. SourcesInv => PullsSafe
  <2>1. DispatchInv => DispatchSafe
    BY DispatchInvIsSafe
  <2>. QED
    BY <2>1 DEF SourcesInv, SwitchInv, IntakeSafe, RunsInv, RunsSafe, PullsSafe
<1>. QED
  BY <1>1, SourcesStart, SourcesStep, PTL DEF SourcesSpec

\* Beside them the loop passes by nothing, and the feed leaves nothing out, that
\* is not explained (news-feed).
THEOREM SourcesFeedIsSafe == SourcesSpec => []NewsSafe
<1>1. SourcesInv => NewsSafe
  BY NewsInvIsSafe DEF SourcesInv
<1>. QED
  BY <1>1, SourcesStart, SourcesStep, PTL DEF SourcesSpec

=============================================================================

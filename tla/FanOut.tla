------------------------------- MODULE FanOut -------------------------------
(***************************************************************************)
(* Ingest composed with the stage dispatcher: a stage job, although it was *)
(* enqueued on behalf of one company, starts a pipeline for every eligible *)
(* company, one after the other, and starts over when it is retried.  The  *)
(* pipeline-stage queue is taken as an exclusive lease (JobLease).         *)
(***************************************************************************)
EXTENDS Ingest

CONSTANTS
  Dispatchers,  \* runs of the pipeline-stage queue
  NoJob,
  MaxAttempts   \* of a stage job

ASSUME AttemptsAssumption == MaxAttempts \in Nat \ {0} /\ NoJob \notin Versions \X Companies

VARIABLES
  stageJob,  \* per stage job: its status and attempts
  serving,   \* per dispatcher: its job and the companies still to be served
  pipelines  \* per article version and company: pipelines with a first job

fanVars == <<stageJob, serving, pipelines>>
allVars == <<vars, fanVars>>

StageJobs == Versions \X Companies
NotServing == [job |-> NoJob, left |-> {}]

FanInit ==
  /\ Init
  /\ stageJob = [j \in StageJobs |-> [status |-> "open", attempts |-> 0]]
  /\ serving = [d \in Dispatchers |-> NotServing]
  /\ pipelines = [v \in Versions |-> [c \in Companies |-> 0]]

IngestStep == Next /\ UNCHANGED fanVars

\* Mutant: the job is served for the company that polled.
ToServeOwn(j) == {j[2]}

\* listEligible: every active company, whoever polled.
ToServe(j) == Companies

StartDispatch(d, j) ==
  /\ serving[d] = NotServing
  /\ j \in staged
  /\ stageJob[j].status = "open"
  /\ \A e \in Dispatchers : serving[e].job # j
  /\ serving' = [serving EXCEPT ![d] = [job |-> j, left |-> ToServe(j)]]
  /\ stageJob' = [stageJob EXCEPT ![j].attempts = @ + 1]
  /\ UNCHANGED <<vars, pipelines>>

StartPipeline(v, c) == pipelines' = [pipelines EXCEPT ![v][c] = @ + 1]

\* create, then enqueueTask.
ServeCompany(d, c) ==
  /\ c \in serving[d].left
  /\ StartPipeline(serving[d].job[1], c)
  /\ serving' = [serving EXCEPT ![d].left = @ \ {c}]
  /\ UNCHANGED <<vars, stageJob>>

\* Mutant: the job is over as soon as one company is served.
DispatchedSome(d) == serving[d].left # Companies

Dispatched(d) == serving[d].left = {}

FinishDispatch(d) ==
  /\ serving[d] # NotServing
  /\ Dispatched(d)
  /\ serving' = [serving EXCEPT ![d] = NotServing]
  /\ stageJob' = [stageJob EXCEPT ![serving[d].job].status = "done"]
  /\ UNCHANGED <<vars, pipelines>>

\* Mutant: a failed attempt is not counted, and the job is never given up.
AfterFaultForgets(j) == [status |-> "open", attempts |-> stageJob[j].attempts - 1]

AfterFault(j) ==
  [stageJob[j] EXCEPT !.status = IF stageJob[j].attempts < MaxAttempts THEN "open" ELSE "dead"]

\* A call fails, before or after it took effect.
DispatchFault(d) ==
  LET j == serving[d].job
  IN /\ serving[d] # NotServing
     /\ faults < FaultBudget
     /\ faults' = faults + 1
     /\ serving' = [serving EXCEPT ![d] = NotServing]
     /\ stageJob' = [stageJob EXCEPT ![j] = AfterFault(j)]
     /\ \/ UNCHANGED pipelines
        \/ \E c \in serving[d].left : StartPipeline(j[1], c)
     /\ UNCHANGED <<sourceVars, storeVars, poll>>

DispatchStep(d) ==
  \/ \E c \in Companies : ServeCompany(d, c)
  \/ FinishDispatch(d)

FanNext ==
  \/ IngestStep
  \/ \E d \in Dispatchers, j \in StageJobs : StartDispatch(d, j)
  \/ \E d \in Dispatchers : DispatchStep(d) \/ DispatchFault(d)

FanSpec == FanInit /\ [][FanNext]_allVars

\* The scheduler enqueues polls for ever; the queues claim their oldest job, so
\* that triggers do not keep a poll out for ever; a call ends.
FanFairness ==
  /\ \A p \in Polls : /\ SF_allVars(\E c \in Companies : ReadWatermark(p, c) /\ UNCHANGED fanVars)
                      /\ WF_allVars(PollStep(p) /\ UNCHANGED fanVars)
  /\ \A j \in StageJobs : WF_allVars(\E d \in Dispatchers : StartDispatch(d, j))
  /\ \A d \in Dispatchers : WF_allVars(DispatchStep(d))

FanFairSpec == FanSpec /\ FanFairness

-----------------------------------------------------------------------------
(* Properties *)

\* A finished stage job served every eligible company, not only the one that
\* polled (AI-Automation-Contract.md:14).
FannedOut ==
  \A j \in StageJobs, c \in Companies : stageJob[j].status = "done" => pipelines[j[1]][c] > 0

\* The attempts made at the stage jobs of a version: a company and a number.
AttemptsMade(v) == {a \in Companies \X (1..MaxAttempts) : a[2] <= stageJob[<<v, a[1]>>].attempts}

\* How far a version is duplicated: a company has at most one pipeline per
\* attempt of the stage jobs of the companies that polled it.
PipelinesPerAttempt ==
  \A v \in Versions, c \in Companies : pipelines[v][c] <= Cardinality(AttemptsMade(v))

\* A version is judged once for a company: one relevance job per eligible
\* company (AI-Automation-Contract.md:14), nothing duplicated by a retry (:59).
OnePipelineEach == \A v \in Versions, c \in Companies : pipelines[v][c] <= 1

\* From publication to a pipeline of every company, unless it is withdrawn.
EveryCompanyServed ==
  \A a \in Articles \ Thin, c \in Companies :
    a \in visible ~> (a \notin visible \/ pipelines[<<a, time[a]>>][c] > 0)
=============================================================================

---------------------------- MODULE FanOutProofs ----------------------------
(***************************************************************************)
(* What the fan-out promises for any number of polls, companies, articles, *)
(* dispatchers and faults: a finished stage job served every company, a    *)
(* company gets at most one pipeline per attempt made at the stage jobs of *)
(* an article version, and ingest loses no version beside it.              *)
(***************************************************************************)
EXTENDS FanOut, IngestProofs, FiniteSetTheorems

USE AttemptsAssumption

Underway(d) == serving[d].job \in StageJobs

FanTypes ==
  /\ stageJob \in [StageJobs -> [status : {"open", "done", "dead"}, attempts : 0..MaxAttempts]]
  /\ serving \in [Dispatchers -> [job : StageJobs \cup {NoJob}, left : SUBSET Companies]]
  /\ pipelines \in [Versions -> [Companies -> Nat]]
  /\ \A d \in Dispatchers : serving[d].job = NoJob => serving[d] = NotServing

\* A stage job is at one dispatcher at most, open and on an attempt of its own;
\* an open job that rests has an attempt left.
JobsAreExclusive ==
  \A d, e \in Dispatchers : Underway(d) /\ serving[d].job = serving[e].job => d = e
UnderwayIsOpen ==
  \A d \in Dispatchers :
    Underway(d) => /\ stageJob[serving[d].job].status = "open"
                   /\ stageJob[serving[d].job].attempts > 0
OpenHasAttempts ==
  \A j \in StageJobs :
    stageJob[j].status = "open" => \/ stageJob[j].attempts < MaxAttempts
                                   \/ \E d \in Dispatchers : serving[d].job = j

\* Whom a dispatcher has left behind is served.
LeftIsServed ==
  \A d \in Dispatchers :
    Underway(d) => \A c \in Companies \ serving[d].left : pipelines[serving[d].job[1]][c] > 0

\* The attempts under way whose dispatcher has not served the company yet.
Unserved(v, c) ==
  {a \in AttemptsMade(v) :
     \E d \in Dispatchers : /\ serving[d].job = <<v, a[1]>> /\ c \in serving[d].left
                            /\ a[2] = stageJob[<<v, a[1]>>].attempts}

\* Each pipeline of a company has an attempt of its own.
PipelinesCounted ==
  \A v \in Versions, c \in Companies :
    pipelines[v][c] <= Cardinality(AttemptsMade(v) \ Unserved(v, c))

FanInv == /\ FanTypes /\ JobsAreExclusive /\ UnderwayIsOpen /\ OpenHasAttempts
          /\ LeftIsServed /\ FannedOut /\ PipelinesCounted

-----------------------------------------------------------------------------
(* Counting *)

\* What a company has counted against it so far.
CountedFor(v, c) == AttemptsMade(v) \ Unserved(v, c)

\* There are finitely many attempts.
LEMMA AttemptsAreFinite ==
  ASSUME IsFiniteSet(Companies), NEW v
  PROVE  IsFiniteSet(AttemptsMade(v)) /\ IsFiniteSet(AttemptsMade(v)')
<1>. DEFINE m == MaxAttempts
            numbers == 1..m
<1>1. m \in Nat
  OBVIOUS
<1>2. IsFiniteSet(numbers)
  <2>. HIDE DEF m
  <2>. QED
    BY <1>1, FS_Interval
<1>. DEFINE all == Companies \X numbers
<1>3. IsFiniteSet(all)
  <2>. HIDE DEF numbers
  <2>. QED
    BY <1>2, FS_Product
<1>4. AttemptsMade(v) \in SUBSET all /\ AttemptsMade(v)' \in SUBSET all
  BY DEF AttemptsMade
<1>. HIDE DEF all
<1>. QED
  BY <1>3, <1>4, FS_Subset

\* Attempts are counted by a number, and more of them by one that is not smaller.
LEMMA CountGrows ==
  ASSUME NEW S, NEW T, IsFiniteSet(T), S \subseteq T
  PROVE  Cardinality(S) \in Nat /\ Cardinality(T) \in Nat /\ Cardinality(S) <= Cardinality(T)
<1>1. IsFiniteSet(S) /\ Cardinality(S) <= Cardinality(T)
  BY FS_Subset
<1>. QED
  BY <1>1, FS_CardinalityType

\* One more attempt counts.
LEMMA CountOneMore ==
  ASSUME NEW S, NEW T, NEW x, IsFiniteSet(T), S \subseteq T, x \in T, x \notin S
  PROVE  Cardinality(S) \in Nat /\ Cardinality(T) \in Nat /\ Cardinality(S) + 1 <= Cardinality(T)
<1>1. IsFiniteSet(S)
  BY FS_Subset
<1>2. Cardinality(S \cup {x}) = Cardinality(S) + 1
  BY <1>1, FS_AddElement
<1>3. Cardinality(S \cup {x}) <= Cardinality(T)
  BY CountGrows
<1>. QED
  BY <1>1, <1>2, <1>3, CountGrows

\* A step that takes nothing off the count and adds a pipeline only together with
\* an attempt that counts for it from now on.
LEMMA CountStep ==
  ASSUME IsFiniteSet(Companies), PipelinesCounted, NEW x, pipelines \in [Versions -> [Companies -> Nat]],
         \A v \in Versions, c \in Companies :
           /\ CountedFor(v, c) \subseteq CountedFor(v, c)'
           /\ \/ pipelines'[v][c] = pipelines[v][c]
              \/ /\ pipelines'[v][c] = pipelines[v][c] + 1
                 /\ x \in CountedFor(v, c)' /\ x \notin CountedFor(v, c)
  PROVE  PipelinesCounted'
<1>. SUFFICES ASSUME NEW v \in Versions, NEW c \in Companies
              PROVE  pipelines'[v][c] <= Cardinality(CountedFor(v, c)')
  BY DEF PipelinesCounted, CountedFor
<1>1. pipelines[v][c] <= Cardinality(CountedFor(v, c)) /\ pipelines[v][c] \in Nat
  BY DEF PipelinesCounted, CountedFor
<1>2. IsFiniteSet(CountedFor(v, c)')
  <2>1. IsFiniteSet(AttemptsMade(v)')
    BY AttemptsAreFinite
  <2>2. CountedFor(v, c)' \subseteq AttemptsMade(v)'
    BY DEF CountedFor
  <2>. QED
    BY <2>1, <2>2, FS_Subset
<1>3. CountedFor(v, c) \subseteq CountedFor(v, c)'
  OBVIOUS
<1>4. CASE pipelines'[v][c] = pipelines[v][c]
  BY <1>1, <1>2, <1>3, <1>4, CountGrows
<1>5. CASE /\ pipelines'[v][c] = pipelines[v][c] + 1
           /\ x \in CountedFor(v, c)' /\ x \notin CountedFor(v, c)
  BY <1>1, <1>2, <1>3, <1>5, CountOneMore
<1>. QED
  BY <1>4, <1>5

-----------------------------------------------------------------------------
(* Steps of the dispatchers *)

\* A dispatcher is on a job, or holds nothing.
LEMMA Holding ==
  ASSUME FanTypes, NEW d \in Dispatchers, serving[d] # NotServing
  PROVE  /\ Underway(d) /\ serving[d].job \in StageJobs /\ serving[d].left \subseteq Companies
         /\ serving[d].job[1] \in Versions /\ serving[d].job[2] \in Companies
         /\ serving[d].job = <<serving[d].job[1], serving[d].job[2]>>
<1>1. serving[d].job \in StageJobs
  BY DEF FanTypes
<1>2. serving[d].left \subseteq Companies
  BY DEF FanTypes
<1>. QED
  BY <1>1, <1>2 DEF StageJobs, Underway

\* A stage job is an article version and a company.
LEMMA JobParts ==
  ASSUME NEW v, NEW k, <<v, k>> \in StageJobs
  PROVE  v \in Versions /\ k \in Companies
BY DEF StageJobs

\* A job is taken.
LEMMA StartKeeps ==
  ASSUME IsFiniteSet(Companies), FanInv, NEW d \in Dispatchers, NEW j \in StageJobs,
         StartDispatch(d, j)
  PROVE  FanInv'
<1>. DEFINE n == stageJob[j].attempts
<1>1. FanTypes /\ serving[d] = NotServing /\ stageJob[j].status = "open"
      /\ \A e \in Dispatchers : serving[e].job # j
  BY DEF FanInv, StartDispatch
<1>2. n \in Nat /\ n < MaxAttempts
  BY <1>1 DEF FanInv, OpenHasAttempts, FanTypes
<1>3. /\ serving' = [serving EXCEPT ![d] = [job |-> j, left |-> Companies]]
      /\ stageJob' = [stageJob EXCEPT ![j].attempts = n + 1]
      /\ pipelines' = pipelines
  BY DEF StartDispatch, ToServe
<1>4. /\ serving'[d] = [job |-> j, left |-> Companies]
      /\ \A e \in Dispatchers \ {d} : serving'[e] = serving[e]
  BY <1>1, <1>3 DEF FanTypes
<1>5. /\ stageJob'[j].status = "open" /\ stageJob'[j].attempts = n + 1
      /\ \A i \in StageJobs \ {j} : stageJob'[i] = stageJob[i]
  BY <1>1, <1>3 DEF FanTypes
<1>6. n + 1 \in 0..MaxAttempts
  BY <1>2
<1>7. FanTypes'
  <2>1. stageJob'[j] \in [status : {"open", "done", "dead"}, attempts : 0..MaxAttempts]
    BY <1>1, <1>3, <1>6 DEF FanTypes
  <2>2. stageJob' \in [StageJobs -> [status : {"open", "done", "dead"}, attempts : 0..MaxAttempts]]
    BY <1>1, <1>3, <2>1 DEF FanTypes
  <2>3. serving' \in [Dispatchers -> [job : StageJobs \cup {NoJob}, left : SUBSET Companies]]
    BY <1>1, <1>3 DEF FanTypes
  <2>4. j # NoJob
    BY DEF StageJobs
  <2>. QED
    BY <1>1, <1>3, <1>4, <2>2, <2>3, <2>4 DEF FanTypes
<1>8. JobsAreExclusive'
  BY <1>1, <1>4 DEF FanInv, JobsAreExclusive, Underway
<1>9. UnderwayIsOpen'
  BY <1>1, <1>2, <1>4, <1>5 DEF FanInv, UnderwayIsOpen, Underway
<1>10. OpenHasAttempts'
  <2>. SUFFICES ASSUME NEW i \in StageJobs, i # j, stageJob[i].status = "open"
                PROVE  \/ stageJob[i].attempts < MaxAttempts
                       \/ \E e \in Dispatchers : serving'[e].job = i
    BY <1>4, <1>5 DEF OpenHasAttempts
  <2>1. d \in Dispatchers /\ serving[d].job # i
    BY <1>1 DEF NotServing, StageJobs
  <2>. QED
    BY <1>4, <2>1 DEF FanInv, OpenHasAttempts
<1>11. LeftIsServed'
  BY <1>3, <1>4 DEF FanInv, LeftIsServed, Underway
<1>12. FannedOut'
  BY <1>1, <1>3, <1>5 DEF FanInv, FannedOut
<1>13. ASSUME NEW v \in Versions, NEW c \in Companies
       PROVE  CountedFor(v, c) \subseteq CountedFor(v, c)'
  <2>. SUFFICES ASSUME NEW a \in AttemptsMade(v), a \notin Unserved(v, c)
                PROVE  a \in AttemptsMade(v)' /\ a \notin Unserved(v, c)'
    BY DEF CountedFor
  <2>1. /\ a[1] \in Companies /\ a[2] \in 1..MaxAttempts /\ a[2] <= stageJob[<<v, a[1]>>].attempts
        /\ a \in Companies \X (1..MaxAttempts)
        /\ <<v, a[1]>> \in StageJobs
    BY DEF AttemptsMade, StageJobs
  <2>2. stageJob'[<<v, a[1]>>].attempts \in {stageJob[<<v, a[1]>>].attempts, n + 1}
        /\ (<<v, a[1]>> = j => a[2] <= n)
    BY <1>5, <2>1
  <2>3. a[2] <= stageJob'[<<v, a[1]>>].attempts
    BY <1>2, <1>5, <2>1, <2>2
  <2>4. a \in AttemptsMade(v)'
    BY <2>1, <2>3 DEF AttemptsMade
  <2>5. ASSUME NEW e \in Dispatchers, serving'[e].job = <<v, a[1]>>, c \in serving'[e].left,
               a[2] = stageJob'[<<v, a[1]>>].attempts
        PROVE  FALSE
    <3>1. CASE e = d
      BY <1>2, <1>4, <1>5, <2>1, <2>2, <2>5, <3>1
    <3>2. CASE e # d
      <4>1. serving[e].job = <<v, a[1]>> /\ c \in serving[e].left
        BY <1>4, <2>5, <3>2
      <4>2. stageJob'[<<v, a[1]>>] = stageJob[<<v, a[1]>>]
        BY <1>1, <1>5, <2>1, <4>1
      <4>. QED
        BY <2>5, <4>1, <4>2 DEF Unserved
    <3>. QED
      BY <3>1, <3>2
  <2>. QED
    BY <2>4, <2>5 DEF Unserved
<1>14. PipelinesCounted'
  BY <1>1, <1>3, <1>13, CountStep DEF FanInv, FanTypes
<1>. QED
  BY <1>7, <1>8, <1>9, <1>10, <1>11, <1>12, <1>14 DEF FanInv

\* What a dispatcher that is on a job may do about the count: it leaves the
\* attempts alone, drops companies, and starts a pipeline for one it drops.
LEMMA DropKeepsCount ==
  ASSUME IsFiniteSet(Companies), FanInv, NEW d \in Dispatchers, serving[d] # NotServing,
         \A i \in StageJobs : stageJob'[i].attempts = stageJob[i].attempts,
         \A e \in Dispatchers \ {d} : serving'[e] = serving[e],
         \/ serving'[d] = NotServing
         \/ serving'[d].job = serving[d].job /\ serving'[d].left \subseteq serving[d].left,
         \/ pipelines' = pipelines
         \/ \E c \in serving[d].left : /\ StartPipeline(serving[d].job[1], c)
                                       /\ c \notin serving'[d].left
  PROVE  PipelinesCounted'
<1>. SUFFICES ASSUME NEW j, j = serving[d].job, NEW x, x = <<j[2], stageJob[j].attempts>>
              PROVE  PipelinesCounted'
  OBVIOUS
<1>1. FanTypes /\ j \in StageJobs /\ j[1] \in Versions /\ j[2] \in Companies /\ j = <<j[1], j[2]>>
  BY Holding DEF FanInv
<1>2. stageJob[j].attempts \in 1..MaxAttempts
  BY <1>1, Holding DEF FanInv, FanTypes, UnderwayIsOpen
<1>3. \A v \in Versions : AttemptsMade(v)' = AttemptsMade(v)
  BY DEF AttemptsMade, StageJobs
<1>4. ASSUME NEW v \in Versions, NEW c \in Companies
      PROVE  Unserved(v, c)' \subseteq Unserved(v, c)
  <2>. SUFFICES ASSUME NEW a \in AttemptsMade(v), NEW e \in Dispatchers,
                       serving'[e].job = <<v, a[1]>>, c \in serving'[e].left,
                       a[2] = stageJob'[<<v, a[1]>>].attempts
                PROVE  a \in Unserved(v, c)
    BY <1>3 DEF Unserved
  <2>1. <<v, a[1]>> \in StageJobs
    BY DEF AttemptsMade, StageJobs
  <2>2. serving[e].job = <<v, a[1]>> /\ c \in serving[e].left
    BY DEF NotServing
  <2>. QED
    BY <2>1, <2>2 DEF Unserved
<1>5. ASSUME NEW c \in serving[d].left, StartPipeline(j[1], c), c \notin serving'[d].left
      PROVE  x \in CountedFor(j[1], c)' /\ x \notin CountedFor(j[1], c)
  <2>1. x \in AttemptsMade(j[1]) /\ x[1] = j[2] /\ x[2] = stageJob[j].attempts
    BY <1>1, <1>2 DEF AttemptsMade
  <2>2. x \in Unserved(j[1], c)
    BY <1>1, <1>5, <2>1 DEF Unserved
  <2>3. ASSUME NEW e \in Dispatchers, serving'[e].job = j, c \in serving'[e].left
        PROVE  FALSE
    <3>1. e # d
      BY <1>5, <2>3
    <3>2. serving[e].job = j
      BY <2>3, <3>1
    <3>. QED
      BY <1>1, <3>1, <3>2, Holding DEF FanInv, JobsAreExclusive, Underway
  <2>4. <<j[1], x[1]>> = j
    BY <1>1, <2>1
  <2>5. x \notin Unserved(j[1], c)'
    BY <2>3, <2>4 DEF Unserved
  <2>6. x \in AttemptsMade(j[1])'
    BY <1>1, <1>3, <2>1
  <2>. QED
    BY <2>2, <2>5, <2>6 DEF CountedFor
<1>6. ASSUME NEW v \in Versions, NEW c \in Companies
      PROVE  /\ CountedFor(v, c) \subseteq CountedFor(v, c)'
             /\ \/ pipelines'[v][c] = pipelines[v][c]
                \/ /\ pipelines'[v][c] = pipelines[v][c] + 1
                   /\ x \in CountedFor(v, c)' /\ x \notin CountedFor(v, c)
  <2>1. CountedFor(v, c) \subseteq CountedFor(v, c)'
    BY <1>3, <1>4 DEF CountedFor
  <2>2. CASE pipelines' = pipelines
    BY <2>1, <2>2
  <2>3. ASSUME NEW b \in serving[d].left, StartPipeline(j[1], b), b \notin serving'[d].left
        PROVE  \/ pipelines'[v][c] = pipelines[v][c]
               \/ /\ pipelines'[v][c] = pipelines[v][c] + 1
                  /\ x \in CountedFor(v, c)' /\ x \notin CountedFor(v, c)
    <3>1. x \in CountedFor(j[1], b)' /\ x \notin CountedFor(j[1], b)
      BY <1>5, <2>3
    <3>2. b \in Companies
      BY Holding DEF FanInv
    <3>3. pipelines' = [pipelines EXCEPT ![j[1]][b] = @ + 1]
      BY <2>3 DEF StartPipeline
    <3>4. pipelines \in [Versions -> [Companies -> Nat]]
      BY <1>1 DEF FanTypes
    <3>5. CASE v = j[1] /\ c = b
      <4>1. pipelines'[v][c] = pipelines[v][c] + 1
        BY <1>1, <3>2, <3>3, <3>4, <3>5
      <4>. QED
        BY <3>1, <3>5, <4>1
    <3>6. CASE ~(v = j[1] /\ c = b)
      BY <1>1, <3>2, <3>3, <3>4, <3>6
    <3>. QED
      BY <3>5, <3>6
  <2>. QED
    BY <2>1, <2>2, <2>3
<1>7. PipelinesCounted /\ pipelines \in [Versions -> [Companies -> Nat]]
  BY <1>1 DEF FanInv, FanTypes
<1>. QED
  BY <1>6, <1>7, CountStep

\* A company is served.
LEMMA ServeKeeps ==
  ASSUME IsFiniteSet(Companies), FanInv, NEW d \in Dispatchers, NEW b \in Companies,
         ServeCompany(d, b)
  PROVE  FanInv'
<1>. SUFFICES ASSUME NEW j, j = serving[d].job PROVE FanInv'
  OBVIOUS
<1>1. /\ b \in serving[d].left /\ UNCHANGED stageJob
      /\ pipelines' = [pipelines EXCEPT ![j[1]][b] = @ + 1]
      /\ serving' = [serving EXCEPT ![d].left = @ \ {b}]
  BY DEF ServeCompany, StartPipeline
<1>2. serving[d] # NotServing
  BY <1>1 DEF NotServing
<1>3. FanTypes /\ j \in StageJobs /\ j[1] \in Versions /\ serving[d].left \subseteq Companies
      /\ Underway(d)
  BY <1>2, Holding DEF FanInv
<1>4. /\ serving'[d].job = j /\ serving'[d].left = serving[d].left \ {b}
      /\ \A e \in Dispatchers \ {d} : serving'[e] = serving[e]
  BY <1>1, <1>3 DEF FanTypes
<1>5. \A v \in Versions, c \in Companies :
        /\ pipelines'[v][c] \in {pipelines[v][c], pipelines[v][c] + 1}
        /\ pipelines[v][c] \in Nat
        /\ v = j[1] /\ c = b => pipelines'[v][c] = pipelines[v][c] + 1
  BY <1>1, <1>3 DEF FanTypes
<1>6. FanTypes'
  <2>1. serving' \in [Dispatchers -> [job : StageJobs \cup {NoJob}, left : SUBSET Companies]]
    BY <1>1, <1>3 DEF FanTypes
  <2>2. pipelines' \in [Versions -> [Companies -> Nat]]
    BY <1>1, <1>3 DEF FanTypes
  <2>3. j # NoJob
    BY <1>3 DEF StageJobs
  <2>. QED
    BY <1>1, <1>3, <1>4, <2>1, <2>2, <2>3 DEF FanTypes
<1>7. \A e \in Dispatchers : serving'[e].job = serving[e].job
  BY <1>4
<1>8. JobsAreExclusive' /\ UnderwayIsOpen' /\ OpenHasAttempts'
  BY <1>1, <1>7 DEF FanInv, JobsAreExclusive, UnderwayIsOpen, OpenHasAttempts, Underway
<1>9. LeftIsServed'
  <2>. SUFFICES ASSUME NEW e \in Dispatchers, serving[e].job \in StageJobs,
                       NEW c \in Companies \ serving'[e].left
                PROVE  pipelines'[serving[e].job[1]][c] > 0
    BY <1>7 DEF LeftIsServed, Underway
  <2>1. serving[e].job[1] \in Versions
    BY DEF StageJobs
  <2>2. CASE c \notin serving[e].left
    <3>1. pipelines[serving[e].job[1]][c] > 0
      BY <2>2 DEF FanInv, LeftIsServed, Underway
    <3>. QED
      BY <1>5, <2>1, <3>1
  <2>3. CASE c \in serving[e].left
    <3>1. e = d /\ c = b
      BY <1>4, <2>3
    <3>. QED
      BY <1>5, <2>1, <3>1
  <2>. QED
    BY <2>2, <2>3
<1>10. FannedOut'
  <2>. SUFFICES ASSUME NEW i \in StageJobs, NEW c \in Companies, stageJob[i].status = "done"
                PROVE  pipelines'[i[1]][c] > 0
    BY <1>1 DEF FannedOut
  <2>1. pipelines[i[1]][c] > 0 /\ i[1] \in Versions
    BY DEF FanInv, FannedOut, StageJobs
  <2>. QED
    BY <1>5, <2>1
<1>11. PipelinesCounted'
  <2>1. StartPipeline(serving[d].job[1], b) /\ b \notin serving'[d].left
    BY <1>4 DEF ServeCompany
  <2>. QED
    BY <1>1, <1>2, <1>4, <2>1, DropKeepsCount
<1>. QED
  BY <1>6, <1>8, <1>9, <1>10, <1>11 DEF FanInv

\* A job leaves its dispatcher, done or after a fault.
LEMMA LeaveKeeps ==
  ASSUME IsFiniteSet(Companies), FanInv, NEW d \in Dispatchers, NEW j, j = serving[d].job,
         serving[d] # NotServing, serving' = [serving EXCEPT ![d] = NotServing],
         NEW s \in {"open", "done", "dead"},
         stageJob' = [stageJob EXCEPT ![j].status = s],
         s = "open" => stageJob[j].attempts < MaxAttempts,
         s = "done" => serving[d].left = {} /\ pipelines' = pipelines,
         pipelines' = pipelines \/ \E c \in serving[d].left : StartPipeline(j[1], c)
  PROVE  FanInv'
<1>1. FanTypes /\ j \in StageJobs /\ j[1] \in Versions /\ serving[d].left \subseteq Companies
      /\ Underway(d)
  BY Holding DEF FanInv
<1>2. serving'[d] = NotServing /\ \A e \in Dispatchers \ {d} : serving'[e] = serving[e]
  BY <1>1 DEF FanTypes
<1>3. /\ stageJob'[j].status = s /\ stageJob'[j].attempts = stageJob[j].attempts
      /\ \A i \in StageJobs \ {j} : stageJob'[i] = stageJob[i]
  BY <1>1 DEF FanTypes
<1>. DEFINE grown ==
      /\ pipelines' \in [Versions -> [Companies -> Nat]]
      /\ \A v \in Versions, c \in Companies :
           pipelines[v][c] \in Nat /\ pipelines'[v][c] \in {pipelines[v][c], pipelines[v][c] + 1}
<1>4. grown
  <2>1. CASE pipelines' = pipelines
    BY <1>1, <2>1 DEF FanTypes
  <2>2. ASSUME NEW b \in serving[d].left, StartPipeline(j[1], b)
        PROVE  grown
    BY <1>1, <2>2 DEF FanTypes, StartPipeline
  <2>. QED
    BY <2>1, <2>2
<1>5. FanTypes'
  <2>1. stageJob' \in [StageJobs -> [status : {"open", "done", "dead"}, attempts : 0..MaxAttempts]]
    BY <1>1 DEF FanTypes
  <2>2. serving' \in [Dispatchers -> [job : StageJobs \cup {NoJob}, left : SUBSET Companies]]
    BY <1>1 DEF FanTypes, NotServing
  <2>. QED
    BY <1>1, <1>2, <1>4, <2>1, <2>2 DEF FanTypes
<1>6. \A e \in Dispatchers : Underway(e)' => /\ e # d /\ serving'[e] = serving[e]
                                             /\ serving[e].job # j /\ Underway(e)
  BY <1>1, <1>2 DEF Underway, NotServing, StageJobs, FanInv, JobsAreExclusive
<1>7. JobsAreExclusive'
  BY <1>6, <1>2 DEF FanInv, JobsAreExclusive, Underway
<1>8. UnderwayIsOpen'
  BY <1>3, <1>6 DEF FanInv, UnderwayIsOpen, Underway
<1>9. OpenHasAttempts'
  <2>. SUFFICES ASSUME NEW i \in StageJobs, stageJob'[i].status = "open"
                PROVE  \/ stageJob'[i].attempts < MaxAttempts
                       \/ \E e \in Dispatchers : serving'[e].job = i
    BY DEF OpenHasAttempts
  <2>1. CASE i = j
    BY <1>3, <2>1
  <2>2. CASE i # j
    BY <1>2, <1>3, <2>2 DEF FanInv, OpenHasAttempts
  <2>. QED
    BY <2>1, <2>2
<1>10. LeftIsServed'
  <2>. SUFFICES ASSUME NEW e \in Dispatchers, Underway(e)', NEW c \in Companies \ serving'[e].left
                PROVE  pipelines'[serving'[e].job[1]][c] > 0
    BY DEF LeftIsServed
  <2>1. serving'[e] = serving[e] /\ Underway(e) /\ serving[e].job[1] \in Versions
    BY <1>6 DEF Underway, StageJobs
  <2>2. pipelines[serving[e].job[1]][c] > 0
    BY <2>1 DEF FanInv, LeftIsServed
  <2>. QED
    BY <1>4, <2>1, <2>2
<1>11. FannedOut'
  <2>. SUFFICES ASSUME NEW i \in StageJobs, NEW c \in Companies, stageJob'[i].status = "done"
                PROVE  pipelines'[i[1]][c] > 0
    BY DEF FannedOut
  <2>1. i[1] \in Versions
    BY DEF StageJobs
  <2>2. CASE i = j
    BY <1>1, <1>3, <2>2 DEF FanInv, LeftIsServed
  <2>3. CASE i # j
    <3>1. pipelines[i[1]][c] > 0
      BY <1>3, <2>3 DEF FanInv, FannedOut
    <3>. QED
      BY <1>4, <2>1, <3>1
  <2>. QED
    BY <2>2, <2>3
<1>12. PipelinesCounted'
  <2>1. \A i \in StageJobs : stageJob'[i].attempts = stageJob[i].attempts
    BY <1>3
  <2>2. \/ pipelines' = pipelines
        \/ \E c \in serving[d].left : /\ StartPipeline(serving[d].job[1], c)
                                      /\ c \notin serving'[d].left
    BY <1>2 DEF NotServing
  <2>. QED
    BY <1>2, <2>1, <2>2, DropKeepsCount
<1>. QED
  BY <1>5, <1>7, <1>8, <1>9, <1>10, <1>11, <1>12 DEF FanInv

-----------------------------------------------------------------------------
(* The theorems *)

\* The invariant holds at the start.
LEMMA FanInitial == IsFiniteSet(Companies) /\ FanInit => FanInv
<1>. SUFFICES ASSUME IsFiniteSet(Companies), FanInit PROVE FanInv
  OBVIOUS
<1>1. /\ \A j \in StageJobs : stageJob[j] = [status |-> "open", attempts |-> 0]
      /\ \A d \in Dispatchers : serving[d] = NotServing /\ serving[d].job = NoJob
      /\ \A v \in Versions, c \in Companies : pipelines[v][c] = 0
  BY DEF FanInit, NotServing
<1>2. FanTypes
  BY DEF FanInit, FanTypes, NotServing
<1>3. NoJob \notin StageJobs
  BY DEF StageJobs
<1>4. \A d \in Dispatchers : ~Underway(d)
  BY <1>1, <1>3 DEF Underway
<1>5. JobsAreExclusive /\ UnderwayIsOpen /\ LeftIsServed
  BY <1>4 DEF JobsAreExclusive, UnderwayIsOpen, LeftIsServed
<1>6. OpenHasAttempts /\ FannedOut
  BY <1>1 DEF OpenHasAttempts, FannedOut
<1>7. PipelinesCounted
  <2>. SUFFICES ASSUME NEW v \in Versions, NEW c \in Companies
                PROVE  0 <= Cardinality(CountedFor(v, c))
    BY <1>1 DEF PipelinesCounted, CountedFor
  <2>1. CountedFor(v, c) \subseteq AttemptsMade(v) /\ IsFiniteSet(AttemptsMade(v))
    BY AttemptsAreFinite DEF CountedFor
  <2>. QED
    BY <2>1, CountGrows
<1>. QED
  BY <1>2, <1>5, <1>6, <1>7 DEF FanInv

\* Every step keeps it.
LEMMA FanStep == IsFiniteSet(Companies) /\ FanInv /\ [FanNext]_allVars => FanInv'
<1>. SUFFICES ASSUME IsFiniteSet(Companies), FanInv, [FanNext]_allVars PROVE FanInv'
  OBVIOUS
<1>1. ASSUME UNCHANGED fanVars PROVE FanInv'
  <2>1. stageJob' = stageJob /\ serving' = serving /\ pipelines' = pipelines
    BY <1>1 DEF fanVars
  <2>2. FanTypes' /\ JobsAreExclusive' /\ UnderwayIsOpen' /\ OpenHasAttempts'
    BY <2>1 DEF FanInv, FanTypes, JobsAreExclusive, UnderwayIsOpen, OpenHasAttempts, Underway
  <2>3. LeftIsServed' /\ FannedOut'
    BY <2>1 DEF FanInv, LeftIsServed, FannedOut, Underway
  <2>4. \A v : AttemptsMade(v)' = AttemptsMade(v)
    BY <2>1 DEF AttemptsMade
  <2>5. \A v, c : Unserved(v, c)' = Unserved(v, c)
    BY <2>1, <2>4 DEF Unserved
  <2>6. PipelinesCounted'
    BY <2>1, <2>4, <2>5 DEF FanInv, PipelinesCounted
  <2>. QED
    BY <2>2, <2>3, <2>6 DEF FanInv
<1>2. ASSUME NEW d \in Dispatchers, FinishDispatch(d) PROVE FanInv'
  BY <1>2, LeaveKeeps DEF FinishDispatch, Dispatched
<1>3. ASSUME NEW d \in Dispatchers, DispatchFault(d) PROVE FanInv'
  <2>. SUFFICES ASSUME NEW j, j = serving[d].job,
                       NEW s, s = IF stageJob[j].attempts < MaxAttempts THEN "open" ELSE "dead"
                PROVE  FanInv'
    OBVIOUS
  <2>1. /\ serving[d] # NotServing /\ serving' = [serving EXCEPT ![d] = NotServing]
        /\ stageJob' = [stageJob EXCEPT ![j] = AfterFault(j)]
        /\ pipelines' = pipelines \/ \E c \in serving[d].left : StartPipeline(j[1], c)
    BY <1>3 DEF DispatchFault
  <2>2. j \in StageJobs /\ FanTypes
    BY <2>1, Holding DEF FanInv
  <2>3. stageJob' = [stageJob EXCEPT ![j].status = s]
    BY <2>1, <2>2 DEF AfterFault, FanTypes
  <2>. QED
    BY <2>1, <2>3, LeaveKeeps
<1>4. CASE IngestStep
  BY <1>1, <1>4 DEF IngestStep
<1>5. CASE UNCHANGED allVars
  BY <1>1, <1>5 DEF allVars
<1>. QED
  BY <1>2, <1>3, <1>4, <1>5, StartKeeps, ServeKeeps DEF FanNext, DispatchStep

\* For any number of companies the invariant holds throughout.
LEMMA FanInvariant ==
  ASSUME IsFiniteSet(Companies)
  PROVE  FanSpec => []FanInv
<1>1. IsFiniteSet(Companies) /\ FanInit => FanInv
  BY FanInitial
<1>2. IsFiniteSet(Companies) /\ FanInv /\ [FanNext]_allVars => FanInv'
  BY FanStep
<1>. QED
  BY <1>1, <1>2, PTL DEF FanSpec

\* A stage job that is done has started a pipeline for every eligible company, not
\* only for the one that polled, whatever failed and was retried on the way
\* (automation/pipeline-stage-dispatcher.js).
THEOREM DoneJobsServedAll ==
  ASSUME IsFiniteSet(Companies)
  PROVE  FanSpec => []FannedOut
<1>1. FanInv => FannedOut
  BY DEF FanInv
<1>. QED
  BY <1>1, FanInvariant, PTL

\* Retries duplicate pipelines, but only so far: a company has at most one for each
\* attempt that was made at a stage job of the version.
THEOREM DuplicatesAreBounded ==
  ASSUME IsFiniteSet(Companies)
  PROVE  FanSpec => []PipelinesPerAttempt
<1>1. ASSUME FanInv PROVE PipelinesPerAttempt
  <2>. SUFFICES ASSUME NEW v \in Versions, NEW c \in Companies
                PROVE  pipelines[v][c] <= Cardinality(AttemptsMade(v))
    BY DEF PipelinesPerAttempt
  <2>1. pipelines[v][c] <= Cardinality(CountedFor(v, c)) /\ pipelines[v][c] \in Nat
    BY <1>1 DEF FanInv, FanTypes, PipelinesCounted, CountedFor
  <2>2. CountedFor(v, c) \subseteq AttemptsMade(v) /\ IsFiniteSet(AttemptsMade(v))
    BY AttemptsAreFinite DEF CountedFor
  <2>. QED
    BY <2>1, <2>2, CountGrows
<1>. QED
  BY <1>1, FanInvariant, PTL

\* The dispatchers take nothing from ingest.
LEMMA FanKeepsIngest ==
  DatedLater /\ TypeOK /\ IInv /\ [FanNext]_allVars => (TypeOK /\ IInv)'
<1>. SUFFICES ASSUME DatedLater, TypeOK, IInv, [FanNext]_allVars PROVE (TypeOK /\ IInv)'
  OBVIOUS
<1>1. CASE [Next]_vars
  BY <1>1, TypeNext, InvNext
<1>2. CASE UNCHANGED <<sourceVars, storeVars, poll>>
  <2>1. UNCHANGED <<visible, time, clock, watermark, snapshots, staged, poll>>
    BY <1>2 DEF sourceVars, storeVars
  <2>2. TypeOK'
    BY <2>1 DEF TypeOK, At
  <2>3. Drift
    BY <2>1 DEF Drift
  <2>4. DistinctDates' /\ MarkSafe'
    BY <2>1 DEF IInv, DistinctDates, MarkSafe, Safe, Handled, Staged
  <2>5. \A p \in Polls : HandlerInv(poll[p])'
    BY <1>2, <2>1, <2>3, HandlerUnmoved DEF IInv
  <2>. QED
    BY <2>1, <2>2, <2>4, <2>5 DEF IInv
<1>3. UNCHANGED vars \/ UNCHANGED allVars \/ IngestStep
      \/ \E d \in Dispatchers : DispatchFault(d)
  BY DEF FanNext, DispatchStep, StartDispatch, ServeCompany, FinishDispatch
<1>. QED
  BY <1>1, <1>2, <1>3 DEF allVars, IngestStep, DispatchFault

\* Ingest loses nothing beside the dispatchers either: the theorem NoLoss carries
\* over from ingest alone to the fan-out.
THEOREM NoLossWithFanOut ==
  ASSUME DatedLater
  PROVE  FanSpec => []NothingLost
<1>1. FanInit => TypeOK /\ IInv
  BY TypeInit, InvInit DEF FanInit
<1>2. TypeOK /\ IInv /\ [FanNext]_allVars => (TypeOK /\ IInv)'
  BY FanKeepsIngest
<1>3. IInv => NothingLost
  BY DEF IInv, MarkSafe, Safe, Handled, NothingLost
<1>. QED
  BY <1>1, <1>2, <1>3, PTL DEF FanSpec
=============================================================================

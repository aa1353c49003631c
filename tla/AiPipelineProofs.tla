-------------------------- MODULE AiPipelineProofs --------------------------
(***************************************************************************)
(* Theorems about AiPipeline, for every set of pipelines and runs, every   *)
(* length of the chain and every number of attempts, crashes and faults;   *)
(* the last, about retries, for runs without them.                         *)
(***************************************************************************)
EXTENDS AiPipeline, JobQueueProofs, FiniteSetTheorems

USE AttemptAssumption, ChainAssumption, JobAssumption

-----------------------------------------------------------------------------
(* The inductive invariant *)

\* A job that runs exists, counts the attempts of its runs, and gives each of
\* them a number of its own, until the count saturates.
RunsOfRows ==
  /\ \A j \in Jobs : IF row[j].status = "absent" THEN row[j].attempts = 0
                                                ELSE row[j].body \in Versions
  /\ \A p \in Runs : run[p].pc # "idle" => /\ row[run[p].job].status # "absent"
                                           /\ run[p].attempt <= row[run[p].job].attempts
  /\ \A p, q \in Runs :
       /\ run[p].pc # "idle" /\ run[q].pc # "idle"
       /\ run[p].job = run[q].job /\ run[p].attempt = run[q].attempt
       => p = q \/ run[p].attempt = AttemptsCap

Places == {"start", "claim", "task", "save", "enqueue", "fail"}
StateRow == [task : Tasks, status : Status, version : Nat]
Locals == [at : Places, version : Nat, next : Tasks \cup {Done},
           kind : {"transient", "unreachable", "fatal"}]

\* PipelineTypeOK without the bound on versions.
PipelineTypes ==
  /\ state \in [Pipelines -> StateRow]
  /\ dispatch \in [Pipelines -> {"idle", "created", "done"}]
  /\ local \in [Runs -> Locals]
  /\ invoked \in [Jobs -> Nat]
  /\ completed \in [Pipelines -> Seq(Tasks)]
  /\ \A p \in Runs : run[p].pc # "handling" => local[p] = NoLocal
  /\ \A p \in Runs : local[p].at = "start" => local[p].version = 0
  /\ \A p \in Runs : local[p].at = "claim" => local[p].version \in Versions

\* A run that claimed the state row.
Holding(p) == run[p].pc = "handling" /\ local[p].at \in {"task", "save", "enqueue", "fail"}

\* A run that claimed the row holds it, running at the version of the claim, or
\* the row has moved past that version; and no two claims have one version.
ClaimsHeld ==
  /\ \A p \in Runs : Holding(p) =>
       LET s == state[PipelineOf(p)]
       IN /\ local[p].version \in 1..s.version
          /\ local[p].at \in {"task", "save"} => local[p].version = s.version
          /\ local[p].at = "enqueue" => local[p].version < s.version
          /\ local[p].version = s.version => s.status = "running" /\ s.task = TaskOf(p)
  /\ \A p, q \in Runs :
       /\ Holding(p) /\ Holding(q)
       /\ PipelineOf(p) = PipelineOf(q) /\ local[p].version = local[q].version
       => p = q

\* A run that is past its task knows the successor, and a run that is past the
\* completion finds it recorded.
Recorded(x, t) == \E i \in DOMAIN completed[x] : completed[x][i] = t
Successors ==
  \A p \in Runs :
    /\ run[p].pc = "handling" /\ local[p].at \in {"save", "enqueue"} =>
         local[p].next \in NextTasks(TaskOf(p))
    /\ run[p].pc = "handling" /\ local[p].at = "enqueue" => local[p].next # Done
    /\ run[p].pc = "complete" \/ At(p, "enqueue") => Recorded(PipelineOf(p), TaskOf(p))

\* Nothing is recorded of a pipeline that was not created.
Created ==
  \A x \in Pipelines : IF dispatch[x] = "idle" THEN state[x] = NoState /\ completed[x] = <<>>
                                               ELSE state[x].status # "absent"

\* The attempts below the last that are still to come or under way: each of
\* them may put the pipeline back to "retrying" once.
Reserve(j) ==
  {a \in 1..(MaxAttempts - 1) :
     \/ a > row[j].attempts
     \/ \E p \in Runs : run[p].pc = "handling" /\ run[p].job = j /\ run[p].attempt = a}

\* A call of a handler was paid for by an attempt that is over, or is the last.
CallsCounted ==
  \A x \in Pipelines, t \in Tasks :
    LET calls == invoked[<<x, t>>]
        left == Cardinality(Reserve(<<x, t>>))
    IN /\ calls <= MaxAttempts
       /\ t > state[x].task => calls = 0
       /\ t = state[x].task =>
            /\ state[x].status \in {"absent", "queued"} => calls = 0
            /\ state[x].status = "running" => calls + left <= MaxAttempts
            /\ state[x].status = "retrying" => calls + left < MaxAttempts

\* The version at which a task starts, if all before it took all their calls.
Base(t) == 2 * MaxAttempts * (t - 1) + 1
Calls(x) == invoked[<<x, state[x].task>>]

\* A call of a handler moves the version on by two.
VersionsCounted ==
  /\ \A x \in Pipelines :
       LET s == state[x]
       IN /\ s.status = "absent" <=> s.version = 0
          /\ s.status = "queued" => s.version <= Base(s.task)
          /\ s.status = "retrying" => s.version <= Base(s.task) + 2 * Calls(x)
          /\ s.status = "running" => s.version < Base(s.task) + 2 * MaxAttempts
          /\ s.version <= Base(s.task) + 2 * MaxAttempts
  /\ \A p \in Runs :
       Holding(p) /\ local[p].version = state[PipelineOf(p)].version =>
         local[p].version < Base(TaskOf(p)) + 2 * Calls(PipelineOf(p))

PipelineInv ==
  /\ TypeInv
  /\ RunsOfRows
  /\ PipelineTypes
  /\ ClaimsHeld
  /\ Successors
  /\ Created
  /\ CompletedInOrder
  /\ SucceededJobIsRecorded
  /\ CallsCounted
  /\ VersionsCounted

-----------------------------------------------------------------------------
(* What a step does to the rows and the runs of the queue *)

\* A row is bound once; after that it keeps its request and its attempts grow,
\* and it succeeds only by a run that completes it.
RowsMove ==
  \A j \in Jobs :
    \/ /\ row[j].status = "absent"
       /\ row'[j].status = "queued" /\ row'[j].attempts = 0 /\ row'[j].body \in Versions
    \/ /\ row'[j].body = row[j].body
       /\ row'[j].attempts >= row[j].attempts
       /\ row'[j].status = "absent" <=> row[j].status = "absent"
       /\ row[j].status = "absent" => row'[j].attempts = row[j].attempts
       /\ row'[j].status = "succeeded" =>
            \/ row[j].status = "succeeded"
            \/ \E p \in Runs : run[p].pc = "complete" /\ run[p].job = j

\* A run keeps its job and its attempt until it ends.
RunKept(q) ==
  /\ run[q].pc # "idle"
  /\ run'[q].job = run[q].job /\ run'[q].attempt = run[q].attempt
  /\ run'[q].pc = "handling" => run[q].pc = "handling"
  /\ run'[q].pc = "complete" => run[q].pc \in {"handling", "complete"}

\* A claim counts the attempt in the row before the run has it.
RunClaims(q) ==
  /\ run[q].pc = "idle" /\ run'[q].pc = "handling"
  /\ run'[q].job \in Jobs /\ row[run'[q].job].status \notin {"absent", "succeeded"}
  /\ run'[q].attempt = MinOf(row[run'[q].job].attempts + 1, AttemptsCap)
  /\ row'[run'[q].job].attempts = run'[q].attempt
  /\ \A p \in Runs \ {q} : run'[p] = run[p]

RunsMove == \A q \in Runs : run'[q].pc = "idle" \/ RunKept(q) \/ RunClaims(q)

QueueMoves == RowsMove /\ RunsMove

\* Mutual numbering of the attempts survives every such step.
LEMMA MovesKeepRuns ==
  ASSUME TypeInv, TypeInv', RunsOfRows, QueueMoves
  PROVE  RunsOfRows'
<1>1. /\ \A j \in Jobs : row[j].attempts \in 0..AttemptsCap
      /\ \A p \in Runs : run[p].pc # "idle" => run[p].job \in Jobs /\ run[p].attempt \in 1..AttemptsCap
      /\ AttemptsCap \in Nat
  <2>1. \A j \in Jobs : row[j].attempts \in 0..AttemptsCap
    BY DEF TypeInv, TypeOK, Row
  <2>2. AttemptsCap \in Nat
    BY DEF AttemptsCap
  <2>. QED
    BY <2>1, <2>2 DEF TypeInv, TypeOK
<1>2. \A j \in Jobs : row'[j].attempts \in 0..AttemptsCap
  BY DEF TypeInv, TypeOK, Row, AttemptsCap
<1>3. \A j \in Jobs : IF row'[j].status = "absent" THEN row'[j].attempts = 0
                                                  ELSE row'[j].body \in Versions
  BY DEF QueueMoves, RowsMove, RunsOfRows
<1>4. \A j \in Jobs : row[j].status # "absent" => /\ row'[j].status # "absent"
                                                   /\ row'[j].attempts >= row[j].attempts
  BY DEF QueueMoves, RowsMove
<1>5. \A p \in Runs : run'[p].pc # "idle" => RunKept(p) \/ RunClaims(p)
  BY DEF QueueMoves, RunsMove
<1>6. ASSUME NEW p \in Runs, run'[p].pc # "idle"
      PROVE  /\ row'[run'[p].job].status # "absent"
             /\ run'[p].attempt <= row'[run'[p].job].attempts
  <2>1. CASE RunKept(p)
    BY <1>1, <1>2, <1>4, <1>6, <2>1 DEF RunKept, RunsOfRows
  <2>2. CASE RunClaims(p)
    <3>1. run'[p].job \in Jobs
      BY <2>2 DEF RunClaims
    <3>. QED
      BY <1>2, <1>4, <2>2, <3>1 DEF RunClaims
  <2>. QED
    BY <1>5, <1>6, <2>1, <2>2
<1>7. ASSUME NEW p \in Runs, NEW q \in Runs, run'[p].pc # "idle", run'[q].pc # "idle",
             run'[p].job = run'[q].job, run'[p].attempt = run'[q].attempt, p # q
      PROVE  run'[p].attempt = AttemptsCap
  <2>1. CASE RunKept(p) /\ RunKept(q)
    BY <1>7, <2>1 DEF RunKept, RunsOfRows
  <2>2. ASSUME NEW c \in Runs, NEW k \in Runs, c # k, RunClaims(c), run'[k].pc # "idle",
               run'[c].job = run'[k].job, run'[c].attempt = run'[k].attempt
        PROVE  run'[c].attempt = AttemptsCap
    <3>1. run'[k] = run[k]
      BY <2>2 DEF RunClaims
    <3>2. run[k].attempt <= row[run[k].job].attempts
      BY <2>2, <3>1 DEF RunsOfRows
    <3>. DEFINE a == row[run'[c].job].attempts
    <3>3. a \in 0..AttemptsCap /\ run'[c].attempt <= a /\ run'[c].attempt = MinOf(a + 1, AttemptsCap)
      BY <1>1, <2>2, <3>1, <3>2 DEF RunClaims
    <3>. QED
      BY <1>1, <3>3 DEF MinOf
  <2>. QED
    BY <1>5, <1>7, <2>1, <2>2
<1>. QED
  BY <1>3, <1>6, <1>7 DEF RunsOfRows

\* The queue's own steps make such moves.
LEMMA QueueStepsMove ==
  ASSUME TypeInv, NEW p \in Runs,
         (\E j \in Jobs : Claim(p, j)) \/ Settle(p) \/ LockConflict(p)
         \/ (\E retryable \in BOOLEAN : StoreFault(p, retryable)) \/ NextRequest(p)
         \/ Crash(p) \/ RecoverStale \/ Tick
  PROVE  QueueMoves /\ TypeInv'
<1>1. TypeInv'
  BY TypeStep DEF Next, RunStep
<1>2. TypeOK /\ TypeOK'
  BY <1>1 DEF TypeInv
<1>3. \A q \in Runs : run[q].pc # "idle" => run[q].job \in Jobs
  BY <1>2 DEF TypeOK
\* Rows and runs that change in no respect that matters here.
<1>. DEFINE SameRow(j) == /\ row'[j].body = row[j].body
                          /\ row'[j].status = row[j].status
                          /\ row'[j].attempts = row[j].attempts
            EndsOrGoesOn == /\ run'[p].pc = "idle" \/ RunKept(p)
                            /\ \A q \in Runs \ {p} : run'[q] = run[q]
<1>4. ASSUME NEW j \in Jobs, SameRow(j)
      PROVE  /\ row'[j].body = row[j].body
             /\ row'[j].attempts >= row[j].attempts
             /\ row'[j].status = "absent" <=> row[j].status = "absent"
             /\ row[j].status = "absent" => row'[j].attempts = row[j].attempts
             /\ row'[j].status = "succeeded" => row[j].status = "succeeded"
  BY <1>2, <1>4 DEF TypeOK, Row
<1>5. (\A j \in Jobs : SameRow(j)) => RowsMove
  BY <1>4 DEF RowsMove
<1>6. \A q \in Runs : run'[q] = run[q] => run'[q].pc = "idle" \/ RunKept(q)
  BY DEF RunKept
<1>7. EndsOrGoesOn => RunsMove
  BY <1>6 DEF RunsMove
<1>8. ASSUME run[p].pc \in Settling, OwnsLock(p), Write(p)
      PROVE  RowsMove
  <2>. DEFINE j == run[p].job
  <2>1. /\ j \in Jobs
        /\ row'[j].status \in Terminal \cup {"retrying"}
        /\ row'[j].body = row[j].body
        /\ row'[j].attempts = row[j].attempts
        /\ \A k \in Jobs \ {j} : row'[k] = row[k]
    BY <1>8, WriteEffect
  <2>2. row[j].status = "running"
    BY <1>8 DEF OwnsLock
  <2>3. ASSUME run[p].pc # "complete"
        PROVE  row'[j].status # "succeeded"
    <3>1. PICK status \in {"dead_letter", "retrying"} :
            \E due : row' = [row EXCEPT ![j] = Released(row[j], status, due)]
      BY <1>8, <2>3 DEF Write, Release
    <3>2. row[j] \in Row /\ \E due : row'[j] = Released(row[j], status, due)
      BY <1>2, <2>1, <3>1 DEF TypeOK
    <3>. QED
      BY <3>2 DEF Released, Row
  <2>4. row[j].attempts \in Int
    BY <1>2, <2>1 DEF TypeOK, Row
  <2>5. \A k \in Jobs : k # j => SameRow(k)
    BY <2>1
  <2>. QED
    BY <1>4, <2>1, <2>2, <2>3, <2>4, <2>5 DEF RowsMove, Terminal
<1>9. CASE \E j \in Jobs : Claim(p, j)
  <2>1. PICK j \in Jobs : Claim(p, j)
    BY <1>9
  <2>2. /\ run[p].pc = "idle"
        /\ row[j].status \in Waiting
        /\ row'[j] = Claimed(row[j], WorkerIdOf[p])
        /\ row'[j].status = "running"
        /\ row'[j].attempts = MinOf(row[j].attempts + 1, AttemptsCap)
        /\ run'[p].pc = "handling" /\ run'[p].job = j
        /\ run'[p].attempt = MinOf(row[j].attempts + 1, AttemptsCap)
        /\ \A k \in Jobs \ {j} : row'[k] = row[k]
        /\ \A q \in Runs \ {p} : run'[q] = run[q]
    BY <2>1, ClaimEffect
  <2>3. row[j].attempts \in 0..AttemptsCap /\ AttemptsCap \in Nat
    BY <1>2 DEF TypeOK, Row, AttemptsCap
  <2>7. row'[j].body = row[j].body
    BY <1>2, <2>2 DEF TypeOK, Row, Claimed
  <2>4. row'[j].attempts >= row[j].attempts
    BY <2>2, <2>3 DEF MinOf
  <2>5. RowsMove
    <3>1. \A k \in Jobs : k # j => SameRow(k)
      BY <2>2
    <3>. QED
      BY <1>4, <2>2, <2>4, <2>7, <3>1 DEF RowsMove, Waiting
  <2>6. RunClaims(p)
    BY <2>2 DEF RunClaims, Waiting
  <2>. QED
    BY <1>1, <1>6, <2>2, <2>5, <2>6 DEF QueueMoves, RunsMove
<1>10. CASE Settle(p)
  <2>1. EndsOrGoesOn
    BY <1>2, <1>10, EndRun DEF Settle, Idle
  <2>. QED
    BY <1>1, <1>7, <1>8, <1>10, <2>1 DEF Settle, QueueMoves
<1>11. CASE LockConflict(p)
  <2>1. EndsOrGoesOn
    <3>1. run[p].pc \in Settling /\ (Goto(p, "deadLetter") \/ End(p))
      BY <1>11 DEF LockConflict
    <3>. QED
      BY <1>2, <3>1, EndRun, GotoRun DEF Idle, RunKept, Settling
  <2>2. \A j \in Jobs : SameRow(j)
    BY <1>11 DEF LockConflict, rowVars
  <2>. QED
    BY <1>1, <1>5, <1>7, <2>1, <2>2 DEF QueueMoves
<1>12. ASSUME NEW retryable \in BOOLEAN, StoreFault(p, retryable)
       PROVE  QueueMoves
  <2>1. run[p].pc \in Settling
    BY <1>12 DEF StoreFault
  <2>2. EndsOrGoesOn
    <3>1. Goto(p, AfterError(p, retryable)) \/ End(p)
      BY <1>12 DEF StoreFault
    <3>. QED
      BY <1>2, <2>1, <3>1, EndRun, GotoRun, AfterErrorRange DEF Idle, RunKept, Settling
  <2>3. RowsMove
    <3>1. CASE OwnsLock(p) /\ Write(p)
      BY <1>8, <2>1, <3>1
    <3>2. CASE UNCHANGED row
      BY <1>5, <3>2
    <3>. QED
      BY <1>12, <3>1, <3>2 DEF StoreFault
  <2>. QED
    BY <1>7, <2>2, <2>3 DEF QueueMoves
<1>13. CASE NextRequest(p)
  <2>1. run[p].pc = "handling" /\ run' = [run EXCEPT ![p] = Requested(run[p])]
    BY <1>13 DEF NextRequest
  <2>2. EndsOrGoesOn
    BY <1>2, <2>1, RequestedRun DEF RunKept, TypeOK
  <2>3. \A j \in Jobs : SameRow(j)
    BY <1>13 DEF NextRequest, rowVars
  <2>. QED
    BY <1>1, <1>5, <1>7, <2>2, <2>3 DEF QueueMoves
<1>14. CASE Crash(p)
  <2>1. EndsOrGoesOn
    BY <1>2, <1>14, EndRun DEF Crash, Idle
  <2>2. \A j \in Jobs : SameRow(j)
    BY <1>14 DEF Crash, rowVars
  <2>. QED
    BY <1>1, <1>5, <1>7, <2>1, <2>2 DEF QueueMoves
<1>15. CASE RecoverStale
  <2>1. \A j \in Jobs : \/ SameRow(j)
                        \/ /\ row[j].status = "running" /\ row'[j].status = "retrying"
                           /\ row'[j].body = row[j].body /\ row'[j].attempts = row[j].attempts
    BY <1>15, RecoverEffect
  <2>2. \A j \in Jobs : row[j].attempts \in Int
    BY <1>2 DEF TypeOK, Row
  <2>3. RowsMove
    BY <1>4, <2>1, <2>2 DEF RowsMove
  <2>4. run' = run
    BY <1>15 DEF RecoverStale
  <2>. QED
    BY <1>1, <1>6, <2>3, <2>4 DEF QueueMoves, RunsMove
<1>16. CASE Tick
  <2>1. \A j \in Jobs : SameRow(j)
    BY <1>16, TickEffect
  <2>2. \A q \in Runs : run'[q].pc = "idle" \/ RunKept(q)
    BY <1>16, TickEffect DEF RunKept
  <2>. QED
    BY <1>1, <1>5, <2>1, <2>2 DEF QueueMoves, RunsMove
<1>. QED
  BY <1>1, <1>9, <1>10, <1>11, <1>12, <1>13, <1>14, <1>15, <1>16

\* So do the steps of a handler and of the dispatcher: they bind a row at most,
\* and let a handler end at most.
BindsAtMost ==
  UNCHANGED row \/ \E j \in Jobs, v \in Versions : Answer(j, v) = "created" /\ Bind(j, v)
EndsHandler(p, where) ==
  /\ run[p].pc = "handling"
  /\ where = "retry" => run[p].attempt < MaxAttempts
  /\ Goto(p, where)
EndsAtMost == UNCHANGED run \/ \E p \in Runs, where \in Settling : EndsHandler(p, where)

LEMMA HandlerStepsMove ==
  ASSUME TypeInv, BindsAtMost, EndsAtMost,
         faults' \in {faults, faults + 1}, UNCHANGED <<holder, recovered>>
  PROVE  QueueMoves /\ TypeInv'
<1>1. TypeOK /\ RunsKnown
  BY DEF TypeInv
<1>2. RowsOK' /\ RowsMove
  <2>1. CASE UNCHANGED row
    BY <1>1, <2>1 DEF RowsOK, RowsMove, TypeOK, Row
  <2>2. ASSUME NEW j \in Jobs, NEW v \in Versions, Answer(j, v) = "created", Bind(j, v)
        PROVE  RowsOK' /\ RowsMove
    <3>1. FreshRow(v, "queued") \in Row
      BY VersionAssumption DEF FreshRow, Row, Status, Waiting, AttemptsCap
    <3>2. /\ row[j].status = "absent"
          /\ row' = [row EXCEPT ![j] = FreshRow(v, "queued")]
      BY <2>2 DEF Answer, Bind
    <3>3. RowsOK'
      BY <1>1, <3>1, <3>2 DEF RowsOK, TypeOK
    <3>4. /\ row'[j].status = "queued" /\ row'[j].attempts = 0 /\ row'[j].body = v
          /\ \A k \in Jobs \ {j} : row'[k] = row[k] /\ row[k].attempts \in Int
      BY <1>1, <3>2 DEF TypeOK, FreshRow, Row
    <3>. QED
      BY <3>2, <3>3, <3>4 DEF RowsMove
  <2>. QED
    BY <2>1, <2>2 DEF BindsAtMost
<1>3. RunsOK' /\ RunsMove
  <2>1. CASE UNCHANGED run
    BY <1>1, <2>1 DEF RunsOK, RunsMove, RunKept, RunsKnown, TypeOK
  <2>2. ASSUME NEW p \in Runs, NEW where \in Settling, EndsHandler(p, where)
        PROVE  RunsOK' /\ RunsMove
    <3>1. RunsOK'
      BY <2>2, GotoKeepsRuns DEF EndsHandler
    <3>. QED
      BY <1>1, <2>2, <3>1, GotoRun DEF RunsMove, RunKept, EndsHandler, Settling
  <2>. QED
    BY <2>1, <2>2 DEF EndsAtMost
<1>4. (faults \in Nat)' /\ (recovered \in SUBSET Jobs)'
  BY <1>1 DEF TypeOK
<1>5. TypeInv'
  BY <1>2, <1>3, <1>4, TypeParts, PTL
<1>. QED
  BY <1>2, <1>3, <1>5 DEF QueueMoves

-----------------------------------------------------------------------------
(* What a step does to the pipelines and to the local variables of a run *)

Goes(p, from, to) ==
  run[p].pc = "handling" /\ run'[p] = run[p] /\ local[p].at \in from /\ local'[p].at = to
Leaves(p) == run[p].pc # "idle" /\ run'[p].pc \in {"idle"} \cup Settling /\ local'[p] = NoLocal
Kept(p) ==
  /\ local'[p] = local[p]
  /\ run'[p].pc = "handling" => run[p].pc = "handling" \/ local[p] = NoLocal
  /\ run[p].pc = "handling" => run'[p].pc = "handling"
  /\ run'[p].pc = "complete" => run[p].pc = "complete"
Others(p) == \A q \in Runs \ {p} : run'[q] = run[q] /\ local'[q] = local[q]

\* A step of _execute that writes nothing.
Moved(p) ==
  \/ Kept(p)
  \/ Leaves(p) /\ (run'[p].pc = "complete" => At(p, "enqueue"))
  \/ Goes(p, {"start"}, "claim") /\ local'[p].version \in Versions
  \/ /\ Goes(p, {"task"}, "save")
     /\ local'[p].version = local[p].version
     /\ local'[p].next \in NextTasks(TaskOf(p))
  \/ /\ Goes(p, {"task", "save", "enqueue"}, "fail")
     /\ local'[p].version = local[p].version

Quiet == UNCHANGED <<state, invoked, completed>> /\ \A q \in Runs : Moved(q)

\* The claim of the row, its completion and its failure, whether or not the
\* run learns of it.
Claims(p) ==
  /\ At(p, "claim") /\ Matches(p, Waiting)
  /\ SetState(p, TaskOf(p), "running")
  /\ UNCHANGED completed
  /\ Others(p)
  /\ \/ /\ Goes(p, {"claim"}, "task")
        /\ local'[p].version = local[p].version + 1
        /\ invoked' = [invoked EXCEPT ![run[p].job] = @ + 1]
     \/ /\ Leaves(p) /\ run'[p].pc # "complete"
        /\ UNCHANGED invoked

Completes(p) ==
  /\ At(p, "save") /\ Matches(p, {"running"})
  /\ RecordCompletion(p)
  /\ UNCHANGED invoked
  /\ Others(p)
  /\ \/ Leaves(p)
     \/ /\ Goes(p, {"save"}, "enqueue") /\ local[p].next # Done
        /\ local'[p].version = local[p].version /\ local'[p].next = local[p].next
     \/ Goes(p, {"save"}, "fail") /\ local'[p].version = local[p].version

Fails(p) ==
  /\ At(p, "fail") /\ Matches(p, {"running"})
  /\ SetState(p, TaskOf(p), FailureStatus(p))
  /\ UNCHANGED <<invoked, completed>>
  /\ Others(p)
  /\ Leaves(p) /\ run'[p].pc # "complete"

\* What a busy run is about.
LEMMA Subject ==
  ASSUME TypeInv, PipelineTypes, NEW p \in Runs, run[p].pc # "idle"
  PROVE  /\ run[p].job \in Jobs
         /\ PipelineOf(p) \in Pipelines /\ TaskOf(p) \in Tasks
         /\ run[p].job = <<PipelineOf(p), TaskOf(p)>>
         /\ state[PipelineOf(p)] \in StateRow
         /\ local[p] \in Locals
<1>1. run[p].job \in Pipelines \X Tasks
  BY DEF TypeInv, TypeOK
<1>. QED
  BY <1>1 DEF PipelineOf, TaskOf, PipelineTypes

\* A state row that is written moves on by one version.
LEMMA SetStateEffect ==
  ASSUME TypeInv, PipelineTypes, NEW p \in Runs, run[p].pc # "idle",
         NEW t \in Tasks, NEW status \in Status, SetState(p, t, status)
  PROVE  /\ state' \in [Pipelines -> StateRow]
         /\ state'[PipelineOf(p)].task = t
         /\ state'[PipelineOf(p)].status = status
         /\ state'[PipelineOf(p)].version = state[PipelineOf(p)].version + 1
         /\ \A x \in Pipelines \ {PipelineOf(p)} : state'[x] = state[x]
<1>. DEFINE x == PipelineOf(p)
            new == [task |-> t, status |-> status, version |-> state[x].version + 1]
<1>1. x \in Pipelines /\ state[x] \in StateRow /\ state \in [Pipelines -> StateRow]
  BY Subject DEF PipelineTypes
<1>2. state' = [state EXCEPT ![x] = new]
  BY DEF SetState
<1>3. new \in StateRow /\ new.task = t /\ new.status = status /\ new.version = state[x].version + 1
  BY <1>1 DEF StateRow
<1>. HIDE DEF new, x
<1>4. state' \in [Pipelines -> StateRow] /\ state'[x] = new /\ \A y \in Pipelines \ {x} : state'[y] = state[y]
  BY <1>1, <1>2, <1>3
<1>. QED
  BY <1>3, <1>4 DEF x

\* The bounds of the versions.
LEMMA Bases ==
  ASSUME NEW t \in Tasks
  PROVE  /\ Base(t) \in Nat \ {0}
         /\ Base(t + 1) = Base(t) + 2 * MaxAttempts
         /\ Base(t) + 2 * MaxAttempts <= 2 * MaxAttempts * LastTask + 1
<1>1. t \in Nat /\ 1 <= t /\ t <= LastTask /\ LastTask \in Nat /\ MaxAttempts \in Nat
  BY DEF Tasks
<1>2. MaxAttempts * (t - 1) \in Nat
  BY <1>1
<1>3. MaxAttempts * t <= MaxAttempts * LastTask
  BY <1>1
<1>4. MaxAttempts * t = MaxAttempts * (t - 1) + MaxAttempts
  BY <1>1
<1>. QED
  BY <1>1, <1>2, <1>3, <1>4 DEF Base

LEMMA StateVersions ==
  ASSUME PipelineTypes, VersionsCounted, NEW x \in Pipelines
  PROVE  /\ state[x].version \in Versions \cup {0}
         /\ state[x].status # "absent" => state[x].version \in Versions
<1>1. /\ state[x].task \in Tasks /\ state[x].version \in Nat
      /\ state[x].status = "absent" <=> state[x].version = 0
      /\ state[x].version <= Base(state[x].task) + 2 * MaxAttempts
  BY DEF PipelineTypes, StateRow, VersionsCounted
<1>2. state[x].version <= 2 * MaxAttempts * LastTask + 1
  BY <1>1, Bases
<1>. QED
  BY <1>1, <1>2 DEF Versions

\* A run that returns or throws leaves the handler and forgets its variables.
LEMMA LeaveEffect ==
  ASSUME TypeInv, PipelineTypes, NEW p \in Runs, run[p].pc = "handling",
         NEW where \in Settling, where = "retry" => run[p].attempt < MaxAttempts,
         Goto(p, where), Leave(p)
  PROVE  /\ EndsAtMost
         /\ Leaves(p) /\ run'[p].pc = where
         /\ Others(p)
         /\ local' \in [Runs -> Locals]
<1>1. /\ run'[p].pc = where
      /\ \A q \in Runs \ {p} : run'[q] = run[q]
  BY GotoRun DEF TypeInv
<1>2. NoLocal \in Locals
  BY DEF NoLocal, Locals, Places
<1>3. /\ local' \in [Runs -> Locals]
      /\ local'[p] = NoLocal
      /\ \A q \in Runs \ {p} : local'[q] = local[q]
  BY <1>2 DEF Leave, PipelineTypes
<1>4. EndsAtMost
  BY DEF EndsAtMost, EndsHandler
<1>. QED
  BY <1>1, <1>3, <1>4 DEF Leaves, Others

LEMMA ThrowEffect ==
  ASSUME TypeInv, PipelineTypes, NEW p \in Runs, run[p].pc = "handling",
         NEW retryable, Throw(p, retryable)
  PROVE  /\ EndsAtMost
         /\ Leaves(p) /\ run'[p].pc # "complete"
         /\ Others(p)
         /\ local' \in [Runs -> Locals]
<1>1. /\ AfterError(p, retryable) \in Settling
      /\ AfterError(p, retryable) # "complete"
      /\ AfterError(p, retryable) = "retry" => run[p].attempt < MaxAttempts
  BY AfterErrorRange DEF Settling
<1>. QED
  BY <1>1, LeaveEffect DEF Throw

LEMMA ReturnEffect ==
  ASSUME TypeInv, PipelineTypes, NEW p \in Runs, run[p].pc = "handling", Return(p)
  PROVE  /\ EndsAtMost
         /\ Leaves(p) /\ run'[p].pc = "complete"
         /\ Others(p)
         /\ local' \in [Runs -> Locals]
BY LeaveEffect DEF Return, Settling

\* A run that goes on in the handler.
LEMMA GoEffect ==
  ASSUME TypeInv, PipelineTypes, NEW p \in Runs, run[p].pc = "handling", UNCHANGED run,
         NEW new \in Locals, local' = [local EXCEPT ![p] = new]
  PROVE  /\ run'[p] = run[p] /\ local'[p] = new
         /\ EndsAtMost
         /\ Others(p)
         /\ local' \in [Runs -> Locals]
BY DEF PipelineTypes, Others, EndsAtMost

\* A step that writes nothing of the pipelines moves one run at most.
LEMMA QuietStep ==
  ASSUME NEW p \in Runs, Moved(p), Others(p), UNCHANGED <<state, invoked, completed>>
  PROVE  Quiet
BY DEF Quiet, Others, Moved, Kept

Shape(p) == Quiet \/ Claims(p) \/ Completes(p) \/ Fails(p)

\* Every step of _execute is of one of these four shapes.
LEMMA ExecuteShape ==
  ASSUME PipelineInv, NEW p \in Runs,
         ExecuteStep(p) \/ \E kind \in ErrorKinds : ExecuteFault(p, kind)
  PROVE  /\ Shape(p)
         /\ QueueMoves /\ TypeInv'
         /\ local' \in [Runs -> Locals]
         /\ dispatch' = dispatch
<1>. DEFINE s == state[PipelineOf(p)]
            l == local[p]
            Goal == /\ Shape(p)
                    /\ BindsAtMost /\ EndsAtMost
                    /\ local' \in [Runs -> Locals]
                    /\ dispatch' = dispatch
                    /\ faults' \in {faults, faults + 1}
                    /\ UNCHANGED <<holder, recovered>>
<1>1. TypeInv /\ PipelineTypes /\ RunsOfRows /\ ClaimsHeld /\ Successors /\ VersionsCounted
  BY DEF PipelineInv
<1>2. SUFFICES Goal
  BY <1>1, HandlerStepsMove
<1>. USE DEF Shape
<1>3. run[p].pc = "handling"
  BY DEF ExecuteStep, ExecuteFault, At, ReadState, ClaimState, TaskReturns, TaskThrows,
         CompleteState, EnqueueNext, FailState
<1>4. /\ run[p].job \in Jobs /\ s \in StateRow /\ l \in Locals
      /\ PipelineOf(p) \in Pipelines /\ TaskOf(p) \in Tasks
      /\ run[p].job = <<PipelineOf(p), TaskOf(p)>>
  BY <1>1, <1>3, Subject
<1>5. ErrorKinds \subseteq {"transient", "unreachable", "fatal"}
  BY KindAssumption
<1>6. local \in [Runs -> Locals]
  BY <1>1 DEF PipelineTypes
<1>7. UNCHANGED vars => /\ BindsAtMost /\ UNCHANGED <<run, holder, recovered>>
                        /\ faults' \in {faults, faults + 1}
  BY DEF vars, BindsAtMost
<1>8. UNCHANGED rowVars => BindsAtMost /\ UNCHANGED <<holder, recovered>>
  BY DEF rowVars, BindsAtMost
<1>9. CASE ReadState(p)
  <2>. DEFINE v == IF s.status = "retrying" THEN s.version ELSE row[run[p].job].body
              new == [l EXCEPT !.at = "claim", !.version = v]
  <2>1. v \in Versions
    <3>1. s.status = "retrying" => s.version \in Versions
      BY <1>1, <1>4, StateVersions
    <3>2. row[run[p].job].body \in Versions
      BY <1>1, <1>3, <1>4 DEF RunsOfRows
    <3>. QED
      BY <3>1, <3>2
  <2>2. new \in Locals /\ new.at = "claim" /\ new.version = v
    <3>. HIDE DEF v
    <3>1. v \in Nat
      BY <2>1 DEF Versions
    <3>. QED
      BY <1>4, <3>1 DEF Locals, Places
  <2>3. local' = [local EXCEPT ![p] = new] /\ UNCHANGED vars /\ l.at = "start"
    BY <1>9, <1>6 DEF ReadState, At
  <2>4. UNCHANGED <<state, dispatch, invoked, completed>>
    BY <1>9 DEF ReadState
  <2>. HIDE DEF new, v
  <2>5. /\ Goes(p, {"start"}, "claim") /\ local'[p] = new
        /\ EndsAtMost /\ Others(p) /\ local' \in [Runs -> Locals]
    BY <1>1, <1>3, <1>7, <2>2, <2>3, GoEffect DEF Goes
  <2>6. Quiet
    BY <2>1, <2>2, <2>4, <2>5, QuietStep DEF Moved
  <2>. QED
    BY <1>7, <2>3, <2>4, <2>5, <2>6
<1>10. CASE ClaimState(p)
  <2>1. CASE Matches(p, Waiting)
    <3>. DEFINE n == l.version + 1
                new == [l EXCEPT !.at = "task", !.version = n]
    <3>1. n \in Nat
      BY <1>4 DEF Locals
    <3>2. local' = [local EXCEPT ![p] = new]
      BY <1>10, <2>1, <1>6 DEF ClaimState
    <3>. HIDE DEF n
    <3>3. new \in Locals /\ new.at = "task" /\ new.version = n
      BY <1>4, <3>1 DEF Locals, Places
    <3>. HIDE DEF new
    <3>4. /\ l.at = "claim" /\ UNCHANGED run /\ SetState(p, TaskOf(p), "running")
          /\ invoked' = [invoked EXCEPT ![run[p].job] = @ + 1]
          /\ UNCHANGED <<rowVars, faults, dispatch, completed>>
      BY <1>10, <2>1 DEF ClaimState, At
    <3>5. /\ Goes(p, {"claim"}, "task") /\ local'[p] = new
          /\ EndsAtMost /\ Others(p) /\ local' \in [Runs -> Locals]
      BY <1>1, <1>3, <3>2, <3>3, <3>4, GoEffect DEF Goes
    <3>6. local'[p].version = local[p].version + 1
      BY <3>3, <3>5 DEF n
    <3>7. Claims(p)
      BY <1>3, <2>1, <3>4, <3>5, <3>6 DEF Claims, At
    <3>. QED
      BY <1>8, <3>4, <3>5, <3>7
  <2>2. CASE ~Matches(p, Waiting)
    <3>1. Throw(p, FALSE) /\ UNCHANGED <<rowVars, faults, dispatch, completed, state, invoked>>
      BY <1>10, <2>2 DEF ClaimState
    <3>2. /\ EndsAtMost /\ Leaves(p) /\ run'[p].pc # "complete"
          /\ Others(p) /\ local' \in [Runs -> Locals]
      BY <1>1, <1>3, <3>1, ThrowEffect
    <3>3. Quiet
      BY <3>1, <3>2, QuietStep DEF Moved
    <3>. QED
      BY <1>8, <3>1, <3>2, <3>3
  <2>. QED
    BY <2>1, <2>2
<1>11. CASE TaskReturns(p)
  <2>1. PICK t \in NextTasks(TaskOf(p)) :
          local' = [local EXCEPT ![p].at = "save", ![p].next = t]
    BY <1>11 DEF TaskReturns
  <2>. DEFINE new == [l EXCEPT !.at = "save", !.next = t]
  <2>2. t \in Tasks \cup {Done}
    BY <1>4 DEF NextTasks, Tasks
  <2>3. new \in Locals /\ new.at = "save" /\ new.version = l.version /\ new.next = t
    BY <1>4, <2>2 DEF Locals, Places
  <2>4. local' = [local EXCEPT ![p] = new] /\ l.at = "task"
    BY <1>11, <1>6, <2>1 DEF TaskReturns, At
  <2>5. UNCHANGED <<vars, state, dispatch, invoked, completed>>
    BY <1>11 DEF TaskReturns
  <2>. HIDE DEF new
  <2>6. /\ Goes(p, {"task"}, "save") /\ local'[p] = new
        /\ EndsAtMost /\ Others(p) /\ local' \in [Runs -> Locals]
    BY <1>1, <1>3, <1>7, <2>3, <2>4, <2>5, GoEffect DEF Goes
  <2>7. Quiet
    BY <2>1, <2>3, <2>5, <2>6, QuietStep DEF Moved
  <2>. QED
    BY <1>7, <2>5, <2>6, <2>7
<1>12. ASSUME NEW kind \in {"transient", "unreachable", "fatal"},
              local' = [local EXCEPT ![p].at = "fail", ![p].kind = kind],
              UNCHANGED run
       PROVE  /\ run'[p] = run[p] /\ local'[p].at = "fail" /\ local'[p].version = l.version
              /\ EndsAtMost /\ Others(p) /\ local' \in [Runs -> Locals]
  <2>. DEFINE new == [l EXCEPT !.at = "fail", !.kind = kind]
  <2>1. new \in Locals /\ new.at = "fail" /\ new.version = l.version
    BY <1>4 DEF Locals, Places
  <2>2. local' = [local EXCEPT ![p] = new]
    BY <1>6, <1>12
  <2>. HIDE DEF new
  <2>. QED
    BY <1>1, <1>3, <1>12, <2>1, <2>2, GoEffect
<1>13. ASSUME NEW kind \in {"transient", "unreachable", "fatal"},
              local' = [local EXCEPT ![p].at = "fail", ![p].kind = kind],
              UNCHANGED run, l.at \in {"task", "save", "enqueue"},
              UNCHANGED <<state, invoked, completed>>
       PROVE  /\ Quiet /\ EndsAtMost /\ local' \in [Runs -> Locals]
  BY <1>3, <1>12, <1>13, QuietStep DEF Moved, Goes
<1>14. ASSUME NEW kind \in ErrorKinds, TaskThrows(p, kind)
       PROVE  Goal
  <2>1. /\ local' = [local EXCEPT ![p].at = "fail", ![p].kind = kind]
        /\ UNCHANGED <<vars, state, dispatch, invoked, completed>> /\ l.at = "task"
    BY <1>14 DEF TaskThrows, At
  <2>. QED
    BY <1>5, <1>7, <1>13, <2>1
<1>15. CASE CompleteState(p)
  <2>1. l.at = "save" /\ UNCHANGED <<rowVars, faults, dispatch, invoked>>
    BY <1>15 DEF CompleteState, At
  <2>2. CASE Matches(p, {"running"}) /\ l.next = Done
    <3>1. RecordCompletion(p) /\ Return(p)
      BY <1>15, <2>2 DEF CompleteState
    <3>2. /\ EndsAtMost /\ Leaves(p) /\ Others(p) /\ local' \in [Runs -> Locals]
      BY <1>1, <1>3, <3>1, ReturnEffect
    <3>3. Completes(p)
      BY <1>3, <2>1, <2>2, <3>1, <3>2 DEF Completes, At
    <3>. QED
      BY <1>8, <2>1, <3>2, <3>3
  <2>3. CASE Matches(p, {"running"}) /\ l.next # Done
    <3>. DEFINE new == [l EXCEPT !.at = "enqueue"]
    <3>1. RecordCompletion(p) /\ local' = [local EXCEPT ![p] = new] /\ UNCHANGED run
      BY <1>6, <1>15, <2>3 DEF CompleteState, Move
    <3>2. new \in Locals /\ new.at = "enqueue" /\ new.version = l.version /\ new.next = l.next
      BY <1>4 DEF Locals, Places
    <3>. HIDE DEF new
    <3>3. /\ run'[p] = run[p] /\ local'[p] = new
          /\ EndsAtMost /\ Others(p) /\ local' \in [Runs -> Locals]
      BY <1>1, <1>3, <3>1, <3>2, GoEffect
    <3>4. Completes(p)
      BY <1>3, <2>1, <2>3, <3>1, <3>2, <3>3 DEF Completes, At, Goes
    <3>. QED
      BY <1>8, <2>1, <3>3, <3>4
  <2>4. CASE ~Matches(p, {"running"})
    <3>1. /\ local' = [local EXCEPT ![p].at = "fail", ![p].kind = "fatal"]
          /\ UNCHANGED <<run, state, completed>>
      BY <1>15, <2>4 DEF CompleteState
    <3>. QED
      BY <1>8, <1>13, <2>1, <3>1
  <2>. QED
    BY <2>2, <2>3, <2>4
<1>16. l.at = "enqueue" => NextJob(p) \in Jobs /\ NextVersion(p) \in Versions
  <2>. SUFFICES ASSUME l.at = "enqueue"
                PROVE  NextJob(p) \in Jobs /\ NextVersion(p) \in Versions
    OBVIOUS
  <2>1. l.next \in Tasks
    BY <1>1, <1>3, <1>4 DEF Successors, Locals
  <2>2. l.version \in Nat /\ s.version \in Nat /\ l.version < s.version
    BY <1>1, <1>3, <1>4 DEF ClaimsHeld, Holding, StateRow, Locals
  <2>3. s.version \in Versions \cup {0}
    BY <1>1, <1>4, StateVersions
  <2>. QED
    BY <1>4, <2>1, <2>2, <2>3 DEF NextJob, NextVersion, Versions
<1>17. CASE EnqueueNext(p)
  <2>1. l.at = "enqueue" /\ UNCHANGED <<faults, holder, recovered, state, dispatch, invoked, completed>>
    BY <1>17 DEF EnqueueNext, At
  <2>2. CASE Answer(NextJob(p), NextVersion(p)) = "conflict"
    <3>1. /\ local' = [local EXCEPT ![p].at = "fail", ![p].kind = "fatal"]
          /\ UNCHANGED <<row, run>>
      BY <1>17, <2>2 DEF EnqueueNext
    <3>. QED
      BY <1>13, <2>1, <3>1 DEF BindsAtMost
  <2>3. CASE Answer(NextJob(p), NextVersion(p)) # "conflict"
    <3>1. /\ Return(p)
          /\ IF Answer(NextJob(p), NextVersion(p)) = "created"
             THEN Bind(NextJob(p), NextVersion(p)) ELSE UNCHANGED row
      BY <1>17, <2>3 DEF EnqueueNext
    <3>2. BindsAtMost
      BY <1>16, <2>1, <3>1 DEF BindsAtMost
    <3>3. /\ EndsAtMost /\ Leaves(p) /\ run'[p].pc = "complete"
          /\ Others(p) /\ local' \in [Runs -> Locals]
      BY <1>1, <1>3, <3>1, ReturnEffect
    <3>4. Quiet
      BY <1>3, <2>1, <3>3, QuietStep DEF Moved, At
    <3>. QED
      BY <2>1, <3>2, <3>3, <3>4
  <2>. QED
    BY <2>2, <2>3
<1>18. CASE FailState(p)
  <2>1. l.at = "fail" /\ UNCHANGED <<rowVars, faults, dispatch, invoked, completed>>
    BY <1>18 DEF FailState, At
  <2>2. PICK retryable : Throw(p, retryable)
    BY <1>18 DEF FailState
  <2>3. /\ EndsAtMost /\ Leaves(p) /\ run'[p].pc # "complete"
        /\ Others(p) /\ local' \in [Runs -> Locals]
    BY <1>1, <1>3, <2>2, ThrowEffect
  <2>4. CASE Matches(p, {"running"})
    <3>1. SetState(p, TaskOf(p), FailureStatus(p))
      BY <1>18, <2>4 DEF FailState
    <3>2. Fails(p)
      BY <1>3, <2>1, <2>3, <2>4, <3>1 DEF Fails, At
    <3>. QED
      BY <1>8, <2>1, <2>3, <3>2
  <2>5. CASE ~Matches(p, {"running"})
    <3>1. UNCHANGED state
      BY <1>18, <2>5 DEF FailState
    <3>2. Quiet
      BY <2>1, <2>3, <3>1, QuietStep DEF Moved
    <3>. QED
      BY <1>8, <2>1, <2>3, <3>2
  <2>. QED
    BY <2>4, <2>5
<1>19. ASSUME NEW kind \in ErrorKinds, ExecuteFault(p, kind)
       PROVE  Goal
  <2>1. faults' = faults + 1 /\ UNCHANGED <<holder, recovered, dispatch, invoked>>
    BY <1>19 DEF ExecuteFault
  <2>2. ASSUME Throw(p, QueueRetries(kind))
        PROVE  /\ EndsAtMost /\ Leaves(p) /\ run'[p].pc # "complete"
               /\ Others(p) /\ local' \in [Runs -> Locals]
    BY <1>1, <1>3, <2>2, ThrowEffect
  <2>3. CASE /\ At(p, "start")
             /\ Throw(p, QueueRetries(kind))
             /\ UNCHANGED <<row, state, completed>>
    <3>1. Quiet
      BY <2>1, <2>2, <2>3, QuietStep DEF Moved
    <3>. QED
      BY <2>1, <2>2, <2>3, <3>1 DEF BindsAtMost
  <2>4. CASE /\ At(p, "claim")
             /\ \/ Matches(p, Waiting) /\ SetState(p, TaskOf(p), "running")
                \/ UNCHANGED state
             /\ Throw(p, QueueRetries(kind))
             /\ UNCHANGED <<row, completed>>
    <3>1. Claims(p) \/ Quiet
      BY <2>1, <2>2, <2>4, QuietStep DEF Moved, Claims
    <3>. QED
      BY <2>1, <2>2, <2>4, <3>1 DEF BindsAtMost
  <2>5. CASE /\ At(p, "save")
             /\ \/ Matches(p, {"running"}) /\ RecordCompletion(p)
                \/ UNCHANGED <<state, completed>>
             /\ local' = [local EXCEPT ![p].at = "fail", ![p].kind = kind]
             /\ UNCHANGED <<row, run>>
    <3>1. /\ run'[p] = run[p] /\ local'[p].at = "fail" /\ local'[p].version = l.version
          /\ EndsAtMost /\ Others(p) /\ local' \in [Runs -> Locals]
      BY <1>5, <1>12, <2>5
    <3>2. CASE UNCHANGED <<state, completed>>
      BY <1>5, <1>13, <2>1, <2>5, <3>2 DEF BindsAtMost, At
    <3>3. CASE Matches(p, {"running"}) /\ RecordCompletion(p)
      <4>1. Completes(p)
        BY <1>3, <2>1, <2>5, <3>1, <3>3 DEF Completes, Goes, At
      <4>. QED
        BY <2>1, <2>5, <3>1, <4>1 DEF BindsAtMost
    <3>. QED
      BY <2>5, <3>2, <3>3
  <2>6. CASE /\ At(p, "enqueue")
             /\ \/ Answer(NextJob(p), NextVersion(p)) = "created" /\ Bind(NextJob(p), NextVersion(p))
                \/ UNCHANGED row
             /\ local' = [local EXCEPT ![p].at = "fail", ![p].kind = kind]
             /\ UNCHANGED <<run, state, completed>>
    <3>1. BindsAtMost
      BY <1>16, <2>6 DEF BindsAtMost, At
    <3>. QED
      BY <1>5, <1>13, <2>1, <2>6, <3>1 DEF At
  <2>7. CASE /\ At(p, "fail")
             /\ \/ Matches(p, {"running"}) /\ SetState(p, TaskOf(p), FailureStatus(p))
                \/ UNCHANGED state
             /\ Throw(p, QueueRetries(kind))
             /\ UNCHANGED <<row, completed>>
    <3>1. Fails(p) \/ Quiet
      BY <2>1, <2>2, <2>7, QuietStep DEF Moved, Fails
    <3>. QED
      BY <2>1, <2>2, <2>7, <3>1 DEF BindsAtMost
  <2>. QED
    BY <1>19, <2>3, <2>4, <2>5, <2>6, <2>7 DEF ExecuteFault
<1>. QED
  BY <1>9, <1>10, <1>11, <1>14, <1>15, <1>17, <1>18, <1>19 DEF ExecuteStep

\* So are the steps outside _execute, but for the creation of a pipeline.
LEMMA OtherShape ==
  ASSUME PipelineInv,
         \/ \E x \in Pipelines : EnqueueFirst(x) \/ DispatchCrash(x)
         \/ \E p \in Runs : QueueStep(p) \/ PipelineCrash(p)
         \/ Background
  PROVE  /\ Quiet
         /\ QueueMoves /\ TypeInv'
         /\ local' \in [Runs -> Locals]
         /\ dispatch' \in [Pipelines -> {"idle", "created", "done"}]
         /\ \A x \in Pipelines : dispatch'[x] = "idle" <=> dispatch[x] = "idle"
<1>1. TypeInv /\ PipelineTypes /\ RunsOfRows /\ Created /\ VersionsCounted
  BY DEF PipelineInv
<1>2. TypeOK /\ RunsKnown
  BY <1>1 DEF TypeInv
<1>3. /\ local \in [Runs -> Locals]
      /\ dispatch \in [Pipelines -> {"idle", "created", "done"}]
      /\ \A p \in Runs : run[p].pc # "handling" => local[p] = NoLocal
  BY <1>1 DEF PipelineTypes
<1>4. ASSUME UNCHANGED <<run, state, local, invoked, completed>>
      PROVE  Quiet
  BY <1>4 DEF Quiet, Moved, Kept
<1>5. ASSUME NEW x \in Pipelines, EnqueueFirst(x)
      PROVE  /\ Quiet /\ QueueMoves /\ TypeInv' /\ local' = local
             /\ dispatch' = [dispatch EXCEPT ![x] = "done"] /\ dispatch[x] # "idle"
  <2>1. /\ dispatch[x] = "created" /\ dispatch' = [dispatch EXCEPT ![x] = "done"]
        /\ Enqueue(<<x, 1>>, state[x].version)
        /\ UNCHANGED <<state, local, invoked, completed>>
    BY <1>5 DEF EnqueueFirst
  <2>2. <<x, 1>> \in Jobs /\ state[x].version \in Versions
    BY <1>1, <2>1, StateVersions DEF Created, Tasks
  <2>3. /\ BindsAtMost /\ UNCHANGED <<run, faults, holder, recovered>>
    BY <2>1, <2>2 DEF Enqueue, BindsAtMost
  <2>. QED
    BY <1>1, <1>4, <2>1, <2>3, HandlerStepsMove DEF EndsAtMost
<1>6. ASSUME NEW x \in Pipelines, DispatchCrash(x)
      PROVE  /\ Quiet /\ QueueMoves /\ TypeInv' /\ local' = local
             /\ dispatch' = [dispatch EXCEPT ![x] = "done"] /\ dispatch[x] # "idle"
  BY <1>1, <1>4, <1>6, HandlerStepsMove DEF DispatchCrash, BindsAtMost, EndsAtMost
<1>7. ASSUME NEW p \in Runs, QueueStep(p)
      PROVE  Quiet /\ QueueMoves /\ TypeInv' /\ UNCHANGED <<local, dispatch>>
  <2>1. UNCHANGED pipeVars
    BY <1>7 DEF QueueStep
  <2>2. QueueMoves /\ TypeInv'
    BY <1>1, <1>7, QueueStepsMove DEF QueueStep
  <2>3. \A q \in Runs : /\ run'[q].pc = "complete" => run[q].pc = "complete"
                        /\ run[q].pc = "handling" => run'[q].pc = "handling"
    <3>1. CASE \E j \in Jobs : Claim(p, j)
      BY <1>1, <3>1, ClaimEffect
    <3>2. CASE Settle(p)
      BY <1>2, <3>2, EndRun DEF Settle, Idle, Settling
    <3>3. CASE LockConflict(p)
      <4>1. run[p].pc \in Settling /\ (Goto(p, "deadLetter") \/ End(p))
        BY <3>3 DEF LockConflict
      <4>. QED
        BY <1>2, <4>1, EndRun, GotoRun DEF Idle, Settling
    <3>4. ASSUME NEW retryable \in BOOLEAN, StoreFault(p, retryable)
          PROVE  \A q \in Runs : /\ run'[q].pc = "complete" => run[q].pc = "complete"
                                 /\ run[q].pc = "handling" => run'[q].pc = "handling"
      <4>1. run[p].pc \in Settling /\ (Goto(p, AfterError(p, retryable)) \/ End(p))
        BY <3>4 DEF StoreFault
      <4>. QED
        BY <1>2, <4>1, EndRun, GotoRun, AfterErrorRange DEF Idle, Settling
    <3>5. CASE NextRequest(p)
      <4>1. run[p].pc = "handling" /\ run' = [run EXCEPT ![p] = Requested(run[p])]
        BY <3>5 DEF NextRequest
      <4>. QED
        BY <1>2, <4>1, RequestedRun DEF TypeOK
    <3>. QED
      BY <1>7, <3>1, <3>2, <3>3, <3>4, <3>5 DEF QueueStep
  <2>4. \A q \in Runs : Kept(q)
    <3>1. local' = local
      BY <2>1 DEF pipeVars
    <3>2. \A q \in Runs : run[q].pc = "handling" \/ local[q] = NoLocal
      BY <1>3
    <3>. QED
      BY <2>3, <3>1, <3>2 DEF Kept
  <2>. QED
    BY <2>1, <2>2, <2>4 DEF Quiet, Moved, pipeVars
<1>8. ASSUME NEW p \in Runs, PipelineCrash(p)
      PROVE  /\ Quiet /\ QueueMoves /\ TypeInv'
             /\ local' \in [Runs -> Locals] /\ UNCHANGED dispatch
  <2>1. Crash(p) /\ Leave(p) /\ UNCHANGED <<state, dispatch, invoked, completed>>
    BY <1>8 DEF PipelineCrash
  <2>2. QueueMoves /\ TypeInv'
    BY <1>1, <2>1, QueueStepsMove
  <2>3. run'[p].pc = "idle" /\ run[p].pc # "idle" /\ \A q \in Runs \ {p} : run'[q] = run[q]
    BY <1>2, <2>1, EndRun DEF Crash, Idle
  <2>4. NoLocal \in Locals
    BY DEF NoLocal, Locals, Places
  <2>5. /\ local' \in [Runs -> Locals]
        /\ local'[p] = NoLocal /\ \A q \in Runs \ {p} : local'[q] = local[q]
    BY <1>3, <2>1, <2>4 DEF Leave
  <2>. QED
    BY <2>1, <2>2, <2>3, <2>5, QuietStep DEF Moved, Leaves, Others
<1>9. CASE Background
  <2>1. (RecoverStale \/ Tick) /\ UNCHANGED pipeVars
    BY <1>9 DEF Background
  <2>2. \A q \in Runs : run'[q].pc = run[q].pc
    BY <1>1, <2>1, TickEffect DEF RecoverStale
  <2>3. QueueMoves /\ TypeInv'
    <3>1. CASE Runs = {}
      <4>1. TypeInv'
        BY <1>1, <2>1, TypeStep DEF Next
      <4>2. RowsMove
        BY <1>1, <1>2, <2>1, RecoverEffect, TickEffect DEF RowsMove, TypeOK, Row
      <4>. QED
        BY <3>1, <4>1, <4>2 DEF QueueMoves, RunsMove
    <3>2. CASE Runs # {}
      BY <1>1, <2>1, <3>2, QueueStepsMove
    <3>. QED
      BY <3>1, <3>2
  <2>4. \A q \in Runs : Kept(q)
    BY <2>1, <2>2 DEF Kept, pipeVars
  <2>. QED
    BY <1>3, <2>1, <2>3, <2>4 DEF Quiet, Moved, pipeVars
<1>. QED
  BY <1>3, <1>5, <1>6, <1>7, <1>8, <1>9

-----------------------------------------------------------------------------
(* Each part of the invariant survives each shape of a step *)

\* Local variables belong to a run in its handler, and versions are set only
\* where the state row is read.
LEMMA LocalsKept ==
  ASSUME PipelineInv, TypeInv', \E p \in Runs : Shape(p)
  PROVE  /\ \A p \in Runs : run'[p].pc # "handling" => local'[p] = NoLocal
         /\ \A p \in Runs : local'[p].at = "start" => local'[p].version = 0
         /\ \A p \in Runs : local'[p].at = "claim" => local'[p].version \in Versions
<1>1. PipelineTypes
  BY DEF PipelineInv
<1>2. NoLocal.at = "start" /\ NoLocal.version = 0
  BY DEF NoLocal
<1>3. ASSUME NEW q \in Runs, Moved(q)
      PROVE  /\ run'[q].pc # "handling" => local'[q] = NoLocal
             /\ local'[q].at = "start" => local'[q].version = 0
             /\ local'[q].at = "claim" => local'[q].version \in Versions
  BY <1>1, <1>2, <1>3 DEF Moved, Kept, Leaves, Goes, PipelineTypes
<1>4. ASSUME NEW p \in Runs, NEW q \in Runs, Claims(p) \/ Completes(p) \/ Fails(p)
      PROVE  /\ run'[q].pc # "handling" => local'[q] = NoLocal
             /\ local'[q].at = "start" => local'[q].version = 0
             /\ local'[q].at = "claim" => local'[q].version \in Versions
  BY <1>1, <1>2, <1>4 DEF Claims, Completes, Fails, Others, Leaves, Goes, PipelineTypes, At
<1>. QED
  BY <1>3, <1>4 DEF Shape, Quiet

\* The compare-and-set is taken only at the version that the run knows.
LEMMA Matched ==
  ASSUME NEW p, NEW statuses, Matches(p, statuses)
  PROVE  /\ state[PipelineOf(p)].task = TaskOf(p)
         /\ state[PipelineOf(p)].version = local[p].version
         /\ state[PipelineOf(p)].status \in statuses
BY DEF Matches

\* A completion leaves the row at the successor, or succeeded.
LEMMA CompletionEffect ==
  ASSUME TypeInv, PipelineTypes, Successors, NEW p \in Runs, At(p, "save"), RecordCompletion(p)
  PROVE  LET x == PipelineOf(p)
         IN /\ state' \in [Pipelines -> StateRow]
            /\ completed' \in [Pipelines -> Seq(Tasks)]
            /\ state'[x].version = state[x].version + 1
            /\ \/ state'[x].status = "succeeded" /\ state'[x].task = TaskOf(p) /\ local[p].next = Done
               \/ /\ state'[x].status = "queued" /\ state'[x].task = TaskOf(p) + 1
                  /\ TaskOf(p) + 1 \in Tasks /\ local[p].next # Done
            /\ completed'[x] = Append(completed[x], TaskOf(p))
            /\ \A y \in Pipelines \ {x} : state'[y] = state[y] /\ completed'[y] = completed[y]
<1>. DEFINE x == PipelineOf(p)
<1>1. /\ x \in Pipelines /\ TaskOf(p) \in Tasks /\ run[p].pc # "idle"
      /\ local[p] \in Locals
  BY Subject DEF At
<1>2. local[p].next \in NextTasks(TaskOf(p))
  BY DEF Successors, At
<1>3. CASE local[p].next = Done
  <2>1. SetState(p, TaskOf(p), "succeeded")
    BY <1>3 DEF RecordCompletion
  <2>2. "succeeded" \in Status
    BY DEF Status, Terminal
  <2>3. /\ state' \in [Pipelines -> StateRow]
        /\ state'[x].task = TaskOf(p) /\ state'[x].status = "succeeded"
        /\ state'[x].version = state[x].version + 1
        /\ \A y \in Pipelines \ {x} : state'[y] = state[y]
    BY <1>1, <2>1, <2>2, SetStateEffect
  <2>4. completed' = [completed EXCEPT ![x] = Append(completed[x], TaskOf(p))]
    BY DEF RecordCompletion
  <2>5. /\ completed' \in [Pipelines -> Seq(Tasks)]
        /\ completed'[x] = Append(completed[x], TaskOf(p))
        /\ \A y \in Pipelines \ {x} : completed'[y] = completed[y]
    BY <1>1, <2>4 DEF PipelineTypes
  <2>. QED
    BY <1>3, <2>3, <2>5
<1>4. CASE local[p].next # Done
  <2>1. SetState(p, local[p].next, "queued")
    BY <1>4 DEF RecordCompletion
  <2>2. "queued" \in Status /\ local[p].next = TaskOf(p) + 1 /\ local[p].next \in Tasks
    BY <1>1, <1>2, <1>4 DEF Status, Waiting, NextTasks, Tasks, Done
  <2>3. /\ state' \in [Pipelines -> StateRow]
        /\ state'[x].task = local[p].next /\ state'[x].status = "queued"
        /\ state'[x].version = state[x].version + 1
        /\ \A y \in Pipelines \ {x} : state'[y] = state[y]
    BY <1>1, <2>1, <2>2, SetStateEffect
  <2>4. completed' = [completed EXCEPT ![x] = Append(completed[x], TaskOf(p))]
    BY DEF RecordCompletion
  <2>5. /\ completed' \in [Pipelines -> Seq(Tasks)]
        /\ completed'[x] = Append(completed[x], TaskOf(p))
        /\ \A y \in Pipelines \ {x} : completed'[y] = completed[y]
    BY <1>1, <2>4 DEF PipelineTypes
  <2>. QED
    BY <1>4, <2>2, <2>3, <2>5
<1>. QED
  BY <1>3, <1>4

\* A claim and a failure keep the task.
LEMMA ClaimStateEffect ==
  ASSUME TypeInv, PipelineTypes, NEW p \in Runs, run[p].pc = "handling",
         NEW status \in Status, SetState(p, TaskOf(p), status)
  PROVE  LET x == PipelineOf(p)
         IN /\ state' \in [Pipelines -> StateRow]
            /\ state'[x].version = state[x].version + 1
            /\ state'[x].task = TaskOf(p) /\ state'[x].status = status
            /\ \A y \in Pipelines \ {x} : state'[y] = state[y]
BY Subject, SetStateEffect

\* The pipeline variables stay well formed.
LEMMA TypesKept ==
  ASSUME PipelineInv, TypeInv', NEW p \in Runs, Shape(p),
         local' \in [Runs -> Locals],
         dispatch' \in [Pipelines -> {"idle", "created", "done"}]
  PROVE  PipelineTypes'
<1>1. TypeInv /\ PipelineTypes /\ Successors
  BY DEF PipelineInv
<1>2. CASE Quiet
  BY <1>1, <1>2, LocalsKept DEF Quiet, PipelineTypes
<1>3. CASE Claims(p)
  <2>1. "running" \in Status /\ run[p].pc = "handling"
    BY <1>3 DEF Status, Claims, At
  <2>2. state' \in [Pipelines -> StateRow]
    BY <1>1, <1>3, <2>1, ClaimStateEffect DEF Claims
  <2>3. run[p].job \in Jobs
    BY <1>1, <2>1, Subject
  <2>4. invoked' \in [Jobs -> Nat] /\ completed' = completed
    BY <1>1, <1>3, <2>3 DEF Claims, PipelineTypes
  <2>. QED
    BY <1>1, <2>2, <2>4, LocalsKept DEF PipelineTypes
<1>4. CASE Completes(p)
  <2>1. state' \in [Pipelines -> StateRow] /\ completed' \in [Pipelines -> Seq(Tasks)]
    BY <1>1, <1>4, CompletionEffect DEF Completes
  <2>. QED
    BY <1>1, <1>4, <2>1, LocalsKept DEF PipelineTypes, Completes
<1>5. CASE Fails(p)
  <2>1. FailureStatus(p) \in Status /\ run[p].pc = "handling"
    BY <1>5 DEF FailureStatus, Status, Waiting, Terminal, Fails, At
  <2>2. state' \in [Pipelines -> StateRow]
    BY <1>1, <1>5, <2>1, ClaimStateEffect DEF Fails
  <2>. QED
    BY <1>1, <1>5, <2>2, LocalsKept DEF PipelineTypes, Fails
<1>. QED
  BY <1>2, <1>3, <1>4, <1>5 DEF Shape

\* A run that holds the row after a step without writes held it before.
LEMMA QuietHolders ==
  ASSUME PipelineInv, QueueMoves, Quiet, NEW q \in Runs, Holding(q)'
  PROVE  /\ Holding(q)
         /\ run'[q].job = run[q].job
         /\ local'[q].version = local[q].version
         /\ \/ local'[q] = local[q]
            \/ local'[q].at = "fail"
            \/ local[q].at = "task" /\ local'[q].at = "save" /\ local'[q].next \in NextTasks(TaskOf(q))
<1>1. \A p \in Runs : run[p].pc # "handling" => local[p] = NoLocal
  BY DEF PipelineInv, PipelineTypes
<1>2. NoLocal.at = "start"
  BY DEF NoLocal
<1>3. run'[q].pc = "handling" /\ local'[q].at \in {"task", "save", "enqueue", "fail"} /\ Moved(q)
  BY DEF Holding, Quiet
<1>4. RunKept(q) \/ RunClaims(q)
  BY <1>3 DEF QueueMoves, RunsMove
<1>5. CASE Kept(q)
  BY <1>1, <1>2, <1>3, <1>4, <1>5 DEF Kept, Holding, RunKept, RunClaims
<1>6. CASE ~Kept(q)
  BY <1>2, <1>3, <1>6 DEF Moved, Leaves, Goes, Holding, Settling
<1>. QED
  BY <1>5, <1>6

LEMMA HeldByQuiet ==
  ASSUME PipelineInv, QueueMoves, Quiet
  PROVE  ClaimsHeld'
<1>1. ClaimsHeld /\ state' = state
  BY DEF PipelineInv, Quiet
<1>2. \A q \in Runs : Holding(q)' =>
        /\ Holding(q)
        /\ PipelineOf(q)' = PipelineOf(q) /\ TaskOf(q)' = TaskOf(q)
        /\ local'[q].version = local[q].version
        /\ \/ local'[q].at = local[q].at
           \/ local'[q].at = "fail"
           \/ local[q].at = "task" /\ local'[q].at = "save"
  BY QuietHolders DEF PipelineOf, TaskOf
<1>3. ASSUME NEW q \in Runs, Holding(q)'
      PROVE  LET s == state'[PipelineOf(q)']
             IN /\ local'[q].version \in 1..s.version
                /\ local'[q].at \in {"task", "save"} => local'[q].version = s.version
                /\ local'[q].at = "enqueue" => local'[q].version < s.version
                /\ local'[q].version = s.version => s.status = "running" /\ s.task = TaskOf(q)'
  BY <1>1, <1>2, <1>3 DEF ClaimsHeld
<1>4. ASSUME NEW p \in Runs, NEW q \in Runs, Holding(p)', Holding(q)',
             PipelineOf(p)' = PipelineOf(q)', local'[p].version = local'[q].version
      PROVE  p = q
  BY <1>1, <1>2, <1>4 DEF ClaimsHeld
<1>. QED
  BY <1>3, <1>4 DEF ClaimsHeld

\* A claim finds no holder at the version it starts from.
LEMMA HeldByClaims ==
  ASSUME PipelineInv, TypeInv', PipelineTypes', NEW p \in Runs, Claims(p)
  PROVE  ClaimsHeld'
<1>. DEFINE x == PipelineOf(p)
<1>1. TypeInv /\ PipelineTypes /\ ClaimsHeld
  BY DEF PipelineInv
<1>2. /\ run[p].pc = "handling" /\ local[p].at = "claim"
      /\ Others(p)
      /\ "running" \in Status
  BY DEF Claims, At, Status
<1>3. /\ state'[x].version = state[x].version + 1
      /\ state'[x].task = TaskOf(p) /\ state'[x].status = "running"
      /\ \A y \in Pipelines \ {x} : state'[y] = state[y]
  BY <1>1, <1>2, ClaimStateEffect DEF Claims
<1>4. /\ x \in Pipelines /\ state[x].version \in Nat /\ state[x].status \in Waiting
      /\ local[p].version = state[x].version
  BY <1>1, <1>2, Subject, Matched DEF Claims, StateRow
<1>5. ASSUME NEW q \in Runs, q # p, Holding(q)'
      PROVE  /\ Holding(q) /\ local'[q] = local[q]
             /\ PipelineOf(q)' = PipelineOf(q) /\ TaskOf(q)' = TaskOf(q)
             /\ PipelineOf(q) \in Pipelines
             /\ PipelineOf(q) = x => local[q].version \in 1..state[x].version /\ local[q].version # state[x].version
                                    /\ local[q].at \notin {"task", "save"}
  <2>1. /\ Holding(q) /\ local'[q] = local[q] /\ run[q].pc = "handling"
        /\ PipelineOf(q)' = PipelineOf(q) /\ TaskOf(q)' = TaskOf(q)
    BY <1>2, <1>5 DEF Others, Holding, PipelineOf, TaskOf
  <2>2. PipelineOf(q) \in Pipelines
    BY <1>1, <2>1, Subject
  <2>. QED
    BY <1>1, <1>4, <2>1, <2>2 DEF ClaimsHeld, Waiting
<1>6. Holding(p)' => /\ local'[p].version = state'[x].version /\ local'[p].at = "task"
                     /\ PipelineOf(p)' = x /\ TaskOf(p)' = TaskOf(p)
  BY <1>3, <1>4 DEF Claims, Goes, Leaves, Holding, PipelineOf, TaskOf, Settling
<1>7. ASSUME NEW q \in Runs, Holding(q)'
      PROVE  LET s == state'[PipelineOf(q)']
             IN /\ local'[q].version \in 1..s.version
                /\ local'[q].at \in {"task", "save"} => local'[q].version = s.version
                /\ local'[q].at = "enqueue" => local'[q].version < s.version
                /\ local'[q].version = s.version => s.status = "running" /\ s.task = TaskOf(q)'
  <2>1. CASE q = p
    BY <1>3, <1>4, <1>6, <1>7, <2>1
  <2>2. CASE q # p /\ PipelineOf(q) = x
    BY <1>3, <1>4, <1>5, <1>7, <2>2
  <2>3. CASE q # p /\ PipelineOf(q) # x
    BY <1>1, <1>3, <1>5, <1>7, <2>3 DEF ClaimsHeld
  <2>. QED
    BY <2>1, <2>2, <2>3
<1>8. ASSUME NEW q \in Runs, NEW r \in Runs, Holding(q)', Holding(r)',
             PipelineOf(q)' = PipelineOf(r)', local'[q].version = local'[r].version
      PROVE  q = r
  <2>1. CASE q # p /\ r # p
    BY <1>1, <1>5, <1>8, <2>1 DEF ClaimsHeld
  <2>2. ASSUME NEW k \in Runs, k # p, Holding(k)', Holding(p)', PipelineOf(k)' = PipelineOf(p)'
        PROVE  local'[k].version # local'[p].version
    BY <1>3, <1>4, <1>5, <1>6, <2>2
  <2>. QED
    BY <1>8, <2>1, <2>2
<1>. QED
  BY <1>7, <1>8 DEF ClaimsHeld

\* A holder that writes moves the row past the versions of all holders.
LEMMA HeldByWriter ==
  ASSUME PipelineInv, TypeInv', NEW p \in Runs, Completes(p) \/ Fails(p)
  PROVE  /\ ClaimsHeld'
         /\ \A q \in Runs : Holding(q)' => /\ Holding(q) /\ run'[q].job = run[q].job
                                           /\ local'[q].version = local[q].version
                                           /\ q = p \/ local'[q] = local[q]
                                           /\ q = p => local'[q].at \in {"enqueue", "fail"}
<1>. DEFINE x == PipelineOf(p)
<1>1. TypeInv /\ PipelineTypes /\ ClaimsHeld /\ Successors
  BY DEF PipelineInv
<1>2. /\ run[p].pc = "handling" /\ Holding(p) /\ Others(p) /\ Matches(p, {"running"})
  BY DEF Completes, Fails, At, Holding
<1>3. /\ state'[x].version = state[x].version + 1
      /\ \A y \in Pipelines \ {x} : state'[y] = state[y]
  <2>1. CASE Completes(p)
    BY <1>1, <2>1, CompletionEffect DEF Completes
  <2>2. CASE Fails(p)
    <3>1. FailureStatus(p) \in Status
      BY DEF FailureStatus, Status, Waiting, Terminal
    <3>. QED
      BY <1>1, <1>2, <2>2, <3>1, ClaimStateEffect DEF Fails
  <2>. QED
    BY <2>1, <2>2
<1>4. /\ x \in Pipelines /\ state[x].version \in Nat
      /\ local[p].version = state[x].version
  BY <1>1, <1>2, Subject, Matched DEF StateRow
<1>5. ASSUME NEW q \in Runs, Holding(q)'
      PROVE  /\ Holding(q) /\ run'[q].job = run[q].job
             /\ local'[q].version = local[q].version
             /\ q = p \/ local'[q] = local[q]
             /\ q = p => local'[q].at \in {"enqueue", "fail"}
             /\ PipelineOf(q)' = PipelineOf(q) /\ TaskOf(q)' = TaskOf(q)
             /\ PipelineOf(q) \in Pipelines
  <2>1. CASE q # p
    <3>1. /\ Holding(q) /\ local'[q] = local[q] /\ run[q].pc = "handling" /\ run'[q] = run[q]
          /\ PipelineOf(q)' = PipelineOf(q) /\ TaskOf(q)' = TaskOf(q)
      BY <1>2, <1>5, <2>1 DEF Others, Holding, PipelineOf, TaskOf
    <3>. QED
      BY <1>1, <2>1, <3>1, Subject
  <2>2. CASE q = p
    <3>1. ~Leaves(p)
      BY <1>5, <2>2 DEF Leaves, Holding, Settling
    <3>2. /\ local'[p].version = local[p].version /\ run'[p] = run[p]
          /\ local'[p].at \in {"enqueue", "fail"}
      BY <3>1 DEF Completes, Fails, Goes
    <3>. QED
      BY <1>2, <1>4, <2>2, <3>2 DEF PipelineOf, TaskOf
  <2>. QED
    BY <2>1, <2>2
<1>6. ASSUME NEW q \in Runs, Holding(q)', PipelineOf(q) = x
      PROVE  local[q].version \in 1..state[x].version /\ (q # p => local[q].at \notin {"task", "save"})
  BY <1>1, <1>2, <1>4, <1>5, <1>6 DEF ClaimsHeld
<1>7. ASSUME NEW q \in Runs, Holding(q)'
      PROVE  LET s == state'[PipelineOf(q)']
             IN /\ local'[q].version \in 1..s.version
                /\ local'[q].at \in {"task", "save"} => local'[q].version = s.version
                /\ local'[q].at = "enqueue" => local'[q].version < s.version
                /\ local'[q].version = s.version => s.status = "running" /\ s.task = TaskOf(q)'
  <2>1. CASE PipelineOf(q) = x
    BY <1>3, <1>4, <1>5, <1>6, <1>7, <2>1
  <2>2. CASE PipelineOf(q) # x
    BY <1>1, <1>3, <1>5, <1>7, <2>2 DEF ClaimsHeld
  <2>. QED
    BY <2>1, <2>2
<1>8. ASSUME NEW q \in Runs, NEW r \in Runs, Holding(q)', Holding(r)',
             PipelineOf(q)' = PipelineOf(r)', local'[q].version = local'[r].version
      PROVE  q = r
  BY <1>1, <1>5, <1>8 DEF ClaimsHeld
<1>. QED
  BY <1>5, <1>7, <1>8 DEF ClaimsHeld

\* What is recorded stays recorded, and a completion records its task.
NowRecorded(x, t) == \E i \in DOMAIN completed'[x] : completed'[x][i] = t

LEMMA RecordsKept ==
  ASSUME PipelineInv, NEW p \in Runs, Shape(p)
  PROVE  /\ \A x \in Pipelines, t \in Tasks : Recorded(x, t) => NowRecorded(x, t)
         /\ Completes(p) => NowRecorded(PipelineOf(p), TaskOf(p))
<1>1. TypeInv /\ PipelineTypes /\ Successors
  BY DEF PipelineInv
<1>2. CASE completed' = completed
  <2>1. ~Completes(p)
    <3>1. ASSUME Completes(p)
          PROVE  FALSE
      <4>1. completed[PipelineOf(p)] \in Seq(Tasks)
        BY <1>1, <3>1, Subject DEF Completes, At, PipelineTypes
      <4>2. completed'[PipelineOf(p)] = Append(completed[PipelineOf(p)], TaskOf(p))
        BY <1>1, <3>1, CompletionEffect DEF Completes
      <4>. QED
        BY <1>2, <4>1, <4>2
    <3>. QED
      BY <3>1
  <2>. QED
    BY <1>2, <2>1 DEF Recorded, NowRecorded
<1>3. CASE Completes(p)
  <2>. DEFINE x == PipelineOf(p)
              t == TaskOf(p)
  <2>1. x \in Pipelines /\ t \in Tasks /\ completed[x] \in Seq(Tasks)
    BY <1>1, <1>3, Subject DEF Completes, At, PipelineTypes
  <2>2. /\ completed'[x] = Append(completed[x], t)
        /\ \A y \in Pipelines \ {x} : completed'[y] = completed[y]
    BY <1>1, <1>3, CompletionEffect DEF Completes
  <2>. HIDE DEF x, t
  <2>3. /\ DOMAIN completed'[x] = 1..(Len(completed[x]) + 1)
        /\ DOMAIN completed[x] = 1..Len(completed[x])
        /\ completed'[x][Len(completed[x]) + 1] = t
        /\ \A i \in 1..Len(completed[x]) : completed'[x][i] = completed[x][i]
        /\ Len(completed[x]) \in Nat
    BY <2>1, <2>2
  <2>4. NowRecorded(x, t)
    <3>1. Len(completed[x]) + 1 \in DOMAIN completed'[x]
      BY <2>3
    <3>. QED
      BY <2>3, <3>1 DEF NowRecorded
  <2>5. ASSUME NEW u \in Tasks, Recorded(x, u)
        PROVE  NowRecorded(x, u)
    <3>1. PICK i \in DOMAIN completed[x] : completed[x][i] = u
      BY <2>5 DEF Recorded
    <3>2. i \in DOMAIN completed'[x] /\ completed'[x][i] = u
      BY <2>3, <3>1
    <3>. QED
      BY <3>2 DEF NowRecorded
  <2>. QED
    BY <2>2, <2>4, <2>5 DEF Recorded, NowRecorded, x, t
<1>. QED
  BY <1>2, <1>3 DEF Shape, Quiet, Claims, Fails

LEMMA SuccessorsKept ==
  ASSUME PipelineInv, TypeInv', QueueMoves, NEW p \in Runs, Shape(p)
  PROVE  Successors'
<1>1. TypeInv /\ PipelineTypes /\ Successors
  BY DEF PipelineInv
<1>. DEFINE Fine(q) ==
              /\ run'[q].pc = "handling" /\ local'[q].at \in {"save", "enqueue"} =>
                   local'[q].next \in NextTasks(TaskOf(q)')
              /\ run'[q].pc = "handling" /\ local'[q].at = "enqueue" => local'[q].next # Done
              /\ run'[q].pc = "complete" \/ (run'[q].pc = "handling" /\ local'[q].at = "enqueue")
                   => NowRecorded(PipelineOf(q)', TaskOf(q)')
<1>2. SUFFICES ASSUME NEW q \in Runs
               PROVE  Fine(q)
  BY DEF Successors, At, Recorded, NowRecorded, NextTasks
<1>3. run[q].pc # "idle" => PipelineOf(q) \in Pipelines /\ TaskOf(q) \in Tasks
  BY <1>1, Subject
<1>4. run'[q].job = run[q].job => PipelineOf(q)' = PipelineOf(q) /\ TaskOf(q)' = TaskOf(q)
  BY DEF PipelineOf, TaskOf
<1>5. \A x \in Pipelines, t \in Tasks : Recorded(x, t) => NowRecorded(x, t)
  BY RecordsKept
<1>6. CASE Quiet
  <2>1. /\ run'[q].pc = "handling" /\ local'[q].at \in {"save", "enqueue"} =>
             local'[q].next \in NextTasks(TaskOf(q)')
        /\ run'[q].pc = "handling" /\ local'[q].at = "enqueue" =>
             local'[q].next # Done /\ NowRecorded(PipelineOf(q)', TaskOf(q)')
    <3>. SUFFICES ASSUME run'[q].pc = "handling", local'[q].at \in {"save", "enqueue"}
                  PROVE  /\ local'[q].next \in NextTasks(TaskOf(q)')
                         /\ local'[q].at = "enqueue" =>
                              local'[q].next # Done /\ NowRecorded(PipelineOf(q)', TaskOf(q)')
      OBVIOUS
    <3>1. Holding(q)'
      BY DEF Holding
    <3>2. /\ Holding(q) /\ run'[q].job = run[q].job
          /\ \/ local'[q] = local[q]
             \/ local[q].at = "task" /\ local'[q].at = "save" /\ local'[q].next \in NextTasks(TaskOf(q))
      BY <1>6, <3>1, QuietHolders
    <3>3. TaskOf(q)' = TaskOf(q) /\ PipelineOf(q)' = PipelineOf(q) /\ run[q].pc = "handling"
      BY <1>4, <3>2 DEF Holding
    <3>. QED
      BY <1>1, <1>3, <1>5, <3>2, <3>3 DEF Successors, At
  <2>2. ASSUME run'[q].pc = "complete"
        PROVE  NowRecorded(PipelineOf(q)', TaskOf(q)')
    <3>1. RunKept(q)
      BY <2>2 DEF QueueMoves, RunsMove, RunClaims
    <3>2. run[q].pc = "complete" \/ At(q, "enqueue")
      BY <1>6, <2>2 DEF Quiet, Moved, Kept, Goes
    <3>. QED
      BY <1>1, <1>3, <1>4, <1>5, <3>1, <3>2 DEF RunKept, Successors
  <2>. QED
    BY <2>1, <2>2
<1>7. CASE q # p /\ ~Quiet
  <2>1. run'[q] = run[q] /\ local'[q] = local[q]
    BY <1>7 DEF Shape, Claims, Completes, Fails, Others
  <2>. QED
    BY <1>1, <1>3, <1>4, <1>5, <2>1 DEF Successors, At
<1>8. CASE q = p /\ Claims(p)
  BY <1>8 DEF Claims, Goes, Leaves, NoLocal, Settling
<1>9. CASE q = p /\ Fails(p)
  BY <1>9 DEF Fails, Leaves, NoLocal, Settling
<1>10. CASE q = p /\ Completes(p)
  <2>1. NowRecorded(PipelineOf(p), TaskOf(p)) /\ run[p].pc = "handling"
    BY <1>10, RecordsKept DEF Completes, At
  <2>2. CASE Leaves(p)
    <3>1. run'[p].pc = "complete" => RunKept(p)
      BY DEF QueueMoves, RunsMove, RunClaims
    <3>. QED
      BY <1>4, <1>10, <2>1, <2>2, <3>1 DEF Leaves, RunKept, NoLocal
  <2>3. CASE ~Leaves(p)
    BY <1>1, <1>4, <1>10, <2>1, <2>3 DEF Completes, Goes, At, Successors
  <2>. QED
    BY <2>2, <2>3
<1>. QED
  BY <1>6, <1>7, <1>8, <1>9, <1>10 DEF Shape

\* The chain is recorded in order, and only of pipelines that were created.
LEMMA OrderKept ==
  ASSUME PipelineInv, TypeInv', NEW p \in Runs, Shape(p),
         \A x \in Pipelines : dispatch'[x] = "idle" <=> dispatch[x] = "idle"
  PROVE  Created' /\ CompletedInOrder'
<1>1. TypeInv /\ PipelineTypes /\ Successors /\ Created /\ CompletedInOrder
  BY DEF PipelineInv
<1>. DEFINE x == PipelineOf(p)
<1>2. CASE Quiet
  BY <1>1, <1>2 DEF Quiet, Created, CompletedInOrder
<1>3. ASSUME NEW status \in Waiting \cup {"running", "dead_letter"},
             run[p].pc = "handling", completed' = completed,
             SetState(p, TaskOf(p), status),
             state[x].task = TaskOf(p), state[x].status \in Waiting \cup {"running"}
      PROVE  Created' /\ CompletedInOrder'
  <2>1. status \in Status /\ x \in Pipelines
    BY <1>1, <1>3, Subject DEF Status, Waiting, Terminal
  <2>2. /\ state'[x].task = state[x].task /\ state'[x].status = status
        /\ \A y \in Pipelines \ {x} : state'[y] = state[y]
    BY <1>1, <1>3, <2>1, ClaimStateEffect
  <2>3. dispatch[x] # "idle" /\ state[x].task = Len(completed[x]) + 1
    BY <1>1, <1>3, <2>1 DEF Created, NoState, CompletedInOrder, Waiting
  <2>4. Created'
    BY <1>1, <1>3, <2>1, <2>2, <2>3 DEF Created, Waiting
  <2>5. CompletedInOrder'
    BY <1>1, <1>3, <2>1, <2>2, <2>3 DEF CompletedInOrder
  <2>. QED
    BY <2>4, <2>5
<1>4. CASE Claims(p)
  <2>1. /\ run[p].pc = "handling" /\ completed' = completed /\ SetState(p, TaskOf(p), "running")
        /\ state[x].task = TaskOf(p) /\ state[x].status \in Waiting
    BY <1>4, Matched DEF Claims, At
  <2>. QED
    BY <1>3, <2>1
<1>5. CASE Fails(p)
  <2>1. /\ run[p].pc = "handling" /\ completed' = completed /\ SetState(p, TaskOf(p), FailureStatus(p))
        /\ state[x].task = TaskOf(p) /\ state[x].status \in {"running"}
    BY <1>5, Matched DEF Fails, At
  <2>2. FailureStatus(p) \in Waiting \cup {"dead_letter"}
    BY DEF FailureStatus, Waiting
  <2>. QED
    BY <1>3, <2>1, <2>2
<1>6. CASE Completes(p)
  <2>1. /\ state[x].task = TaskOf(p) /\ state[x].status \in {"running"} /\ run[p].pc = "handling"
    BY <1>6, Matched DEF Completes, At
  <2>2. x \in Pipelines /\ TaskOf(p) \in Tasks /\ completed[x] \in Seq(Tasks)
    BY <1>1, <2>1, Subject DEF PipelineTypes
  <2>3. /\ \/ state'[x].status = "succeeded"
           \/ state'[x].status = "queued" /\ state'[x].task = TaskOf(p) + 1
        /\ completed'[x] = Append(completed[x], TaskOf(p))
        /\ \A y \in Pipelines \ {x} : state'[y] = state[y] /\ completed'[y] = completed[y]
    BY <1>1, <1>6, CompletionEffect DEF Completes
  <2>4. dispatch[x] # "idle" /\ TaskOf(p) = Len(completed[x]) + 1
    BY <1>1, <2>1, <2>2 DEF Created, NoState, CompletedInOrder
  <2>. HIDE DEF x
  <2>5. /\ Len(completed'[x]) = Len(completed[x]) + 1 /\ Len(completed[x]) \in Nat
        /\ DOMAIN completed[x] = 1..Len(completed[x])
        /\ DOMAIN completed'[x] = 1..(Len(completed[x]) + 1)
        /\ completed'[x][Len(completed[x]) + 1] = TaskOf(p)
        /\ \A i \in 1..Len(completed[x]) : completed'[x][i] = completed[x][i]
    BY <2>2, <2>3
  <2>6. Created'
    BY <1>1, <2>2, <2>3, <2>4 DEF Created
  <2>7. \A i \in DOMAIN completed'[x] : completed'[x][i] = i
    <3>1. \A i \in 1..Len(completed[x]) : completed[x][i] = i
      BY <1>1, <2>2, <2>5 DEF CompletedInOrder
    <3>2. \A i \in 1..(Len(completed[x]) + 1) : i \in 1..Len(completed[x]) \/ i = Len(completed[x]) + 1
      BY <2>5
    <3>. QED
      BY <2>4, <2>5, <3>1, <3>2
  <2>8. state'[x].status \notin {"absent", "succeeded"} => state'[x].task = Len(completed'[x]) + 1
    BY <2>3, <2>4, <2>5
  <2>9. CompletedInOrder'
    BY <1>1, <2>2, <2>3, <2>7, <2>8 DEF CompletedInOrder
  <2>. QED
    BY <2>6, <2>9
<1>. QED
  BY <1>2, <1>4, <1>5, <1>6 DEF Shape

\* A row succeeds by a run that found its completion recorded.
LEMMA SuccessKept ==
  ASSUME PipelineInv, QueueMoves, NEW p \in Runs, Shape(p)
  PROVE  SucceededJobIsRecorded'
<1>1. TypeInv /\ PipelineTypes /\ Successors /\ SucceededJobIsRecorded
  BY DEF PipelineInv
<1>2. ASSUME NEW x \in Pipelines, NEW t \in Tasks, row'[<<x, t>>].status = "succeeded"
      PROVE  \E i \in DOMAIN completed'[x] : completed'[x][i] = t
  <2>1. <<x, t>> \in Jobs
    OBVIOUS
  <2>2. \/ row[<<x, t>>].status = "succeeded"
        \/ \E q \in Runs : run[q].pc = "complete" /\ run[q].job = <<x, t>>
    BY <1>2, <2>1 DEF QueueMoves, RowsMove
  <2>3. Recorded(x, t)
    <3>1. ASSUME NEW q \in Runs, run[q].pc = "complete", run[q].job = <<x, t>>
          PROVE  Recorded(x, t)
      <4>1. PipelineOf(q) = x /\ TaskOf(q) = t
        BY <3>1 DEF PipelineOf, TaskOf
      <4>. QED
        BY <1>1, <3>1, <4>1 DEF Successors
    <3>2. CASE row[<<x, t>>].status = "succeeded"
      BY <1>1, <3>2 DEF SucceededJobIsRecorded, Recorded
    <3>. QED
      BY <2>2, <3>1, <3>2
  <2>. QED
    BY <2>3, RecordsKept DEF NowRecorded
<1>. QED
  BY <1>2 DEF SucceededJobIsRecorded

-----------------------------------------------------------------------------
(* Calls and versions *)

\* The reserve is finite and below the number of attempts.
LEMMA ReserveBound ==
  ASSUME NEW j
  PROVE  /\ IsFiniteSet(Reserve(j))
         /\ Cardinality(Reserve(j)) \in 0..(MaxAttempts - 1)
<1>1. Reserve(j) \subseteq 1..(MaxAttempts - 1)
  BY DEF Reserve
<1>2. IsFiniteSet(1..(MaxAttempts - 1)) /\ Cardinality(1..(MaxAttempts - 1)) = MaxAttempts - 1
  <2>. DEFINE m == MaxAttempts - 1
  <2>1. m \in Int /\ 1 \in Int /\ m >= 0
    OBVIOUS
  <2>. HIDE DEF m
  <2>2. IsFiniteSet(1..m) /\ Cardinality(1..m) = IF 1 > m THEN 0 ELSE m - 1 + 1
    BY <2>1, FS_Interval
  <2>3. Cardinality(1..m) = m
    BY <2>1, <2>2
  <2>. QED
    BY <2>2, <2>3 DEF m
<1>3. IsFiniteSet(Reserve(j)) /\ Cardinality(Reserve(j)) <= MaxAttempts - 1
  BY <1>1, <1>2, FS_Subset
<1>. QED
  BY <1>3, FS_CardinalityType

\* No step adds to the reserve, and a run that leaves its handler takes its
\* attempt out of it.
LEMMA ReserveShrinks ==
  ASSUME PipelineInv, TypeInv', QueueMoves, NEW j \in Jobs
  PROVE  /\ Reserve(j)' \subseteq Reserve(j)
         /\ Cardinality(Reserve(j)') <= Cardinality(Reserve(j))
         /\ Cardinality(Reserve(j)') \in 0..(MaxAttempts - 1)
         /\ \A p \in Runs :
              /\ run[p].pc = "handling" /\ run[p].job = j /\ run[p].attempt < MaxAttempts
              /\ run'[p].pc # "handling"
              => Cardinality(Reserve(j)') < Cardinality(Reserve(j))
<1>1. TypeInv /\ RunsOfRows
  BY DEF PipelineInv
<1>2. /\ row[j].attempts \in 0..AttemptsCap /\ row'[j].attempts \in 0..AttemptsCap
      /\ AttemptsCap = MaxAttempts + 1
      /\ row'[j].attempts >= row[j].attempts
  <2>1. row[j].attempts \in 0..AttemptsCap
    BY <1>1 DEF TypeInv, TypeOK, Row
  <2>2. row'[j].attempts \in 0..AttemptsCap
    BY DEF TypeInv, TypeOK, Row
  <2>. QED
    BY <1>1, <2>1, <2>2 DEF AttemptsCap, QueueMoves, RowsMove, RunsOfRows
<1>3. ASSUME NEW q \in Runs, run'[q].pc = "handling", run'[q].job = j,
             run'[q].attempt \in 1..(MaxAttempts - 1)
      PROVE  \/ run[q].pc = "handling" /\ run[q].job = j /\ run[q].attempt = run'[q].attempt
             \/ run'[q].attempt > row[j].attempts
  <2>1. CASE RunKept(q)
    BY <1>3, <2>1 DEF RunKept
  <2>2. CASE RunClaims(q)
    <3>1. run'[q].attempt = MinOf(row[j].attempts + 1, AttemptsCap)
      BY <1>3, <2>2 DEF RunClaims
    <3>. QED
      BY <1>2, <1>3, <3>1 DEF MinOf
  <2>. QED
    BY <1>3, <2>1, <2>2 DEF QueueMoves, RunsMove
<1>4. ASSUME NEW a \in 1..(MaxAttempts - 1), a \in Reserve(j)'
      PROVE  a \in Reserve(j)
  BY <1>2, <1>3, <1>4 DEF Reserve
<1>5. Reserve(j)' \subseteq Reserve(j)
  <2>1. Reserve(j)' \subseteq 1..(MaxAttempts - 1)
    BY DEF Reserve
  <2>. QED
    BY <1>4, <2>1
<1>6. /\ IsFiniteSet(Reserve(j)) /\ Cardinality(Reserve(j)) \in 0..(MaxAttempts - 1)
      /\ IsFiniteSet(Reserve(j)')
      /\ Cardinality(Reserve(j)') <= Cardinality(Reserve(j))
      /\ Cardinality(Reserve(j)') \in Nat
      /\ Cardinality(Reserve(j)') = Cardinality(Reserve(j)) => Reserve(j)' = Reserve(j)
  BY <1>5, ReserveBound, FS_Subset, FS_CardinalityType
<1>7. ASSUME NEW p \in Runs, run[p].pc = "handling", run[p].job = j,
             run[p].attempt < MaxAttempts, run'[p].pc # "handling"
      PROVE  Reserve(j)' # Reserve(j)
  <2>. DEFINE a == run[p].attempt
  <2>1. a \in 1..(MaxAttempts - 1) /\ a <= row[j].attempts
    BY <1>1, <1>7 DEF TypeInv, TypeOK, RunsOfRows
  <2>2. a \in Reserve(j)
    BY <1>7, <2>1 DEF Reserve
  <2>3. ASSUME NEW q \in Runs, run'[q].pc = "handling", run'[q].job = j, run'[q].attempt = a
        PROVE  FALSE
    <3>1. run[q].pc = "handling" /\ run[q].job = j /\ run[q].attempt = a
      BY <1>2, <1>3, <2>1, <2>3
    <3>2. q = p
      BY <1>1, <1>2, <1>7, <2>1, <3>1 DEF RunsOfRows
    <3>. QED
      BY <1>7, <2>3, <3>2
  <2>4. a \notin Reserve(j)'
    BY <1>2, <2>1, <2>3 DEF Reserve
  <2>. QED
    BY <2>2, <2>4
<1>. QED
  BY <1>5, <1>6, <1>7

\* What a write of the pipeline's row does, shape by shape, and to the calls.
LEMMA WriteShapes ==
  ASSUME PipelineInv, NEW p \in Runs, Claims(p) \/ Completes(p) \/ Fails(p),
         NEW x, x = PipelineOf(p), NEW t, t = TaskOf(p)
  PROVE  /\ x \in Pipelines /\ t \in Tasks /\ run[p].job = <<x, t>> /\ run[p].pc = "handling"
         /\ state[x].task = t /\ state[x].version = local[p].version
         /\ state'[x].version = state[x].version + 1
         /\ \A y \in Pipelines \ {x} : state'[y] = state[y]
         /\ Claims(p) => /\ state[x].status \in Waiting
                         /\ state'[x].status = "running" /\ state'[x].task = t
                         /\ invoked'[<<x, t>>] = invoked[<<x, t>>] + 1 \/ invoked' = invoked
                         /\ \A j \in Jobs \ {<<x, t>>} : invoked'[j] = invoked[j]
         /\ Completes(p) => /\ state[x].status = "running" /\ invoked' = invoked
                            /\ \/ state'[x].status = "succeeded" /\ state'[x].task = t
                               \/ /\ state'[x].status = "queued" /\ state'[x].task = t + 1
                                  /\ t + 1 \in Tasks
         /\ Fails(p) => /\ state[x].status = "running" /\ invoked' = invoked
                        /\ state'[x].task = t
                        /\ \/ state'[x].status = "retrying" /\ run[p].attempt < MaxAttempts
                              /\ run'[p].pc # "handling"
                           \/ state'[x].status = "dead_letter"
<1>1. TypeInv /\ PipelineTypes /\ Successors
  BY DEF PipelineInv
<1>2. run[p].pc = "handling"
  BY DEF Claims, Completes, Fails, At
<1>3. x \in Pipelines /\ t \in Tasks /\ run[p].job = <<x, t>>
  BY <1>1, <1>2, Subject
<1>4. CASE Claims(p)
  <2>1. Matches(p, Waiting) /\ SetState(p, TaskOf(p), "running") /\ "running" \in Status
    BY <1>4 DEF Claims, Status
  <2>2. /\ state'[x].version = state[x].version + 1
        /\ state'[x].task = t /\ state'[x].status = "running"
        /\ \A y \in Pipelines \ {x} : state'[y] = state[y]
    BY <1>1, <1>2, <2>1, ClaimStateEffect
  <2>3. /\ invoked'[<<x, t>>] = invoked[<<x, t>>] + 1 \/ invoked' = invoked
        /\ \A j \in Jobs \ {<<x, t>>} : invoked'[j] = invoked[j]
    BY <1>1, <1>3, <1>4 DEF Claims, PipelineTypes
  <2>4. ~Completes(p) /\ ~Fails(p)
    BY <1>4 DEF Claims, Completes, Fails, At
  <2>. QED
    BY <1>2, <1>3, <2>1, <2>2, <2>3, <2>4, Matched
<1>5. CASE Completes(p)
  <2>1. Matches(p, {"running"}) /\ invoked' = invoked
    BY <1>5 DEF Completes
  <2>2. /\ state'[x].version = state[x].version + 1
        /\ \/ state'[x].status = "succeeded" /\ state'[x].task = t
           \/ state'[x].status = "queued" /\ state'[x].task = t + 1 /\ t + 1 \in Tasks
        /\ \A y \in Pipelines \ {x} : state'[y] = state[y]
    BY <1>1, <1>5, CompletionEffect DEF Completes
  <2>3. /\ state[x].task = t /\ state[x].version = local[p].version /\ state[x].status = "running"
    BY <2>1, Matched
  <2>4. ~Claims(p) /\ ~Fails(p)
    BY <1>5 DEF Claims, Completes, Fails, At
  <2>. QED
    BY <1>2, <1>3, <2>1, <2>2, <2>3, <2>4
<1>6. CASE Fails(p)
  <2>1. /\ Matches(p, {"running"}) /\ invoked' = invoked
        /\ SetState(p, TaskOf(p), FailureStatus(p))
        /\ run'[p].pc # "handling"
    BY <1>6 DEF Fails, Leaves, Settling
  <2>2. /\ FailureStatus(p) \in Status
        /\ \/ FailureStatus(p) = "retrying" /\ run[p].attempt < MaxAttempts
           \/ FailureStatus(p) = "dead_letter"
    BY DEF FailureStatus, Status, Waiting, Terminal
  <2>3. /\ state'[x].version = state[x].version + 1
        /\ state'[x].task = t /\ state'[x].status = FailureStatus(p)
        /\ \A y \in Pipelines \ {x} : state'[y] = state[y]
    BY <1>1, <1>2, <2>1, <2>2, ClaimStateEffect
  <2>4. ~Claims(p) /\ ~Completes(p)
    BY <1>6 DEF Claims, Completes, Fails, At
  <2>5. /\ state[x].task = t /\ state[x].version = local[p].version /\ state[x].status = "running"
    BY <2>1, Matched
  <2>. QED
    BY <1>2, <1>3, <2>1, <2>2, <2>3, <2>4, <2>5
<1>. QED
  BY <1>4, <1>5, <1>6

\* A run calls a handler once, and only an attempt that is then over makes the
\* pipeline retry.
LEMMA CallsKept ==
  ASSUME PipelineInv, TypeInv', QueueMoves, NEW p \in Runs, Shape(p)
  PROVE  CallsCounted'
<1>1. PipelineTypes /\ CallsCounted
  BY DEF PipelineInv
<1>2. SUFFICES ASSUME NEW y \in Pipelines, NEW u \in Tasks
               PROVE  LET calls == invoked'[<<y, u>>]
                          left == Cardinality(Reserve(<<y, u>>)')
                      IN /\ calls <= MaxAttempts
                         /\ u > state'[y].task => calls = 0
                         /\ u = state'[y].task =>
                              /\ state'[y].status \in {"absent", "queued"} => calls = 0
                              /\ state'[y].status = "running" => calls + left <= MaxAttempts
                              /\ state'[y].status = "retrying" => calls + left < MaxAttempts
  BY DEF CallsCounted
<1>. DEFINE j == <<y, u>>
            left == Cardinality(Reserve(j))
            leftAfter == Cardinality(Reserve(j)')
<1>3. /\ j \in Jobs /\ invoked[j] \in Nat
      /\ left \in 0..(MaxAttempts - 1) /\ leftAfter \in 0..(MaxAttempts - 1)
      /\ leftAfter <= left
  BY <1>1, ReserveBound, ReserveShrinks DEF PipelineTypes
<1>4. /\ invoked[j] <= MaxAttempts
      /\ u > state[y].task => invoked[j] = 0
      /\ u = state[y].task =>
           /\ state[y].status \in {"absent", "queued"} => invoked[j] = 0
           /\ state[y].status = "running" => invoked[j] + left <= MaxAttempts
           /\ state[y].status = "retrying" => invoked[j] + left < MaxAttempts
  BY <1>1 DEF CallsCounted
<1>5. \A q \in Runs :
        run[q].pc = "handling" /\ run[q].job = j /\ run[q].attempt < MaxAttempts /\ run'[q].pc # "handling"
        => leftAfter < left
  BY <1>3, ReserveShrinks
<1>. HIDE DEF left, leftAfter
<1>6. CASE state'[y] = state[y] /\ invoked'[j] = invoked[j]
  BY <1>3, <1>4, <1>6 DEF leftAfter
<1>7. CASE Claims(p) \/ Completes(p) \/ Fails(p)
  <2>. DEFINE x == PipelineOf(p)
              t == TaskOf(p)
  <2>1. /\ x \in Pipelines /\ t \in Tasks /\ run[p].job = <<x, t>> /\ run[p].pc = "handling"
        /\ state[x].task = t
        /\ \A z \in Pipelines \ {x} : state'[z] = state[z]
        /\ Claims(p) => /\ state[x].status \in Waiting
                        /\ state'[x].status = "running" /\ state'[x].task = t
                        /\ invoked'[<<x, t>>] = invoked[<<x, t>>] + 1 \/ invoked' = invoked
                        /\ \A k \in Jobs \ {<<x, t>>} : invoked'[k] = invoked[k]
        /\ Completes(p) => /\ state[x].status = "running" /\ invoked' = invoked
                           /\ \/ state'[x].status = "succeeded" /\ state'[x].task = t
                              \/ state'[x].status = "queued" /\ state'[x].task = t + 1
        /\ Fails(p) => /\ state[x].status = "running" /\ invoked' = invoked
                       /\ state'[x].task = t
                       /\ \/ state'[x].status = "retrying" /\ run[p].attempt < MaxAttempts
                             /\ run'[p].pc # "handling"
                          \/ state'[x].status = "dead_letter"
    BY <1>7, WriteShapes
  <2>. HIDE DEF x, t
  <2>2. CASE y # x
    <3>1. j # <<x, t>>
      BY <2>2
    <3>2. state'[y] = state[y] /\ invoked'[j] = invoked[j]
      BY <1>3, <1>7, <2>1, <2>2, <3>1
    <3>. QED
      BY <1>6, <3>2
  <2>3. CASE y = x /\ Claims(p)
    <3>1. CASE u = t
      <4>1. state[y].task = u /\ (state[y].status = "queued" \/ state[y].status = "retrying")
        BY <2>1, <2>3, <3>1 DEF Waiting
      <4>2. invoked[j] + leftAfter < MaxAttempts
        BY <1>3, <1>4, <4>1
      <4>3. invoked'[j] = invoked[j] + 1 \/ invoked'[j] = invoked[j]
        BY <2>1, <2>3, <3>1
      <4>4. state'[y].task = u /\ state'[y].status = "running"
        BY <2>1, <2>3, <3>1
      <4>5. ~(u > u)
        BY DEF Tasks
      <4>. QED
        BY <1>3, <4>2, <4>3, <4>4, <4>5 DEF leftAfter
    <3>2. CASE u # t
      BY <1>3, <1>4, <2>1, <2>3, <3>2 DEF leftAfter
    <3>. QED
      BY <3>1, <3>2
  <2>4. CASE y = x /\ Completes(p)
    <3>1. u \in Int /\ t \in Int
      BY <2>1 DEF Tasks
    <3>. QED
      BY <1>3, <1>4, <2>1, <2>4, <3>1 DEF leftAfter
  <2>5. CASE y = x /\ Fails(p)
    <3>1. u \in Int /\ t \in Int
      BY <2>1 DEF Tasks
    <3>2. u = t /\ state'[x].status = "retrying" => leftAfter < left
      BY <1>5, <2>1, <2>5
    <3>. QED
      BY <1>3, <1>4, <2>1, <2>5, <3>1, <3>2 DEF leftAfter
  <2>. QED
    BY <1>7, <2>2, <2>3, <2>4, <2>5
<1>. QED
  BY <1>6, <1>7 DEF Shape, Quiet

\* A claim and the write that ends it move the version on by two.
LEMMA VersionsKept ==
  ASSUME PipelineInv, TypeInv', PipelineTypes', QueueMoves, NEW p \in Runs, Shape(p)
  PROVE  VersionsCounted'
<1>1. TypeInv /\ PipelineTypes /\ ClaimsHeld /\ CallsCounted /\ VersionsCounted
  BY DEF PipelineInv
<1>. DEFINE RowFine(s, calls) ==
              /\ s.status = "absent" <=> s.version = 0
              /\ s.status = "queued" => s.version <= Base(s.task)
              /\ s.status = "retrying" => s.version <= Base(s.task) + 2 * calls
              /\ s.status = "running" => s.version < Base(s.task) + 2 * MaxAttempts
              /\ s.version <= Base(s.task) + 2 * MaxAttempts
            CallsAfter(y) == invoked'[<<y, state'[y].task>>]
            x == PipelineOf(p)
            t == TaskOf(p)
            Writes == Claims(p) \/ Completes(p) \/ Fails(p)
<1>. HIDE DEF RowFine
<1>10. ASSUME NEW y \in Pipelines
       PROVE  /\ state[y] \in StateRow /\ state[y].task \in Tasks /\ state[y].version \in Nat
              /\ <<y, state[y].task>> \in Jobs
              /\ Calls(y) \in Nat /\ Calls(y) <= MaxAttempts
              /\ state[y].status = "retrying" => Calls(y) < MaxAttempts
  <2>1. /\ state[y] \in StateRow /\ state[y].task \in Tasks /\ state[y].version \in Nat
        /\ <<y, state[y].task>> \in Jobs
    BY <1>1 DEF PipelineTypes, StateRow
  <2>2. Calls(y) \in Nat
    BY <1>1, <2>1 DEF PipelineTypes, Calls
  <2>3. Cardinality(Reserve(<<y, state[y].task>>)) \in Nat
    BY ReserveBound
  <2>. QED
    BY <1>1, <2>1, <2>2, <2>3 DEF CallsCounted, Calls
<1>2. \A y \in Pipelines : RowFine(state[y], Calls(y))
  BY <1>1 DEF VersionsCounted, RowFine
<1>3. Writes =>
        /\ x \in Pipelines /\ t \in Tasks /\ run[p].job = <<x, t>> /\ run[p].pc = "handling"
        /\ state[x].task = t /\ state[x].version = local[p].version
        /\ state'[x].version = state[x].version + 1
        /\ \A y \in Pipelines \ {x} : state'[y] = state[y]
        /\ Claims(p) => /\ state[x].status \in Waiting
                        /\ state'[x].status = "running" /\ state'[x].task = t
                        /\ invoked'[<<x, t>>] = invoked[<<x, t>>] + 1 \/ invoked' = invoked
                        /\ \A j \in Jobs \ {<<x, t>>} : invoked'[j] = invoked[j]
        /\ Completes(p) => /\ state[x].status = "running" /\ invoked' = invoked
                           /\ \/ state'[x].status = "succeeded" /\ state'[x].task = t
                              \/ /\ state'[x].status = "queued" /\ state'[x].task = t + 1
                                 /\ t + 1 \in Tasks
        /\ Fails(p) => /\ state[x].status = "running" /\ invoked' = invoked
                       /\ state'[x].task = t
                       /\ state'[x].status \in {"retrying", "dead_letter"}
  BY WriteShapes
<1>4. ASSUME NEW y \in Pipelines, ~Writes \/ y # x
      PROVE  state'[y] = state[y] /\ CallsAfter(y) = Calls(y)
  <2>1. CASE ~Writes
    BY <2>1 DEF Shape, Quiet, Calls
  <2>2. CASE Writes /\ y # x
    <3>1. state'[y] = state[y] /\ <<y, state[y].task>> \in Jobs /\ <<y, state[y].task>> # <<x, t>>
      BY <1>3, <1>10, <2>2
    <3>2. invoked'[<<y, state[y].task>>] = invoked[<<y, state[y].task>>]
      BY <1>3, <2>2, <3>1
    <3>. QED
      BY <3>1, <3>2 DEF Calls
  <2>. QED
    BY <1>4, <2>1, <2>2
<1>5. Writes => /\ state[x].version \in Nat /\ Calls(x) \in Nat /\ Calls(x) <= MaxAttempts
                /\ Base(t) \in Nat \ {0} /\ Base(t + 1) = Base(t) + 2 * MaxAttempts
                /\ Calls(x) = invoked[<<x, t>>]
                /\ RowFine(state[x], Calls(x))
                /\ state[x].status = "retrying" => Calls(x) < MaxAttempts
  <2>. SUFFICES ASSUME Writes
                PROVE  /\ state[x].version \in Nat /\ Calls(x) \in Nat /\ Calls(x) <= MaxAttempts
                       /\ Base(t) \in Nat \ {0} /\ Base(t + 1) = Base(t) + 2 * MaxAttempts
                       /\ Calls(x) = invoked[<<x, t>>]
                       /\ RowFine(state[x], Calls(x))
                       /\ state[x].status = "retrying" => Calls(x) < MaxAttempts
    OBVIOUS
  <2>1. x \in Pipelines /\ t \in Tasks /\ state[x].task = t
    BY <1>3
  <2>. HIDE DEF x, t, Writes
  <2>2. state[x].version \in Nat
    BY <1>10, <2>1
  <2>3. Calls(x) = invoked[<<x, t>>]
    BY <2>1 DEF Calls
  <2>. QED
    BY <1>2, <1>10, <2>1, <2>2, <2>3, Bases
<1>6. ASSUME NEW q \in Runs, Holding(q), local[q].version = state[PipelineOf(q)].version
      PROVE  local[q].version < Base(TaskOf(q)) + 2 * Calls(PipelineOf(q))
  BY <1>1, <1>6 DEF VersionsCounted
<1>7. ASSUME NEW y \in Pipelines
      PROVE  RowFine(state'[y], CallsAfter(y))
  <2>1. CASE ~Writes \/ y # x
    <3>1. state'[y] = state[y] /\ CallsAfter(y) = Calls(y) /\ RowFine(state[y], Calls(y))
      BY <1>2, <1>4, <2>1
    <3>. HIDE DEF CallsAfter
    <3>. QED
      BY <3>1
  <2>2. CASE y = x /\ Claims(p)
    <3>1. state[x].version < Base(t) + 2 * MaxAttempts - 1
      BY <1>3, <1>5, <2>2 DEF Waiting, RowFine
    <3>2. /\ state'[x].version = state[x].version + 1
          /\ state'[x].status = "running" /\ state'[x].task = t
      BY <1>3, <2>2
    <3>3. state[x].version \in Nat /\ Base(t) \in Nat
      BY <1>5, <2>2
    <3>. HIDE DEF x, t
    <3>. QED
      BY <2>2, <3>1, <3>2, <3>3 DEF RowFine
  <2>3. CASE y = x /\ Completes(p)
    BY <1>3, <1>5, <2>3 DEF RowFine
  <2>4. CASE y = x /\ Fails(p)
    <3>1. state[x].version < Base(t) + 2 * Calls(x)
      <4>1. Holding(p) /\ local[p].version = state[PipelineOf(p)].version
        BY <1>3, <2>4 DEF Fails, At, Holding
      <4>. QED
        BY <1>6, <4>1
    <3>2. CallsAfter(x) = Calls(x)
      BY <1>3, <2>4 DEF Calls
    <3>. QED
      BY <1>3, <1>5, <2>4, <3>1, <3>2 DEF RowFine
  <2>. QED
    BY <2>1, <2>2, <2>3, <2>4
<1>8. ASSUME NEW q \in Runs, Holding(q)', local'[q].version = state'[PipelineOf(q)'].version
      PROVE  local'[q].version < Base(TaskOf(q)') + 2 * CallsAfter(PipelineOf(q)')
  <2>1. ASSUME Holding(q), run'[q].job = run[q].job, local'[q].version = local[q].version,
               ~Writes \/ PipelineOf(q) # x
        PROVE  local'[q].version < Base(TaskOf(q)') + 2 * CallsAfter(PipelineOf(q)')
    <3>1. PipelineOf(q)' = PipelineOf(q) /\ TaskOf(q)' = TaskOf(q)
      BY <2>1 DEF PipelineOf, TaskOf
    <3>2. PipelineOf(q) \in Pipelines
      BY <1>1, <2>1, Subject DEF Holding
    <3>3. state'[PipelineOf(q)] = state[PipelineOf(q)] /\ CallsAfter(PipelineOf(q)) = Calls(PipelineOf(q))
      BY <1>4, <2>1, <3>2
    <3>. QED
      BY <1>6, <1>8, <2>1, <3>1, <3>3
  <2>2. CASE Quiet
    <3>1. Holding(q) /\ run'[q].job = run[q].job /\ local'[q].version = local[q].version
      BY <1>8, <2>2, QuietHolders
    <3>2. CASE ~Writes
      BY <2>1, <3>1, <3>2
    <3>3. CASE Writes
      <4>1. state'[x] = state[x]
        BY <2>2 DEF Quiet
      <4>. QED
        BY <1>3, <1>5, <3>3, <4>1
    <3>. QED
      BY <3>2, <3>3
  <2>3. ASSUME Writes, Holding(q), run'[q].job = run[q].job, local'[q].version = local[q].version
        PROVE  PipelineOf(q) # x
    <3>1. ASSUME PipelineOf(q) = x
          PROVE  FALSE
      <4>1. local[q].version \in 1..state[x].version
        BY <1>1, <2>3, <3>1 DEF ClaimsHeld
      <4>2. PipelineOf(q)' = x
        BY <2>3, <3>1 DEF PipelineOf
      <4>3. local[q].version = state'[x].version
        BY <1>8, <2>3, <4>2
      <4>4. state'[x].version = state[x].version + 1 /\ state[x].version \in Nat
        BY <1>3, <1>5, <2>3 DEF RowFine
      <4>. HIDE DEF x
      <4>. QED
        BY <4>1, <4>3, <4>4
    <3>. QED
      BY <3>1
  <2>4. CASE Completes(p) \/ Fails(p)
    <3>1. Holding(q) /\ run'[q].job = run[q].job /\ local'[q].version = local[q].version
      BY <1>8, <2>4, HeldByWriter
    <3>. QED
      BY <2>1, <2>3, <2>4, <3>1
  <2>5. CASE Claims(p) /\ q # p
    <3>1. run'[q] = run[q] /\ local'[q] = local[q]
      BY <2>5 DEF Claims, Others
    <3>2. Holding(q)
      BY <1>8, <3>1 DEF Holding
    <3>. QED
      BY <2>1, <2>3, <2>5, <3>1, <3>2
  <2>6. CASE Claims(p) /\ q = p
    <3>1. ~Leaves(p)
      BY <1>8, <2>6 DEF Leaves, Holding, Settling
    <3>2. /\ run'[p] = run[p]
          /\ local'[p].version = local[p].version + 1
          /\ invoked' = [invoked EXCEPT ![run[p].job] = @ + 1]
      BY <2>6, <3>1 DEF Claims, Goes
    <3>3. PipelineOf(p)' = x /\ TaskOf(p)' = t
      BY <3>2 DEF PipelineOf, TaskOf
    <3>4. <<x, t>> \in Jobs
      BY <1>3, <2>6
    <3>5. CallsAfter(x) = Calls(x) + 1
      BY <1>1, <1>3, <1>5, <2>6, <3>2, <3>4 DEF PipelineTypes
    <3>6. state[x].version <= Base(t) + 2 * Calls(x)
      BY <1>3, <1>5, <2>6 DEF Waiting, RowFine
    <3>. HIDE DEF x, t, CallsAfter
    <3>7. local'[p].version < Base(t) + 2 * CallsAfter(x)
      BY <1>3, <1>5, <2>6, <3>2, <3>5, <3>6
    <3>. QED
      BY <2>6, <3>3, <3>7
  <2>. QED
    BY <2>2, <2>4, <2>5, <2>6 DEF Shape
<1>. QED
  BY <1>7, <1>8 DEF VersionsCounted, Calls, Base, RowFine

-----------------------------------------------------------------------------
(* The invariant, and what follows from it *)

\* The creation of a pipeline disturbs no run.
LEMMA CreationKept ==
  ASSUME PipelineInv, NEW x \in Pipelines, CreateState(x)
  PROVE  PipelineInv'
<1>1. /\ TypeInv /\ RunsOfRows /\ PipelineTypes /\ ClaimsHeld /\ Successors /\ Created
      /\ CompletedInOrder /\ SucceededJobIsRecorded /\ CallsCounted /\ VersionsCounted
  BY DEF PipelineInv
<1>. DEFINE new == [task |-> 1, status |-> "queued", version |-> 1]
<1>2. /\ dispatch[x] = "idle" /\ dispatch' = [dispatch EXCEPT ![x] = "created"]
      /\ state' = [state EXCEPT ![x] = new]
      /\ UNCHANGED <<row, run, faults, holder, recovered, local, invoked, completed>>
  BY DEF CreateState, vars
<1>3. state[x] = NoState /\ completed[x] = <<>>
  BY <1>1, <1>2 DEF Created
<1>4. /\ new \in StateRow /\ new.task = 1 /\ new.status = "queued" /\ new.version = 1
      /\ NoState.task = 1 /\ NoState.status = "absent" /\ NoState.version = 0
  BY DEF StateRow, NoState, Status, Waiting, Tasks
<1>5. state'[x] = new /\ \A y \in Pipelines \ {x} : state'[y] = state[y]
  BY <1>1, <1>2 DEF PipelineTypes
<1>. HIDE DEF new
<1>6. TypeInv' /\ RunsOfRows' /\ Successors' /\ SucceededJobIsRecorded'
  <2>1. TypeInv' /\ RunsOfRows'
    BY <1>1, <1>2 DEF TypeInv, TypeOK, RunsKnown, RunsOfRows
  <2>2. Successors' /\ SucceededJobIsRecorded'
    BY <1>1, <1>2 DEF Successors, SucceededJobIsRecorded, At, PipelineOf, TaskOf, Recorded, NextTasks
  <2>. QED
    BY <2>1, <2>2
<1>7. PipelineTypes'
  BY <1>1, <1>2, <1>4, <1>5 DEF PipelineTypes
<1>8. ClaimsHeld' /\ VersionsCounted'
  <2>1. \A p \in Runs : Holding(p)' <=> Holding(p)
    BY <1>2 DEF Holding
  <2>2. \A p \in Runs : PipelineOf(p)' = PipelineOf(p) /\ TaskOf(p)' = TaskOf(p)
    BY <1>2 DEF PipelineOf, TaskOf
  <2>3. \A p \in Runs : Holding(p) => PipelineOf(p) \in Pipelines /\ PipelineOf(p) # x
    BY <1>1, <1>3, <1>4, Subject DEF ClaimsHeld, Holding
  <2>4. ClaimsHeld'
    BY <1>1, <1>2, <1>5, <2>1, <2>2, <2>3 DEF ClaimsHeld
  <2>5. Base(1) = 1 /\ 1 \in Tasks
    <3>1. 1 \in Tasks
      BY DEF Tasks
    <3>. QED
      BY <3>1 DEF Base
  <2>6. \A y \in Pipelines \ {x} : Calls(y)' = Calls(y)
    BY <1>2, <1>5 DEF Calls
  <2>7. Calls(x)' \in Nat
    BY <1>1, <1>2, <1>4, <1>5, <2>5 DEF Calls, PipelineTypes
  <2>8. \A y \in Pipelines : 
          LET s == state'[y]
          IN /\ s.status = "absent" <=> s.version = 0
             /\ s.status = "queued" => s.version <= Base(s.task)
             /\ s.status = "retrying" => s.version <= Base(s.task) + 2 * Calls(y)'
             /\ s.status = "running" => s.version < Base(s.task) + 2 * MaxAttempts
             /\ s.version <= Base(s.task) + 2 * MaxAttempts
    BY <1>1, <1>4, <1>5, <2>5, <2>6 DEF VersionsCounted
  <2>9. \A p \in Runs :
          Holding(p) /\ local[p].version = state[PipelineOf(p)].version =>
            local[p].version < Base(TaskOf(p)) + 2 * Calls(PipelineOf(p))
    BY <1>1 DEF VersionsCounted
  <2>10. \A p \in Runs :
           Holding(p)' /\ local'[p].version = state'[PipelineOf(p)'].version =>
             /\ Holding(p) /\ local[p].version = state[PipelineOf(p)].version
             /\ Calls(PipelineOf(p))' = Calls(PipelineOf(p))
    <3>1. ASSUME NEW p \in Runs, Holding(p)', local'[p].version = state'[PipelineOf(p)'].version
          PROVE  /\ Holding(p) /\ local[p].version = state[PipelineOf(p)].version
                 /\ Calls(PipelineOf(p))' = Calls(PipelineOf(p))
      <4>1. Holding(p) /\ PipelineOf(p)' = PipelineOf(p) /\ PipelineOf(p) \in Pipelines \ {x}
        BY <2>1, <2>2, <2>3, <3>1
      <4>2. state'[PipelineOf(p)] = state[PipelineOf(p)]
        BY <1>5, <4>1
      <4>3. Calls(PipelineOf(p))' = Calls(PipelineOf(p))
        BY <1>2, <4>1, <4>2 DEF Calls
      <4>. QED
        BY <1>2, <3>1, <4>1, <4>2, <4>3
    <3>. QED
      BY <3>1
  <2>. QED
    BY <1>2, <2>2, <2>4, <2>8, <2>9, <2>10 DEF VersionsCounted, Base
<1>9. Created' /\ CompletedInOrder'
  <2>1. Created'
    BY <1>1, <1>2, <1>4, <1>5 DEF Created, PipelineTypes
  <2>2. Len(completed[x]) = 0
    BY <1>3
  <2>3. CompletedInOrder'
    BY <1>1, <1>2, <1>4, <1>5, <2>2 DEF CompletedInOrder
  <2>. QED
    BY <2>1, <2>3
<1>10. CallsCounted'
  <2>1. \A j \in Jobs : Reserve(j)' = Reserve(j)
    BY <1>2 DEF Reserve
  <2>2. ASSUME NEW y \in Pipelines, NEW u \in Tasks
        PROVE  LET calls == invoked'[<<y, u>>]
                   left == Cardinality(Reserve(<<y, u>>))
               IN /\ calls <= MaxAttempts
                  /\ u > state'[y].task => calls = 0
                  /\ u = state'[y].task =>
                       /\ state'[y].status \in {"absent", "queued"} => calls = 0
                       /\ state'[y].status = "running" => calls + left <= MaxAttempts
                       /\ state'[y].status = "retrying" => calls + left < MaxAttempts
    BY <1>1, <1>2, <1>3, <1>4, <1>5 DEF CallsCounted
  <2>3. \A y \in Pipelines, u \in Tasks : Reserve(<<y, u>>)' = Reserve(<<y, u>>)
    BY <2>1
  <2>. QED
    BY <2>2, <2>3 DEF CallsCounted
<1>. QED
  BY <1>6, <1>7, <1>8, <1>9, <1>10 DEF PipelineInv

LEMMA PipelineInitially == PipelineInit => PipelineInv
<1>. SUFFICES ASSUME PipelineInit
              PROVE  PipelineInv
  OBVIOUS
<1>1. /\ row = [j \in Jobs |-> NoRow] /\ run = [p \in Runs |-> Idle] /\ faults = 0
      /\ holder = [j \in Jobs |-> NoRun] /\ recovered = {}
      /\ state = [x \in Pipelines |-> NoState]
      /\ dispatch = [x \in Pipelines |-> "idle"]
      /\ local = [p \in Runs |-> NoLocal]
      /\ invoked = [j \in Jobs |-> 0]
      /\ completed = [x \in Pipelines |-> <<>>]
  BY DEF PipelineInit, Init
<1>2. /\ NoRow \in Row /\ NoRow.status = "absent" /\ NoRow.attempts = 0
      /\ Idle \in Run /\ Idle.pc = "idle"
      /\ NoState \in StateRow /\ NoState.task = 1 /\ NoState.status = "absent" /\ NoState.version = 0
      /\ NoLocal \in Locals /\ NoLocal.at = "start" /\ NoLocal.version = 0
  BY DEF NoRow, FreshRow, Row, Status, AttemptsCap, Idle, Run, NoState, StateRow, NoLocal, Locals,
         Places, Tasks
<1>3. \A p \in Runs : run[p] = Idle /\ local[p] = NoLocal
  BY <1>1
<1>4. TypeInv /\ RunsOfRows
  BY <1>1, <1>2, <1>3 DEF TypeInv, TypeOK, RunsKnown, RunsOfRows
<1>5. PipelineTypes
  BY <1>1, <1>2, <1>3 DEF PipelineTypes
<1>6. ClaimsHeld /\ Successors
  BY <1>2, <1>3 DEF ClaimsHeld, Successors, Holding, At
<1>7. Created /\ CompletedInOrder
  BY <1>1, <1>2 DEF Created, CompletedInOrder
<1>8. SucceededJobIsRecorded
  BY <1>1, <1>2 DEF SucceededJobIsRecorded
<1>9. CallsCounted
  BY <1>1, <1>2 DEF CallsCounted
<1>10. VersionsCounted
  <2>1. Base(1) = 1 /\ 1 \in Tasks
    BY DEF Base, Tasks
  <2>2. \A p \in Runs : ~Holding(p)
    BY <1>2, <1>3 DEF Holding
  <2>3. \A x \in Pipelines : state[x].version = 0 /\ state[x].status = "absent" /\ state[x].task = 1
    BY <1>1, <1>2
  <2>. QED
    BY <2>1, <2>2, <2>3 DEF VersionsCounted
<1>. QED
  BY <1>4, <1>5, <1>6, <1>7, <1>8, <1>9, <1>10 DEF PipelineInv

\* Without runs the rows age and the dispatcher works on, and no more.
LEMMA WithoutRuns ==
  ASSUME PipelineInv, Runs = {}, Quiet, QueueMoves, TypeInv', local' \in [Runs -> Locals],
         dispatch' \in [Pipelines -> {"idle", "created", "done"}],
         \A x \in Pipelines : dispatch'[x] = "idle" <=> dispatch[x] = "idle"
  PROVE  PipelineInv'
<1>1. /\ RunsOfRows /\ PipelineTypes /\ Created /\ CompletedInOrder /\ SucceededJobIsRecorded
      /\ CallsCounted /\ VersionsCounted
  BY DEF PipelineInv
<1>2. UNCHANGED <<state, invoked, completed>>
  BY DEF Quiet
<1>3. RunsOfRows' /\ ClaimsHeld'
  BY MovesKeepRuns, HeldByQuiet DEF PipelineInv
<1>4. PipelineTypes'
  BY <1>1, <1>2 DEF PipelineTypes
<1>5. Successors' /\ Created' /\ CompletedInOrder'
  BY <1>1, <1>2 DEF Successors, Created, CompletedInOrder
<1>6. SucceededJobIsRecorded'
  <2>1. \A x \in Pipelines, t \in Tasks :
          row'[<<x, t>>].status = "succeeded" => row[<<x, t>>].status = "succeeded"
    BY DEF QueueMoves, RowsMove
  <2>. QED
    BY <1>1, <1>2, <2>1 DEF SucceededJobIsRecorded
<1>7. CallsCounted'
  <2>1. ASSUME NEW x \in Pipelines, NEW t \in Tasks
        PROVE  LET calls == invoked[<<x, t>>]
                   left == Cardinality(Reserve(<<x, t>>)')
               IN /\ calls <= MaxAttempts
                  /\ t > state[x].task => calls = 0
                  /\ t = state[x].task =>
                       /\ state[x].status \in {"absent", "queued"} => calls = 0
                       /\ state[x].status = "running" => calls + left <= MaxAttempts
                       /\ state[x].status = "retrying" => calls + left < MaxAttempts
    <3>1. /\ invoked[<<x, t>>] \in Nat
          /\ Cardinality(Reserve(<<x, t>>)) \in Nat /\ Cardinality(Reserve(<<x, t>>)') \in Nat
          /\ Cardinality(Reserve(<<x, t>>)') <= Cardinality(Reserve(<<x, t>>))
      BY <1>1, ReserveBound, ReserveShrinks DEF PipelineTypes
    <3>. QED
      BY <1>1, <3>1 DEF CallsCounted
  <2>. QED
    BY <1>2, <2>1 DEF CallsCounted
<1>8. VersionsCounted'
  BY <1>1, <1>2 DEF VersionsCounted, Calls, Base
<1>. QED
  BY <1>3, <1>4, <1>5, <1>6, <1>7, <1>8 DEF PipelineInv

LEMMA PipelineStep == PipelineInv /\ [PipelineNext]_allVars => PipelineInv'
<1>. SUFFICES ASSUME PipelineInv, [PipelineNext]_allVars
              PROVE  PipelineInv'
  OBVIOUS
<1>1. ASSUME NEW x \in Pipelines, CreateState(x)
      PROVE  PipelineInv'
  BY <1>1, CreationKept
<1>2. ASSUME NEW p \in Runs, Shape(p), QueueMoves, TypeInv', local' \in [Runs -> Locals],
             dispatch' \in [Pipelines -> {"idle", "created", "done"}],
             \A x \in Pipelines : dispatch'[x] = "idle" <=> dispatch[x] = "idle"
      PROVE  PipelineInv'
  <2>1. RunsOfRows'
    BY <1>2, MovesKeepRuns DEF PipelineInv
  <2>2. PipelineTypes'
    BY <1>2, TypesKept
  <2>3. ClaimsHeld'
    BY <1>2, <2>2, HeldByQuiet, HeldByClaims, HeldByWriter DEF Shape
  <2>4. Successors' /\ Created' /\ CompletedInOrder' /\ SucceededJobIsRecorded'
    BY <1>2, SuccessorsKept, OrderKept, SuccessKept
  <2>5. CallsCounted' /\ VersionsCounted'
    BY <1>2, <2>2, CallsKept, VersionsKept
  <2>. QED
    BY <1>2, <2>1, <2>2, <2>3, <2>4, <2>5 DEF PipelineInv
<1>3. ASSUME NEW p \in Runs, ExecuteStep(p) \/ \E kind \in ErrorKinds : ExecuteFault(p, kind)
      PROVE  PipelineInv'
  <2>1. dispatch \in [Pipelines -> {"idle", "created", "done"}]
    BY DEF PipelineInv, PipelineTypes
  <2>. QED
    BY <1>2, <1>3, <2>1, ExecuteShape
<1>4. ASSUME \/ \E x \in Pipelines : EnqueueFirst(x) \/ DispatchCrash(x)
             \/ \E p \in Runs : QueueStep(p) \/ PipelineCrash(p)
             \/ Background
      PROVE  PipelineInv'
  <2>1. CASE Runs = {}
    BY <1>4, <2>1, OtherShape, WithoutRuns
  <2>2. CASE Runs # {}
    BY <1>2, <1>4, <2>2, OtherShape DEF Shape
  <2>. QED
    BY <2>1, <2>2
<1>5. CASE UNCHANGED allVars
  <2>1. UNCHANGED <<row, run, faults, holder, recovered, state, dispatch, local, invoked, completed>>
    BY <1>5 DEF allVars, vars, pipeVars
  <2>2. TypeInv' /\ RunsOfRows' /\ PipelineTypes'
    BY <2>1 DEF PipelineInv, TypeInv, TypeOK, RunsKnown, RunsOfRows, PipelineTypes
  <2>3. ClaimsHeld' /\ Successors'
    BY <2>1 DEF PipelineInv, ClaimsHeld, Successors, Holding, At, PipelineOf, TaskOf, Recorded,
                NextTasks
  <2>4. Created' /\ CompletedInOrder' /\ SucceededJobIsRecorded'
    BY <2>1 DEF PipelineInv, Created, CompletedInOrder, SucceededJobIsRecorded
  <2>5. \A x \in Pipelines, t \in Tasks : Reserve(<<x, t>>)' = Reserve(<<x, t>>)
    BY <2>1 DEF Reserve
  <2>6. CallsCounted'
    BY <2>1, <2>5 DEF PipelineInv, CallsCounted
  <2>7. VersionsCounted'
    BY <2>1 DEF PipelineInv, VersionsCounted, Calls, Base, Holding, PipelineOf, TaskOf
  <2>. QED
    BY <2>2, <2>3, <2>4, <2>6, <2>7 DEF PipelineInv
<1>. QED
  BY <1>1, <1>3, <1>4, <1>5 DEF PipelineNext

LEMMA PipelineInvariant == PipelineSpec => []PipelineInv
BY PipelineInitially, PipelineStep, PTL DEF PipelineSpec

\* Only the run that claimed the row is inside its task, after any number of
\* recoveries, crashes and late runs (claim, ai-pipeline.worker.js).
THEOREM TasksAreExclusive == PipelineSpec => []ExclusiveTask
<1>1. PipelineInv => ExclusiveTask
  BY DEF PipelineInv, ClaimsHeld, ExclusiveTask, At, Holding
<1>. QED
  BY <1>1, PipelineInvariant, PTL

\* A chain of any length is recorded from its first task on, in order, each
\* task once (complete, postgres-pipeline-state-store.js).
THEOREM ChainIsRecordedInOrder == PipelineSpec => []CompletedInOrder
<1>1. PipelineInv => CompletedInOrder
  BY DEF PipelineInv
<1>. QED
  BY <1>1, PipelineInvariant, PTL

\* A job the queue settled as succeeded has its completion in the state row,
\* whatever crashed in between (_execute, ai-pipeline.worker.js).
THEOREM SuccessIsRecorded == PipelineSpec => []SucceededJobIsRecorded
<1>1. PipelineInv => SucceededJobIsRecorded
  BY DEF PipelineInv
<1>. QED
  BY <1>1, PipelineInvariant, PTL

\* The handler of a job is called max_attempts times at most, although the
\* recovery of stale jobs hands it out more often (fail and claim of the state).
THEOREM HandlerCallsAreBounded == PipelineSpec => []HandlerCallsBounded
<1>1. PipelineInv => HandlerCallsBounded
  <2>1. ASSUME CallsCounted, NEW j \in Jobs
        PROVE  invoked[j] <= MaxAttempts
    <3>1. PICK x \in Pipelines, t \in Tasks : j = <<x, t>>
      OBVIOUS
    <3>. QED
      BY <2>1, <3>1 DEF CallsCounted
  <2>. QED
    BY <2>1 DEF PipelineInv, HandlerCallsBounded
<1>. QED
  BY <1>1, PipelineInvariant, PTL

\* Versions are bounded by the attempts: a task moves them on by two per call
\* of its handler, and a row that waits or runs has calls left.
THEOREM PipelineTypeCorrect == PipelineSpec => []PipelineTypeOK
<1>1. PipelineInv => PipelineTypeOK
  <2>. SUFFICES ASSUME PipelineInv
                PROVE  PipelineTypeOK
    OBVIOUS
  <2>1. TypeInv /\ PipelineTypes /\ ClaimsHeld /\ VersionsCounted
    BY DEF PipelineInv
  <2>2. \A x \in Pipelines : /\ state[x] \in StateRow
                            /\ state[x].version \in Versions \cup {0}
    BY <2>1, StateVersions DEF PipelineTypes
  <2>3. ASSUME NEW p \in Runs
        PROVE  local[p] \in Locals /\ local[p].version \in Versions \cup {0}
    <3>1. local[p] \in Locals /\ NoLocal.version = 0
      BY <2>1 DEF PipelineTypes, NoLocal
    <3>2. CASE Holding(p)
      <4>1. PipelineOf(p) \in Pipelines
        BY <2>1, <3>2, Subject DEF Holding
      <4>2. local[p].version \in 1..state[PipelineOf(p)].version
        BY <2>1, <3>2 DEF ClaimsHeld
      <4>. QED
        BY <2>2, <3>1, <4>1, <4>2 DEF Versions
    <3>3. CASE ~Holding(p)
      BY <2>1, <3>1, <3>3 DEF Holding, PipelineTypes, Locals, Places
    <3>. QED
      BY <3>2, <3>3
  <2>4. state \in [Pipelines -> [task : Tasks, status : Status, version : Versions \cup {0}]]
    BY <2>1, <2>2 DEF PipelineTypes, StateRow
  <2>5. local \in [Runs -> [at : {"start", "claim", "task", "save", "enqueue", "fail"},
                            version : Versions \cup {0}, next : Tasks \cup {Done},
                            kind : {"transient", "unreachable", "fatal"}]]
    BY <2>1, <2>3 DEF PipelineTypes, Locals, Places
  <2>. QED
    BY <2>1, <2>4, <2>5 DEF PipelineTypeOK, PipelineTypes
<1>. QED
  BY <1>1, PipelineInvariant, PTL

-----------------------------------------------------------------------------
(* Retries, where nothing crashes, every call of a job fits in the stale   *)
(* timeout, and the queue and the pipeline agree on the errors to repeat.  *)

Calm == FaultBudget = 0 /\ "unreachable" \notin ErrorKinds /\ CallsFit

\* A busy run has the lease of its job, and a lease is had by a busy run.
LeasesAreBusy ==
  /\ \A p \in Runs : run[p].pc # "idle" => holder[run[p].job] = p
  /\ \A j \in Jobs : holder[j] # NoRun => run[holder[j]].pc # "idle" /\ run[holder[j]].job = j

KindsAgree == \A p \in Runs : local[p].kind # "unreachable"

\* A job that waits for its retry, or is about to, finds its pipeline retrying.
Retries(j) == row[j].status = "retrying" \/ \E p \in Runs : run[p].pc = "retry" /\ run[p].job = j
RetriesFind ==
  \A x \in Pipelines, t \in Tasks :
    Retries(<<x, t>>) => state[x].task = t /\ state[x].status = "retrying"

CalmInv ==
  /\ PipelineInv /\ LockMatchesHolder /\ OnTime
  /\ LeasesAreBusy /\ KindsAgree /\ RetriesFind

\* The queue's part of the invariant.
QueueCalm == LockMatchesHolder /\ OnTime /\ LeasesAreBusy

LEMMA CalmTypes ==
  ASSUME CalmInv
  PROVE  /\ TypeInv /\ TypeOK /\ PipelineTypes /\ RunsOfRows /\ Created /\ NoRun \notin Runs
         /\ \A p \in Runs : run[p].pc # "idle" =>
              /\ run[p].job \in Jobs /\ holder[run[p].job] = p /\ row[run[p].job].status = "running"
         /\ \A j \in Jobs : holder[j] \in Runs \cup {NoRun}
         /\ \A j \in Jobs : row[j].status = "running" <=> holder[j] # NoRun
<1>1. TypeInv /\ TypeOK /\ PipelineTypes /\ RunsOfRows /\ Created /\ NoRun \notin Runs
  BY RunAssumption DEF CalmInv, PipelineInv, TypeInv
<1>2. \A j \in Jobs : holder[j] \in Runs \cup {NoRun}
  BY <1>1 DEF TypeOK
<1>3. \A j \in Jobs : row[j].status = "running" <=> holder[j] # NoRun
  BY DEF CalmInv, LockMatchesHolder
<1>4. ASSUME NEW p \in Runs, run[p].pc # "idle"
      PROVE  run[p].job \in Jobs /\ holder[run[p].job] = p /\ row[run[p].job].status = "running"
  <2>1. run[p].job \in Jobs /\ holder[run[p].job] = p
    BY <1>1, <1>4 DEF CalmInv, LeasesAreBusy, TypeOK
  <2>. QED
    BY <1>1, <1>3, <2>1
<1>. QED
  BY <1>1, <1>2, <1>3, <1>4

LEMMA NothingFails ==
  ASSUME Calm, CalmInv
  PROVE  ~(faults < FaultBudget)
BY CalmTypes DEF Calm, TypeOK

\* Runs that go on, and leases that stay.
LEMMA RunsGoOn ==
  ASSUME CalmInv, holder' = holder,
         \A q \in Runs : run'[q].job = run[q].job /\ (run'[q].pc = "idle" <=> run[q].pc = "idle")
  PROVE  LeasesAreBusy'
<1>1. \A j \in Jobs : holder[j] \in Runs \cup {NoRun}
  BY CalmTypes
<1>. QED
  BY <1>1 DEF CalmInv, LeasesAreBusy

\* The queue is left alone.
LEMMA QueueRests ==
  ASSUME CalmInv, UNCHANGED vars
  PROVE  QueueCalm' /\ \A j \in Jobs : Retries(j)' => Retries(j)
<1>1. row' = row /\ run' = run /\ holder' = holder
  BY DEF vars
<1>2. LockMatchesHolder'
  BY <1>1 DEF CalmInv, LockMatchesHolder
<1>3. OnTime'
  BY <1>1 DEF CalmInv, OnTime, RunOnTime
<1>4. LeasesAreBusy'
  BY <1>1, RunsGoOn
<1>. QED
  BY <1>1, <1>2, <1>3, <1>4 DEF QueueCalm, Retries

\* A step of the queue keeps locks and times.
LEMMA QueueGoesOn ==
  ASSUME Calm, CalmInv, Next
  PROVE  LockMatchesHolder' /\ OnTime'
<1>1. TypeInv /\ LockMatchesHolder /\ OnTime /\ CallsFit
  BY CalmTypes DEF Calm, CalmInv
<1>. QED
  BY <1>1, LockStep, OnTimeStep

\* Nothing of a pipeline retries whose task is in the hands of a run.
LEMMA NoneRetries ==
  ASSUME CalmInv, NEW p \in Runs, run[p].pc = "handling",
         state[PipelineOf(p)].task = TaskOf(p), NEW t \in Tasks
  PROVE  ~Retries(<<PipelineOf(p), t>>)
<1>1. SUFFICES ASSUME Retries(<<PipelineOf(p), t>>) PROVE FALSE
  OBVIOUS
<1>2. /\ PipelineOf(p) \in Pipelines /\ run[p].job = <<PipelineOf(p), TaskOf(p)>>
      /\ run[p].job \in Jobs /\ holder[run[p].job] = p /\ row[run[p].job].status = "running"
  BY CalmTypes, Subject
<1>3. state[PipelineOf(p)].task = t
  BY <1>1, <1>2 DEF CalmInv, RetriesFind
<1>4. run[p].job = <<PipelineOf(p), t>>
  BY <1>2, <1>3
<1>5. PICK q \in Runs : run[q].pc = "retry" /\ run[q].job = run[p].job
  BY <1>1, <1>2, <1>4 DEF Retries
<1>6. holder[run[q].job] = q
  BY <1>5, CalmTypes
<1>. QED
  BY <1>2, <1>5, <1>6

\* A run writes the row of its pipeline, and of the others nothing changes.
LEMMA RetriesStillFind ==
  ASSUME CalmInv, NEW p \in Runs, run[p].pc = "handling",
         state[PipelineOf(p)].task = TaskOf(p),
         \A y \in Pipelines \ {PipelineOf(p)} : state'[y] = state[y],
         \A j \in Jobs : Retries(j)' =>
           \/ Retries(j)
           \/ /\ j = run[p].job
              /\ state'[PipelineOf(p)].task = TaskOf(p) /\ state'[PipelineOf(p)].status = "retrying"
  PROVE  RetriesFind'
<1>1. SUFFICES ASSUME NEW x \in Pipelines, NEW t \in Tasks, Retries(<<x, t>>)'
               PROVE  state'[x].task = t /\ state'[x].status = "retrying"
  BY DEF RetriesFind
<1>2. <<x, t>> \in Jobs /\ run[p].job = <<PipelineOf(p), TaskOf(p)>>
  <2>1. TypeInv /\ PipelineTypes /\ run[p].pc # "idle"
    BY CalmTypes
  <2>2. run[p].job = <<PipelineOf(p), TaskOf(p)>>
    BY <2>1, Subject
  <2>. QED
    BY <2>2
<1>3. CASE Retries(<<x, t>>)
  <2>1. x # PipelineOf(p)
    BY <1>3, NoneRetries
  <2>. QED
    BY <1>3, <2>1 DEF CalmInv, RetriesFind
<1>4. CASE ~Retries(<<x, t>>)
  <2>1. <<x, t>> = <<PipelineOf(p), TaskOf(p)>>
    BY <1>1, <1>2, <1>4
  <2>. QED
    BY <1>1, <1>2, <1>4, <2>1
<1>. QED
  BY <1>3, <1>4

\* A run leaves its handler, and may bind the job of the next task.
LEMMA LeavesCalmly ==
  ASSUME Calm, CalmInv, NEW p \in Runs, run[p].pc = "handling",
         NEW where \in Settling, Goto(p, where), UNCHANGED <<holder, faults, recovered>>, BindsAtMost
  PROVE  /\ QueueCalm'
         /\ \A j \in Jobs : Retries(j)' => Retries(j) \/ (where = "retry" /\ j = run[p].job)
<1>1. /\ TypeInv /\ TypeOK /\ OnTime /\ LockMatchesHolder /\ CallsFit
      /\ run[p].job \in Jobs /\ row[run[p].job].status = "running"
  BY CalmTypes DEF Calm, CalmInv
<1>2. /\ run'[p].pc = where /\ run'[p].job = run[p].job
      /\ \A q \in Runs \ {p} : run'[q] = run[q]
  BY <1>1, GotoRun
<1>3. \A j \in Jobs : \/ row'[j] = row[j]
                      \/ /\ row[j].status = "absent" /\ row'[j].status = "queued"
                         /\ row'[j].lockedBy = NoWorker /\ row'[j].age = 0
  <2>1. CASE UNCHANGED row
    BY <2>1
  <2>2. ASSUME NEW k \in Jobs, NEW v \in Versions, Answer(k, v) = "created", Bind(k, v)
        PROVE  \A j \in Jobs : \/ row'[j] = row[j]
                               \/ /\ row[j].status = "absent" /\ row'[j].status = "queued"
                                  /\ row'[j].lockedBy = NoWorker /\ row'[j].age = 0
    <3>1. row[k].status = "absent" /\ row' = [row EXCEPT ![k] = FreshRow(v, "queued")]
      BY <2>2 DEF Answer, Bind
    <3>. QED
      BY <1>1, <3>1 DEF TypeOK, FreshRow
  <2>. QED
    BY <2>1, <2>2 DEF BindsAtMost
<1>4. LockMatchesHolder'
  BY <1>1, <1>3 DEF LockMatchesHolder
<1>5. OnTime'
  <2>1. ASSUME NEW q \in Runs, run'[q].pc # "idle" PROVE RunOnTime(q)'
    <3>1. run[q].pc # "idle"
      BY <1>2, <2>1
    <3>2. run[q].job \in Jobs /\ row[run[q].job].status = "running" /\ RunOnTime(q)
      BY <1>1, <3>1, CalmTypes DEF OnTime
    <3>3. row'[run[q].job] = row[run[q].job] /\ holder'[run[q].job] = holder[run[q].job]
      BY <1>3, <3>2
    <3>4. CASE q = p
      BY <1>1, <3>1, <3>2, <3>3, <3>4, GotoOnTime
    <3>5. CASE q # p
      BY <1>2, <3>2, <3>3, <3>5, UntouchedOnTime
    <3>. QED
      BY <3>4, <3>5
  <2>. QED
    BY <2>1 DEF OnTime
<1>6. LeasesAreBusy'
  <2>1. where # "idle" /\ run[p].pc # "idle"
    BY DEF Settling
  <2>. QED
    BY <1>2, <2>1, RunsGoOn
<1>7. ASSUME NEW j \in Jobs, Retries(j)' PROVE Retries(j) \/ (where = "retry" /\ j = run[p].job)
  <2>1. row'[j].status = "retrying" => row[j].status = "retrying"
    BY <1>3
  <2>2. ASSUME NEW q \in Runs, run'[q].pc = "retry", run'[q].job = j
        PROVE  Retries(j) \/ (where = "retry" /\ j = run[p].job)
    BY <1>2, <2>2 DEF Retries
  <2>. QED
    BY <1>7, <2>1, <2>2 DEF Retries
<1>. QED
  BY <1>4, <1>5, <1>6, <1>7 DEF QueueCalm

\* What is to be shown of a step, beside what holds of every step.
CalmNext == QueueCalm' /\ KindsAgree' /\ RetriesFind'

LEMMA KindsStay ==
  ASSUME CalmInv, local' = local \/ \E p \in Runs : Leave(p) \/ \E where : Move(p, where)
  PROVE  KindsAgree'
<1>1. local \in [Runs -> Locals]
  BY CalmTypes DEF PipelineTypes
<1>2. \A p \in Runs : local[p].kind # "unreachable"
  BY DEF CalmInv, KindsAgree
<1>3. NoLocal.kind = "fatal"
  BY DEF NoLocal
<1>4. CASE local' = local
  BY <1>2, <1>4 DEF KindsAgree
<1>5. ASSUME NEW p \in Runs, Leave(p) PROVE KindsAgree'
  <2>1. \A q \in Runs : local'[q] = NoLocal \/ local'[q] = local[q]
    BY <1>1, <1>5 DEF Leave
  <2>. QED
    BY <1>2, <1>3, <2>1 DEF KindsAgree
<1>6. ASSUME NEW p \in Runs, NEW where, Move(p, where) PROVE KindsAgree'
  <2>1. \A q \in Runs : local'[q].kind = local[q].kind
    BY <1>1, <1>6 DEF Move, Locals
  <2>. QED
    BY <1>2, <2>1 DEF KindsAgree
<1>. QED
  BY <1>4, <1>5, <1>6

\* A run that throws, or returns.
LEMMA ThrowsCalmly ==
  ASSUME Calm, CalmInv, NEW p \in Runs, run[p].pc = "handling", NEW retryable \in BOOLEAN,
         Throw(p, retryable), UNCHANGED <<holder, faults, recovered>>, row' = row
  PROVE  /\ QueueCalm' /\ KindsAgree'
         /\ \A j \in Jobs : Retries(j)' =>
               Retries(j) \/ (retryable /\ run[p].attempt < MaxAttempts /\ j = run[p].job)
<1>1. PICK where : where = AfterError(p, retryable)
  OBVIOUS
<1>2. /\ where \in Settling
      /\ where = "retry" => retryable /\ run[p].attempt < MaxAttempts
  BY <1>1 DEF AfterError, Settling
<1>3. Goto(p, where) /\ Leave(p) /\ BindsAtMost
  BY <1>1 DEF Throw, BindsAtMost
<1>. QED
  BY <1>2, <1>3, LeavesCalmly, KindsStay

LEMMA ReturnsCalmly ==
  ASSUME Calm, CalmInv, NEW p \in Runs, run[p].pc = "handling",
         Return(p), UNCHANGED <<holder, faults, recovered>>, BindsAtMost
  PROVE  /\ QueueCalm' /\ KindsAgree'
         /\ \A j \in Jobs : Retries(j)' => Retries(j)
<1>1. "complete" \in Settling /\ Goto(p, "complete") /\ Leave(p)
  BY DEF Return, Settling
<1>. QED
  BY <1>1, LeavesCalmly, KindsStay

\* No state row is written.
LEMMA NothingWritten ==
  ASSUME CalmInv, state' = state, \A j \in Jobs : Retries(j)' => Retries(j)
  PROVE  RetriesFind'
<1>1. \A x \in Pipelines, t \in Tasks : <<x, t>> \in Jobs
  OBVIOUS
<1>. QED
  BY <1>1 DEF CalmInv, RetriesFind

\* The writes of a state row, by the compare-and-set.
LEMMA Written ==
  ASSUME CalmInv, NEW p \in Runs, run[p].pc = "handling", NEW statuses, Matches(p, statuses),
         \/ \E t \in Tasks, status \in Status : SetState(p, t, status)
         \/ RecordCompletion(p) /\ At(p, "save"),
         \A j \in Jobs : Retries(j)' => Retries(j)
  PROVE  RetriesFind'
<1>1. TypeInv /\ PipelineTypes /\ run[p].pc # "idle" /\ Successors
  BY CalmTypes DEF CalmInv, PipelineInv
<1>2. state[PipelineOf(p)].task = TaskOf(p)
  BY Matched
<1>3. \A y \in Pipelines \ {PipelineOf(p)} : state'[y] = state[y]
  BY <1>1, SetStateEffect, CompletionEffect
<1>. QED
  BY <1>2, <1>3, RetriesStillFind

\* The job that follows is one of the queue's.
LEMMA NextJobKnown ==
  ASSUME PipelineInv, NEW p \in Runs, At(p, "enqueue")
  PROVE  NextJob(p) \in Jobs /\ NextVersion(p) \in Versions
<1>1. /\ TypeInv /\ PipelineTypes /\ ClaimsHeld /\ Successors /\ VersionsCounted
      /\ run[p].pc = "handling" /\ local[p].at = "enqueue"
  BY DEF PipelineInv, At
<1>2. /\ PipelineOf(p) \in Pipelines /\ TaskOf(p) \in Tasks
      /\ local[p].version \in Nat /\ local[p].next \in Tasks \cup {Done}
  BY <1>1, Subject DEF Locals
<1>3. local[p].next \in Tasks
  BY <1>1, <1>2 DEF Successors, At
<1>4. local[p].version + 1 <= state[PipelineOf(p)].version
  BY <1>1, <1>2 DEF ClaimsHeld, Holding, PipelineTypes, StateRow
<1>5. state[PipelineOf(p)].version \in Versions \cup {0}
  BY <1>1, <1>2, StateVersions
<1>. QED
  BY <1>2, <1>3, <1>4, <1>5 DEF NextJob, NextVersion, Versions

\* The steps of _execute.
LEMMA ExecuteCalmly ==
  ASSUME Calm, CalmInv, NEW p \in Runs, ExecuteStep(p)
  PROVE  CalmNext
<1>1. /\ TypeInv /\ PipelineTypes /\ Successors
      /\ local \in [Runs -> Locals]
      /\ \A q \in Runs : local[q].kind # "unreachable"
  BY CalmTypes DEF CalmInv, PipelineInv, PipelineTypes, KindsAgree
<1>2. run[p].pc = "handling"
  BY DEF ExecuteStep, At, ReadState, ClaimState, TaskReturns, TaskThrows, CompleteState, EnqueueNext,
         FailState
<1>3. run[p].pc # "idle" /\ PipelineOf(p) \in Pipelines /\ TaskOf(p) \in Tasks
      /\ run[p].job = <<PipelineOf(p), TaskOf(p)>> /\ run[p].job \in Jobs
  BY <1>1, <1>2, Subject
<1>4. ASSUME UNCHANGED <<vars, state>>, KindsAgree' PROVE CalmNext
  <2>1. QueueCalm' /\ \A j \in Jobs : Retries(j)' => Retries(j)
    BY <1>4, QueueRests
  <2>. QED
    BY <1>4, <2>1, NothingWritten DEF CalmNext
<1>5. CASE ReadState(p)
  <2>1. \A q \in Runs : local'[q].kind = local[q].kind
    BY <1>1, <1>5 DEF ReadState, Locals
  <2>2. KindsAgree'
    BY <1>1, <2>1 DEF KindsAgree
  <2>. QED
    BY <1>4, <1>5, <2>2 DEF ReadState
<1>6. CASE ClaimState(p)
  <2>1. CASE Matches(p, Waiting)
    <3>1. \A q \in Runs : local'[q].kind = local[q].kind
      BY <1>1, <1>6, <2>1 DEF ClaimState, Locals
    <3>2. KindsAgree'
      BY <1>1, <3>1 DEF KindsAgree
    <3>3. SetState(p, TaskOf(p), "running") /\ UNCHANGED vars /\ "running" \in Status
      BY <1>6, <2>1 DEF ClaimState, rowVars, vars, Status
    <3>4. QueueCalm' /\ \A j \in Jobs : Retries(j)' => Retries(j)
      BY <3>3, QueueRests
    <3>5. RetriesFind'
      BY <1>2, <1>3, <2>1, <3>3, <3>4, Written
    <3>. QED
      BY <3>2, <3>4, <3>5 DEF CalmNext
  <2>2. CASE ~Matches(p, Waiting)
    <3>1. Throw(p, FALSE) /\ state' = state /\ UNCHANGED <<holder, faults, recovered>> /\ row' = row
      BY <1>6, <2>2 DEF ClaimState, rowVars
    <3>2. QueueCalm' /\ KindsAgree' /\ \A j \in Jobs : Retries(j)' => Retries(j)
      BY <1>2, <3>1, ThrowsCalmly
    <3>. QED
      BY <3>1, <3>2, NothingWritten DEF CalmNext
  <2>. QED
    BY <2>1, <2>2
<1>7. CASE TaskReturns(p)
  <2>1. \A q \in Runs : local'[q].kind = local[q].kind
    BY <1>1, <1>7 DEF TaskReturns, Locals
  <2>2. KindsAgree'
    BY <1>1, <2>1 DEF KindsAgree
  <2>. QED
    BY <1>4, <1>7, <2>2 DEF TaskReturns
<1>8. ASSUME NEW kind \in ErrorKinds, TaskThrows(p, kind) PROVE CalmNext
  <2>1. kind # "unreachable"
    BY DEF Calm
  <2>2. \A q \in Runs : local'[q].kind = local[q].kind \/ local'[q].kind = kind
    BY <1>1, <1>8 DEF TaskThrows, Locals
  <2>3. KindsAgree'
    BY <1>1, <2>1, <2>2 DEF KindsAgree
  <2>. QED
    BY <1>4, <1>8, <2>3 DEF TaskThrows
<1>9. CASE CompleteState(p)
  <2>1. CASE Matches(p, {"running"}) /\ local[p].next = Done
    <3>1. /\ RecordCompletion(p) /\ Return(p) /\ UNCHANGED <<holder, faults, recovered>> /\ BindsAtMost
          /\ At(p, "save")
      BY <1>9, <2>1 DEF CompleteState, rowVars, BindsAtMost
    <3>2. QueueCalm' /\ KindsAgree' /\ \A j \in Jobs : Retries(j)' => Retries(j)
      BY <1>2, <3>1, ReturnsCalmly
    <3>3. RetriesFind'
      BY <1>2, <2>1, <3>1, <3>2, Written
    <3>. QED
      BY <3>2, <3>3 DEF CalmNext
  <2>2. CASE Matches(p, {"running"}) /\ local[p].next # Done
    <3>1. /\ RecordCompletion(p) /\ Move(p, "enqueue") /\ UNCHANGED vars /\ At(p, "save")
      BY <1>9, <2>2 DEF CompleteState, rowVars, vars
    <3>2. QueueCalm' /\ KindsAgree' /\ \A j \in Jobs : Retries(j)' => Retries(j)
      BY <3>1, QueueRests, KindsStay
    <3>3. RetriesFind'
      BY <1>2, <2>2, <3>1, <3>2, Written
    <3>. QED
      BY <3>2, <3>3 DEF CalmNext
  <2>3. CASE ~Matches(p, {"running"})
    <3>1. UNCHANGED <<vars, state>> /\ local' = [local EXCEPT ![p].at = "fail", ![p].kind = "fatal"]
      BY <1>9, <2>3 DEF CompleteState, rowVars, vars
    <3>2. \A q \in Runs : local'[q].kind = local[q].kind \/ local'[q].kind = "fatal"
      BY <1>1, <3>1 DEF Locals
    <3>. QED
      BY <1>1, <1>4, <3>1, <3>2 DEF KindsAgree
  <2>. QED
    BY <2>1, <2>2, <2>3
<1>10. CASE EnqueueNext(p)
  <2>1. CASE Answer(NextJob(p), NextVersion(p)) = "conflict"
    <3>1. UNCHANGED <<vars, state>> /\ local' = [local EXCEPT ![p].at = "fail", ![p].kind = "fatal"]
      BY <1>10, <2>1 DEF EnqueueNext, vars
    <3>2. \A q \in Runs : local'[q].kind = local[q].kind \/ local'[q].kind = "fatal"
      BY <1>1, <3>1 DEF Locals
    <3>. QED
      BY <1>1, <1>4, <3>1, <3>2 DEF KindsAgree
  <2>2. CASE Answer(NextJob(p), NextVersion(p)) # "conflict"
    <3>1. /\ Return(p) /\ UNCHANGED <<holder, faults, recovered>> /\ state' = state
          /\ \/ Answer(NextJob(p), NextVersion(p)) = "created" /\ Bind(NextJob(p), NextVersion(p))
             \/ row' = row
      BY <1>10, <2>2 DEF EnqueueNext
    <3>2. BindsAtMost
      <4>1. PipelineInv /\ At(p, "enqueue")
        BY <1>10 DEF EnqueueNext, CalmInv
      <4>2. NextJob(p) \in Jobs /\ NextVersion(p) \in Versions
        BY <4>1, NextJobKnown
      <4>. QED
        BY <3>1, <4>2 DEF BindsAtMost
    <3>3. QueueCalm' /\ KindsAgree' /\ \A j \in Jobs : Retries(j)' => Retries(j)
      BY <1>2, <3>1, <3>2, ReturnsCalmly
    <3>. QED
      BY <3>1, <3>3, NothingWritten DEF CalmNext
  <2>. QED
    BY <2>1, <2>2
<1>11. CASE FailState(p)
  <2>1. CASE Matches(p, {"running"})
    <3>1. PICK again \in BOOLEAN : again <=> QueueRetries(local[p].kind)
      BY DEF QueueRetries
    <3>2. PICK status : status = FailureStatus(p)
      OBVIOUS
    <3>3. /\ SetState(p, TaskOf(p), status) /\ Throw(p, QueueRetries(local[p].kind))
          /\ UNCHANGED <<holder, faults, recovered>> /\ row' = row
      BY <1>11, <2>1, <3>2 DEF FailState, rowVars
    <3>4. /\ status \in Status
          /\ again /\ run[p].attempt < MaxAttempts => status = "retrying"
      <4>1. local[p].kind # "unreachable"
        BY <1>1
      <4>. QED
        BY <3>1, <3>2, <4>1 DEF FailureStatus, PipelineRetries, QueueRetries, Status, Waiting, Terminal
    <3>5. Throw(p, again)
      <4>1. QueueRetries(local[p].kind) = again
        BY <3>1 DEF QueueRetries
      <4>. QED
        BY <3>3, <4>1
    <3>6. /\ QueueCalm' /\ KindsAgree'
          /\ \A j \in Jobs : Retries(j)' =>
                Retries(j) \/ (again /\ run[p].attempt < MaxAttempts /\ j = run[p].job)
      BY <1>2, <3>3, <3>5, ThrowsCalmly
    <3>7. /\ state'[PipelineOf(p)].task = TaskOf(p) /\ state'[PipelineOf(p)].status = status
          /\ \A y \in Pipelines \ {PipelineOf(p)} : state'[y] = state[y]
      BY <1>1, <1>3, <3>3, <3>4, SetStateEffect
    <3>8. state[PipelineOf(p)].task = TaskOf(p)
      BY <2>1, Matched
    <3>9. RetriesFind'
      BY <1>2, <3>4, <3>6, <3>7, <3>8, RetriesStillFind
    <3>. QED
      BY <3>6, <3>9 DEF CalmNext
  <2>2. CASE ~Matches(p, {"running"})
    <3>1. Throw(p, FALSE) /\ state' = state /\ UNCHANGED <<holder, faults, recovered>> /\ row' = row
      BY <1>11, <2>2 DEF FailState, rowVars
    <3>2. QueueCalm' /\ KindsAgree' /\ \A j \in Jobs : Retries(j)' => Retries(j)
      BY <1>2, <3>1, ThrowsCalmly
    <3>. QED
      BY <3>1, <3>2, NothingWritten DEF CalmNext
  <2>. QED
    BY <2>1, <2>2
<1>. QED
  BY <1>5, <1>6, <1>7, <1>8, <1>9, <1>10, <1>11 DEF ExecuteStep

\* Claims and settlements.
LEMMA QueueCalmly ==
  ASSUME Calm, CalmInv, NEW p \in Runs, QueueStep(p)
  PROVE  CalmNext
<1>1. /\ TypeInv /\ TypeOK /\ PipelineTypes
      /\ \A j \in Jobs : holder[j] \in Runs \cup {NoRun}
      /\ \A j \in Jobs : row[j].status = "running" <=> holder[j] # NoRun
  BY CalmTypes
<1>2. UNCHANGED pipeVars /\ state' = state /\ KindsAgree'
  BY KindsStay DEF QueueStep, pipeVars
<1>3. \A q \in Runs : run[q].pc # "idle" => holder[run[q].job] = q
  BY DEF CalmInv, LeasesAreBusy
<1>4. \A j \in Jobs : holder[j] # NoRun => run[holder[j]].pc # "idle" /\ run[holder[j]].job = j
  BY DEF CalmInv, LeasesAreBusy
<1>5. ASSUME LockMatchesHolder', OnTime', LeasesAreBusy', \A j \in Jobs : Retries(j)' => Retries(j)
      PROVE  CalmNext
  BY <1>2, <1>5, NothingWritten DEF CalmNext, QueueCalm
<1>6. ASSUME NEW j \in Jobs, Claim(p, j) PROVE CalmNext
  <2>1. LockMatchesHolder' /\ OnTime'
    BY <1>6, QueueGoesOn DEF Next
  <2>2. /\ run[p].pc = "idle" /\ row[j].status # "running"
        /\ row'[j].status = "running" /\ run'[p].pc = "handling" /\ run'[p].job = j /\ holder'[j] = p
        /\ \A k \in Jobs \ {j} : row'[k] = row[k] /\ holder'[k] = holder[k]
        /\ \A q \in Runs \ {p} : run'[q] = run[q]
    <3>1. row[j].status \in Waiting
      BY <1>1, <1>6, ClaimEffect
    <3>2. row[j].status # "running"
      BY <3>1 DEF Waiting
    <3>. QED
      BY <1>1, <1>6, <3>2, ClaimEffect
  <2>3. holder[j] = NoRun
    BY <1>1, <2>2
  <2>4. \A q \in Runs : run[q].pc # "idle" => run[q].job \in Jobs \ {j}
    <3>1. \A q \in Runs : run[q].pc # "idle" => run[q].job \in Jobs /\ row[run[q].job].status = "running"
      BY CalmTypes
    <3>. QED
      BY <2>2, <3>1
  <2>5. LeasesAreBusy'
    <3>1. ASSUME NEW q \in Runs, run'[q].pc # "idle" PROVE holder'[run'[q].job] = q
      BY <1>3, <2>2, <2>4, <3>1
    <3>2. ASSUME NEW k \in Jobs, holder'[k] # NoRun
          PROVE  run'[holder'[k]].pc # "idle" /\ run'[holder'[k]].job = k
      <4>1. CASE k = j
        BY <2>2, <4>1
      <4>2. CASE k # j
        <5>1. holder'[k] = holder[k] /\ holder[k] \in Runs /\ run[holder[k]].pc # "idle"
          BY <1>1, <1>4, <2>2, <3>2, <4>2
        <5>2. holder[k] # p
          BY <2>2, <5>1
        <5>. QED
          BY <1>4, <2>2, <5>1, <5>2, <3>2
      <4>. QED
        BY <4>1, <4>2
    <3>. QED
      BY <3>1, <3>2 DEF LeasesAreBusy
  <2>6. \A k \in Jobs : Retries(k)' => Retries(k)
    <3>1. ASSUME NEW k \in Jobs, Retries(k)' PROVE Retries(k)
      <4>1. CASE row'[k].status = "retrying"
        <5>1. k # j
          BY <2>2, <4>1
        <5>. QED
          BY <2>2, <4>1, <5>1 DEF Retries
      <4>2. ASSUME NEW q \in Runs, run'[q].pc = "retry", run'[q].job = k PROVE Retries(k)
        <5>1. q # p
          BY <2>2, <4>2
        <5>. QED
          BY <2>2, <4>2, <5>1 DEF Retries
      <4>. QED
        BY <3>1, <4>1, <4>2 DEF Retries
    <3>. QED
      BY <3>1
  <2>. QED
    BY <1>5, <2>1, <2>5, <2>6
<1>7. CASE Settle(p)
  <2>1. LockMatchesHolder' /\ OnTime'
    BY <1>7, QueueGoesOn DEF Next, RunStep
  <2>2. /\ run[p].pc \in Settling /\ Write(p) /\ End(p) /\ run[p].pc # "idle"
    BY <1>7 DEF Settle, Settling
  <2>3. PICK j \in Jobs : j = run[p].job
    BY <2>2, CalmTypes
  <2>4. /\ row'[j].status = "retrying" <=> run[p].pc = "retry"
        /\ holder'[j] = NoRun
        /\ \A k \in Jobs \ {j} : row'[k] = row[k] /\ holder'[k] = holder[k]
    BY <1>1, <2>2, <2>3, WriteEffect
  <2>5. run'[p] = Idle /\ Idle.pc = "idle" /\ \A q \in Runs \ {p} : run'[q] = run[q]
    BY <1>1, <2>2, EndRun DEF Idle
  <2>6. holder[j] = p
    BY <1>3, <2>2, <2>3
  <2>7. LeasesAreBusy'
    <3>1. ASSUME NEW q \in Runs, run'[q].pc # "idle" PROVE holder'[run'[q].job] = q
      <4>1. q # p /\ run'[q] = run[q]
        BY <2>5, <3>1
      <4>2. run[q].job \in Jobs /\ holder[run[q].job] = q
        BY <3>1, <4>1, CalmTypes
      <4>3. run[q].job # j
        BY <2>6, <4>1, <4>2
      <4>. QED
        BY <2>4, <4>1, <4>2, <4>3
    <3>2. ASSUME NEW k \in Jobs, holder'[k] # NoRun
          PROVE  run'[holder'[k]].pc # "idle" /\ run'[holder'[k]].job = k
      <4>1. k # j /\ holder'[k] = holder[k]
        BY <2>4, <3>2
      <4>2. holder[k] \in Runs /\ run[holder[k]].pc # "idle" /\ run[holder[k]].job = k
        BY <1>1, <1>4, <3>2, <4>1
      <4>3. holder[k] # p
        BY <2>3, <4>1, <4>2
      <4>. QED
        BY <2>5, <4>1, <4>2, <4>3
    <3>. QED
      BY <3>1, <3>2 DEF LeasesAreBusy
  <2>8. \A k \in Jobs : Retries(k)' => Retries(k)
    <3>1. ASSUME NEW k \in Jobs, Retries(k)' PROVE Retries(k)
      <4>1. CASE row'[k].status = "retrying"
        <5>1. CASE k = j
          BY <2>2, <2>3, <2>4, <4>1, <5>1 DEF Retries
        <5>2. CASE k # j
          BY <2>4, <4>1, <5>2 DEF Retries
        <5>. QED
          BY <5>1, <5>2
      <4>2. ASSUME NEW q \in Runs, run'[q].pc = "retry", run'[q].job = k PROVE Retries(k)
        <5>1. q # p
          BY <2>5, <4>2
        <5>. QED
          BY <2>5, <4>2, <5>1 DEF Retries
      <4>. QED
        BY <3>1, <4>1, <4>2 DEF Retries
    <3>. QED
      BY <3>1
  <2>. QED
    BY <1>5, <2>1, <2>7, <2>8
<1>8. CASE LockConflict(p)
  \* Whoever settles has the lease, and so the lock.
  <2>1. run[p].pc \in Settling /\ run[p].pc # "idle" /\ ~OwnsLock(p)
    BY <1>8 DEF LockConflict, Settling
  <2>2. run[p].job \in Jobs /\ holder[run[p].job] = p /\ row[run[p].job].status = "running"
    BY <2>1, CalmTypes
  <2>3. row[run[p].job].lockedBy = WorkerIdOf[p]
    <3>1. LockMatchesHolder /\ p # NoRun
      BY CalmTypes DEF CalmInv
    <3>. QED
      BY <2>2, <3>1 DEF LockMatchesHolder
  <2>. QED
    BY <2>1, <2>2, <2>3 DEF OwnsLock
<1>9. ASSUME NEW retryable \in BOOLEAN, StoreFault(p, retryable) PROVE CalmNext
  BY <1>9, NothingFails DEF StoreFault
<1>10. CASE NextRequest(p)
  <2>1. LockMatchesHolder' /\ OnTime'
    BY <1>10, QueueGoesOn DEF Next, RunStep
  <2>2. row' = row /\ holder' = holder /\ run' = [run EXCEPT ![p] = Requested(run[p])]
    BY <1>10 DEF NextRequest, rowVars
  <2>3. \A q \in Runs : run'[q].job = run[q].job /\ run'[q].pc = run[q].pc
    BY <1>1, <2>2, RequestedRun DEF TypeOK
  <2>4. LeasesAreBusy'
    BY <2>2, <2>3, RunsGoOn
  <2>5. \A k \in Jobs : Retries(k)' => Retries(k)
    BY <2>2, <2>3 DEF Retries
  <2>. QED
    BY <1>5, <2>1, <2>4, <2>5
<1>. QED
  BY <1>6, <1>7, <1>8, <1>9, <1>10 DEF QueueStep

\* Time passes, and no job is taken back from a live run.
LEMMA BackgroundCalmly ==
  ASSUME Calm, CalmInv, Background
  PROVE  CalmNext
<1>1. TypeInv /\ state' = state /\ KindsAgree'
  BY CalmTypes, KindsStay DEF Background, pipeVars
<1>2. CASE RecoverStale
  <2>1. PICK j \in Jobs : Stale(j)
    BY <1>2 DEF RecoverStale
  <2>2. row[j].status = "running" /\ holder[j] # NoRun /\ holder[j] \in Runs
    BY <2>1, CalmTypes DEF Stale
  <2>3. run[holder[j]].pc # "idle" /\ run[holder[j]].job = j
    BY <2>2 DEF CalmInv, LeasesAreBusy
  <2>4. CallsFit /\ OnTime
    BY DEF Calm, CalmInv
  <2>. QED
    BY <1>1, <2>1, <2>2, <2>3, <2>4, BusyIsFresh
<1>3. CASE Tick
  <2>1. LockMatchesHolder' /\ OnTime'
    BY <1>3, QueueGoesOn DEF Next
  <2>2. /\ \A j \in Jobs : row'[j].status = row[j].status
        /\ \A q \in Runs : run'[q].pc = run[q].pc /\ run'[q].job = run[q].job
        /\ holder' = holder
    BY <1>1, <1>3, TickEffect
  <2>3. LeasesAreBusy'
    BY <2>2, RunsGoOn
  <2>4. \A k \in Jobs : Retries(k)' => Retries(k)
    BY <2>2 DEF Retries
  <2>. QED
    BY <1>1, <2>1, <2>3, <2>4, NothingWritten DEF CalmNext, QueueCalm
<1>. QED
  BY <1>2, <1>3 DEF Background

\* The dispatcher creates a pipeline and its first job.
LEMMA DispatchCalmly ==
  ASSUME Calm, CalmInv, NEW x \in Pipelines, CreateState(x) \/ EnqueueFirst(x)
  PROVE  CalmNext
<1>1. /\ TypeInv /\ PipelineTypes /\ Created /\ VersionsCounted /\ local' = local /\ KindsAgree'
  BY CalmTypes, KindsStay DEF CalmInv, PipelineInv, CreateState, EnqueueFirst
<1>2. CASE CreateState(x)
  <2>1. UNCHANGED vars /\ dispatch[x] = "idle" /\ \A y \in Pipelines \ {x} : state'[y] = state[y]
    BY <1>1, <1>2 DEF CreateState, PipelineTypes
  <2>2. QueueCalm' /\ \A j \in Jobs : Retries(j)' => Retries(j)
    BY <2>1, QueueRests
  <2>3. state[x].status # "retrying"
    BY <1>1, <2>1 DEF Created, NoState
  <2>4. RetriesFind'
    <3>1. ASSUME NEW y \in Pipelines, NEW t \in Tasks, Retries(<<y, t>>)'
          PROVE  state'[y].task = t /\ state'[y].status = "retrying"
      <4>1. Retries(<<y, t>>)
        BY <2>2, <3>1
      <4>2. state[y].task = t /\ state[y].status = "retrying"
        BY <4>1 DEF CalmInv, RetriesFind
      <4>. QED
        BY <2>1, <2>3, <4>2
    <3>. QED
      BY <3>1 DEF RetriesFind
  <2>. QED
    BY <1>1, <2>2, <2>4 DEF CalmNext
<1>3. CASE EnqueueFirst(x)
  <2>1. Enqueue(<<x, 1>>, state[x].version) /\ state' = state /\ dispatch[x] = "created"
    BY <1>3 DEF EnqueueFirst
  <2>2. <<x, 1>> \in Jobs /\ state[x].version \in Bodies
    <3>1. state[x].version \in Versions
      BY <1>1, <2>1, StateVersions DEF Created
    <3>. QED
      BY <3>1, VersionAssumption DEF Tasks
  <2>3. LockMatchesHolder' /\ OnTime'
    BY <2>1, <2>2, QueueGoesOn DEF Next
  <2>4. PICK j \in Jobs : j = <<x, 1>>
    BY <2>2
  <2>5. /\ row'[j].status = "queued" /\ \A k \in Jobs \ {j} : row'[k] = row[k]
        /\ run' = run /\ holder' = holder
    BY <1>1, <2>1, <2>2, <2>4, EnqueueEffect
  <2>6. LeasesAreBusy'
    BY <2>5, RunsGoOn
  <2>7. \A k \in Jobs : Retries(k)' => Retries(k)
    <3>1. \A k \in Jobs : row'[k].status = "retrying" => row[k].status = "retrying"
      BY <2>5
    <3>. QED
      BY <2>5, <3>1 DEF Retries
  <2>. QED
    BY <1>1, <2>1, <2>3, <2>6, <2>7, NothingWritten DEF CalmNext, QueueCalm
<1>. QED
  BY <1>2, <1>3

LEMMA CalmStep == Calm /\ CalmInv /\ [PipelineNext]_allVars => CalmInv'
<1>. SUFFICES ASSUME Calm, CalmInv, [PipelineNext]_allVars PROVE CalmInv'
  OBVIOUS
<1>1. PipelineInv'
  BY PipelineStep DEF CalmInv
<1>2. CASE PipelineNext
  <2>1. \A x \in Pipelines : ~DispatchCrash(x)
    BY NothingFails DEF DispatchCrash
  <2>2. \A p \in Runs : ~PipelineCrash(p) /\ \A kind \in ErrorKinds : ~ExecuteFault(p, kind)
    BY NothingFails DEF PipelineCrash, Crash, ExecuteFault
  <2>3. CalmNext
    BY <1>2, <2>1, <2>2, DispatchCalmly, ExecuteCalmly, QueueCalmly, BackgroundCalmly DEF PipelineNext
  <2>. QED
    BY <1>1, <2>3 DEF CalmNext, QueueCalm, CalmInv
<1>3. CASE UNCHANGED allVars
  <2>1. UNCHANGED vars /\ local' = local /\ state' = state
    BY <1>3 DEF allVars, pipeVars
  <2>. QED
    BY <1>1, <2>1, QueueRests, KindsStay, NothingWritten DEF QueueCalm, CalmInv
<1>. QED
  BY <1>2, <1>3

\* Where nothing crashes and the job of a live run does not go stale, and for the
\* errors that the queue and the pipeline agree to repeat, a job that waits for its
\* retry finds its pipeline retrying the same task (_execute; processNext).
THEOREM RetriesFindPipelines ==
  ASSUME FaultBudget = 0, "unreachable" \notin ErrorKinds, CallsFit
  PROVE  PipelineSpec => []RetryFindsPipeline
<1>1. Calm
  BY DEF Calm
<1>2. PipelineInit => CalmInv
  <2>. SUFFICES ASSUME PipelineInit PROVE CalmInv
    OBVIOUS
  <2>1. /\ \A p \in Runs : run[p].pc = "idle" /\ local[p].kind = "fatal"
        /\ \A j \in Jobs : holder[j] = NoRun /\ row[j].status = "absent" /\ row[j].lockedBy = NoWorker
                           /\ row[j].age = 0
    BY DEF PipelineInit, Init, Idle, NoLocal, NoRow, FreshRow
  <2>2. PipelineInv
    BY PipelineInitially
  <2>3. LockMatchesHolder /\ OnTime /\ LeasesAreBusy /\ KindsAgree
    BY <2>1 DEF LockMatchesHolder, OnTime, LeasesAreBusy, KindsAgree
  <2>4. RetriesFind
    <3>1. \A x \in Pipelines, t \in Tasks : <<x, t>> \in Jobs
      OBVIOUS
    <3>. QED
      BY <2>1, <3>1 DEF RetriesFind, Retries
  <2>. QED
    BY <2>2, <2>3, <2>4 DEF CalmInv
<1>3. CalmInv /\ [PipelineNext]_allVars => CalmInv'
  BY <1>1, CalmStep
<1>4. CalmInv => RetryFindsPipeline
  BY DEF CalmInv, RetriesFind, Retries, RetryFindsPipeline, Resumable
<1>. QED
  BY <1>2, <1>3, <1>4, PTL DEF PipelineSpec
=============================================================================

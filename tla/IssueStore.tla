----------------------------- MODULE IssueStore -----------------------------
(***************************************************************************)
(* Forming issues: the tasks T04 (match and mutate), T05 (title) and T06   *)
(* (one-liner) of the pipelines of one company, and a human who completes  *)
(* issues, over PostgresIssueStore.                                        *)
(*                                                                         *)
(* Every host holds the whole aggregate in memory.  It reads the tables    *)
(* once, when it starts; a mutation changes the memory at once and is then *)
(* written row by row, each row by a statement of its own.  What makes a   *)
(* retry harmless (mutations by match decision, generated texts,           *)
(* completions) is in memory only.                                         *)
(*                                                                         *)
(* A pipeline is inside at most one run of a task (AiPipeline), and a run  *)
(* whose host dies is not resumed.  T07 to T10 are not in this module; of  *)
(* them only T09 changes an issue, whose priority and version it writes.   *)
(***************************************************************************)
EXTENDS Naturals, FiniteSets

CONSTANTS
  Hosts,
  Pipelines,
  Articles,       \* published articles, which do not change
  Ids,            \* a bound: identifiers of issues
  RestartBudget,  \* a bound: restarts of hosts
  FaultBudget,    \* a bound: calls that fail
  NoHost, NoId, NoPipeline, NewIssue

ASSUME BudgetAssumption == RestartBudget \in Nat /\ FaultBudget \in Nat
ASSUME HostAssumption == IsFiniteSet(Hosts)
ASSUME NullAssumption ==
  /\ NoHost \notin Hosts /\ NoPipeline \notin Pipelines
  /\ {NoId, NewIssue} \cap Ids = {} /\ NoId # NewIssue

VARIABLES
  about,    \* the article that a pipeline was started for
  mem,      \* per host: what its PostgresIssueStore holds in memory
  db,       \* the tables issues, issue_articles and issue_developments
  target,   \* T04 rows of stage_runs: the decision that a pipeline recorded
  decided,  \* the oldest of these rows for an article
  stage,    \* the task a pipeline waits for or is in
  issue,    \* the issue_id in the payload of its next job
  run,      \* the local variables of the task
  reader,   \* the client of a human who completes an issue
  faults,
  life,     \* history: restarts per host
  formed,   \* history: issues created from a match decision
  applied,  \* history: pipelines that applied a decision, not a repetition
  failed    \* history: pipelines a write of whose issue failed

vars == <<about, mem, db, target, decided, stage, issue, run, reader,
          faults, life, formed, applied, failed>>

Fields == {"title", "oneLiner"}

\* "active" stands for baru, berkembang and dipantau.
Row == [status : {"absent", "active", "finished"}, version : Nat, text : SUBSET Fields]
NoRow == [status |-> "absent", version |-> 0, text |-> {}]

\* The latest development of an issue is known by how many there are, and so
\* is the development a text was generated for (0: none was).
Memory == [row : [Ids -> Row], evidence : [Ids -> SUBSET Articles],
           developments : [Ids -> SUBSET Articles],
           mutation : [Pipelines -> Ids \cup {NoId}],
           generated : [Ids -> [Fields -> Nat]],
           completions : SUBSET Ids]

Tables == [row : [Ids -> Row], evidence : [Ids -> SUBSET Articles],
           developments : [Ids -> SUBSET Articles]]

Stages == {"T04", "T05", "T06", "done", "dead"}
Run == [at : {"queued", "look up", "list", "sources", "create", "apply", "read", "write",
              "save issue", "save article", "save development"},
        host : Hosts \cup {NoHost}, match : Pipelines \cup {NoPipeline},
        candidates : SUBSET Ids, verdict : Ids \cup {NewIssue}, id : Ids \cup {NoId},
        row : Row, dev : Nat]
\* Where and when the human read the issue, and what is being written for him.
Reader == [at : {"idle", "opened", "save"}, host : Hosts \cup {NoHost},
           id : Ids \cup {NoId}, life : Nat, row : Row, evidence : SUBSET Articles,
           saver : Hosts \cup {NoHost}, saved : Row]

\* _hydrate
Hydrated ==
  [row |-> db.row, evidence |-> db.evidence, developments |-> db.developments,
   mutation |-> [m \in Pipelines |-> NoId],
   generated |-> [i \in Ids |-> [f \in Fields |-> 0]],
   completions |-> {}]

NoRun == [at |-> "queued", host |-> NoHost, match |-> NoPipeline, candidates |-> {},
          verdict |-> NewIssue, id |-> NoId, row |-> NoRow, dev |-> 0]
NoReader == [at |-> "idle", host |-> NoHost, id |-> NoId, life |-> 0,
             row |-> NoRow, evidence |-> {}, saver |-> NoHost, saved |-> NoRow]

Init ==
  /\ about \in [Pipelines -> Articles]
  /\ db = [row |-> [i \in Ids |-> NoRow], evidence |-> [i \in Ids |-> {}],
           developments |-> [i \in Ids |-> {}]]
  /\ mem = [h \in Hosts |-> Hydrated]
  /\ target = [x \in Pipelines |-> NoId]
  /\ decided = [a \in Articles |-> NoPipeline]
  /\ stage = [x \in Pipelines |-> "T04"]
  /\ issue = [x \in Pipelines |-> NoId]
  /\ run = [x \in Pipelines |-> NoRun]
  /\ reader = NoReader
  /\ faults = 0
  /\ life = [h \in Hosts |-> 0]
  /\ formed = [x \in Pipelines |-> {}]
  /\ applied = {}
  /\ failed = {}

At(x, where) == run[x].at = where
Memo(x) == mem[run[x].host]
SetMemo(x, m) == mem' = [mem EXCEPT ![run[x].host] = m]
Active(m, i) == i \in Ids /\ m.row[i].status = "active"

After(t) == CASE t = "T04" -> "T05" [] t = "T05" -> "T06" [] t = "T06" -> "done"

\* Mutant: the task goes on without its host.
FinishOnHost(x, i) ==
  /\ stage' = [stage EXCEPT ![x] = After(@)]
  /\ issue' = [issue EXCEPT ![x] = i]
  /\ run' = [run EXCEPT ![x].at = "queued"]

\* The task returns; its pipeline and the next job are recorded.
Finish(x, i) ==
  /\ stage' = [stage EXCEPT ![x] = After(@)]
  /\ issue' = [issue EXCEPT ![x] = i]
  /\ run' = [run EXCEPT ![x] = NoRun]

\* The task throws an AiConfigurationError, which nothing retries.
Die(x) ==
  /\ stage' = [stage EXCEPT ![x] = "dead"]
  /\ run' = [run EXCEPT ![x] = NoRun]
  /\ UNCHANGED issue

Continue(x, r) == run' = [run EXCEPT ![x] = r] /\ UNCHANGED <<stage, issue>>

Start(x, h) ==
  /\ At(x, "queued")
  /\ stage[x] \in {"T04", "T05", "T06"}
  /\ Continue(x, [NoRun EXCEPT !.host = h, !.id = issue[x],
                               !.at = IF stage[x] = "T04" THEN "look up" ELSE "read"])
  /\ UNCHANGED <<about, mem, db, target, decided, reader, faults, life, formed, applied, failed>>

-----------------------------------------------------------------------------
(* T04: IssueMatchService.match, then IssueMutationService.apply *)

LookUp(x) ==
  /\ At(x, "look up")
  /\ LET m == decided[about[x]]
     IN Continue(x, IF m = NoPipeline THEN [run[x] EXCEPT !.at = "list"]
                    ELSE [run[x] EXCEPT !.at = "apply", !.match = m])
  /\ UNCHANGED <<about, mem, db, target, decided, reader, faults, life, formed, applied, failed>>

ListActive(x) ==
  /\ At(x, "list")
  /\ Continue(x, [run[x] EXCEPT !.at = "sources",
                                !.candidates = {i \in Ids : Active(Memo(x), i)}])
  /\ UNCHANGED <<about, mem, db, target, decided, reader, faults, life, formed, applied, failed>>

\* An issue that holds the article already is chosen without the model; the
\* model may choose any candidate, or none.
Verdicts(x) ==
  LET holders == {i \in run[x].candidates : about[x] \in Memo(x).evidence[i]}
  IN IF holders # {} THEN holders ELSE run[x].candidates \cup {NewIssue}

FindSource(x) ==
  /\ At(x, "sources")
  /\ \E v \in Verdicts(x) :
       Continue(x, [run[x] EXCEPT !.at = "create", !.verdict = v, !.candidates = {}])
  /\ UNCHANGED <<about, mem, db, target, decided, reader, faults, life, formed, applied, failed>>

\* A plain INSERT: nothing keeps a second decision about the article out.
InsertMatch(x) ==
  /\ target' = [target EXCEPT ![x] = run[x].verdict]
  /\ decided' = [decided EXCEPT ![about[x]] = IF @ = NoPipeline THEN x ELSE @]

CreateMatch(x) ==
  /\ At(x, "create")
  /\ InsertMatch(x)
  /\ Continue(x, [run[x] EXCEPT !.at = "apply", !.match = x, !.verdict = NewIssue])
  /\ UNCHANGED <<about, mem, db, reader, faults, life, formed, applied, failed>>

\* The memory after decision m attached article a to issue i.
Attach(mm, m, a, i, row) ==
  [mm EXCEPT !.row[i] = row, !.evidence[i] = @ \cup {a}, !.developments[i] = @ \cup {a},
             !.mutation[m] = i]

\* Mutant: attaching to an issue leaves its version.
UpdatedInPlace(row) == row

Updated(row) == [row EXCEPT !.version = @ + 1]

\* Mutant: the mutation is not looked up.
NeverMutated(mm, m) == FALSE

Mutated(mm, m) == mm.mutation[m] # NoId

\* The run goes on to write what it changed: the issue as it is now, then
\* the article, then the development if there is one.
Persist(x, i, row, dev) ==
  Continue(x, [run[x] EXCEPT !.at = "save issue", !.match = NoPipeline,
                             !.id = i, !.row = row, !.dev = dev])

FormIssue(x) ==
  \E i \in Ids \ UNION {formed[m] : m \in Pipelines} :
    LET row == [status |-> "active", version |-> 1, text |-> {}]
        m == run[x].match
    IN /\ SetMemo(x, Attach(Memo(x), m, about[x], i, row))
       /\ formed' = [formed EXCEPT ![m] = @ \cup {i}]
       /\ Persist(x, i, row, 1)

UpdateIssue(x, i) ==
  LET mm == Memo(x)
      m == run[x].match
  IN /\ IF about[x] \in mm.evidence[i]
        THEN /\ SetMemo(x, [mm EXCEPT !.mutation[m] = i])
             /\ Persist(x, i, mm.row[i], 0)
        ELSE /\ SetMemo(x, Attach(mm, m, about[x], i, Updated(mm.row[i])))
             /\ Persist(x, i, Updated(mm.row[i]), 1)
     /\ UNCHANGED formed

Apply(x) ==
  /\ At(x, "apply")
  /\ LET m == run[x].match
     IN IF Mutated(Memo(x), m)
        THEN Finish(x, Memo(x).mutation[m]) /\ UNCHANGED <<mem, formed, applied>>
        ELSE \/ /\ target[m] = NewIssue
                /\ FormIssue(x)
                /\ applied' = applied \cup {x}
             \/ /\ target[m] # NewIssue /\ Active(Memo(x), target[m])
                /\ UpdateIssue(x, target[m])
                /\ applied' = applied \cup {x}
             \/ /\ target[m] # NewIssue /\ ~ Active(Memo(x), target[m])
                /\ Die(x)
                /\ UNCHANGED <<mem, formed, applied>>
  /\ UNCHANGED <<about, db, target, decided, reader, faults, life, failed>>

-----------------------------------------------------------------------------
(* T05 and T06: generate *)

FieldOf(x) == IF stage[x] = "T05" THEN "title" ELSE "oneLiner"

\* A text that was generated for the latest development is in the issue, so
\* the two early returns are one.
ReadIssue(x) ==
  /\ At(x, "read")
  /\ LET i == run[x].id
         mm == Memo(x)
     IN IF \/ ~ Active(mm, i)
           \/ mm.developments[i] = {}
           \/ FieldOf(x) = "oneLiner" /\ "title" \notin mm.row[i].text
        THEN Die(x)
        ELSE IF FieldOf(x) \in mm.row[i].text
        THEN Finish(x, i)
        ELSE Continue(x, [run[x] EXCEPT !.at = "write", !.dev = Cardinality(mm.developments[i])])
  /\ UNCHANGED <<about, mem, db, target, decided, reader, faults, life, formed, applied, failed>>

\* Mutant: the issue was active when the task began, which must do.
WritableOnceRead(mm, i, f) == f \notin mm.row[i].text

\* _requireActiveIssue, and the refusal to overwrite.
Writable(mm, i, f) == Active(mm, i) /\ f \notin mm.row[i].text

WriteText(x) ==
  /\ At(x, "write")
  /\ LET i == run[x].id
         f == FieldOf(x)
         mm == Memo(x)
         row == [mm.row[i] EXCEPT !.text = @ \cup {f}, !.version = @ + 1]
     IN \/ /\ mm.generated[i][f] = run[x].dev
           /\ Finish(x, i)
           /\ UNCHANGED mem
        \/ /\ mm.generated[i][f] # run[x].dev
           /\ Writable(mm, i, f)
           /\ SetMemo(x, [mm EXCEPT !.row[i] = row, !.generated[i][f] = run[x].dev])
           /\ Persist(x, i, row, 0)
        \/ /\ mm.generated[i][f] # run[x].dev
           /\ ~ Writable(mm, i, f)
           /\ Die(x)
           /\ UNCHANGED mem
  /\ UNCHANGED <<about, db, target, decided, reader, faults, life, formed, applied, failed>>

-----------------------------------------------------------------------------
(* _persistMutation and _persistIssue *)

\* Mutant: the statement writes rows that exist.
UpdateIssueRow(i, row) ==
  db' = [db EXCEPT !.row[i] = IF @.status = "absent" THEN @ ELSE row]

\* The row as it was when the statement was sent: statements of two tasks use
\* two connections, so that an older row may be written later.
UpsertIssue(i, row) == db' = [db EXCEPT !.row[i] = row]

SaveIssue(x) ==
  /\ At(x, "save issue")
  /\ UpsertIssue(run[x].id, run[x].row)
  /\ IF stage[x] = "T04" THEN Continue(x, [run[x] EXCEPT !.at = "save article"])
                         ELSE Finish(x, run[x].id)
  /\ UNCHANGED <<about, mem, target, decided, reader, faults, life, formed, applied, failed>>

\* Mutant: the development is written in the article's place.
InsertDevelopmentFirst(x) ==
  db' = [db EXCEPT !.developments[run[x].id] = @ \cup {about[x]}]

InsertArticle(x) == db' = [db EXCEPT !.evidence[run[x].id] = @ \cup {about[x]}]

SaveArticle(x) ==
  /\ At(x, "save article")
  /\ InsertArticle(x)
  /\ IF run[x].dev = 1 THEN Continue(x, [run[x] EXCEPT !.at = "save development"])
                       ELSE Finish(x, run[x].id)
  /\ UNCHANGED <<about, mem, target, decided, reader, faults, life, formed, applied, failed>>

InsertDevelopment(x) ==
  db' = [db EXCEPT !.developments[run[x].id] = @ \cup {about[x]}]

SaveDevelopment(x) ==
  /\ At(x, "save development")
  /\ InsertDevelopment(x)
  /\ Finish(x, run[x].id)
  /\ UNCHANGED <<about, mem, target, decided, reader, faults, life, formed, applied, failed>>

-----------------------------------------------------------------------------
(* A call fails, before or after it took effect.  The task is retried while *)
(* attempts are left and the error is retryable; else the pipeline ends.    *)

\* A statement that fails may have been executed.
MaybeExecuted(x) ==
  \/ UNCHANGED <<db, target, decided>>
  \/ At(x, "create") /\ InsertMatch(x) /\ UNCHANGED db
  \/ /\ UNCHANGED <<target, decided>>
     /\ \/ At(x, "save issue") /\ UpsertIssue(run[x].id, run[x].row)
        \/ At(x, "save article") /\ InsertArticle(x)
        \/ At(x, "save development") /\ InsertDevelopment(x)

CallFails(x) ==
  /\ ~ At(x, "queued")
  /\ faults < FaultBudget
  /\ faults' = faults + 1
  /\ MaybeExecuted(x)
  /\ failed' = IF run[x].at \in {"save issue", "save article", "save development"}
               THEN failed \cup {x} ELSE failed
  /\ Continue(x, NoRun) \/ Die(x)
  /\ UNCHANGED <<about, mem, reader, life, formed, applied>>

\* A host dies and starts again.  Its runs end; the recovered jobs conflict
\* with the pipelines they left running, which are dead-lettered.
Restart(h) ==
  LET ours == {x \in Pipelines : run[x].host = h}
  IN /\ life[h] < RestartBudget
     /\ life' = [life EXCEPT ![h] = @ + 1]
     /\ mem' = [mem EXCEPT ![h] = Hydrated]
     /\ stage' = [x \in Pipelines |-> IF x \in ours THEN "dead" ELSE stage[x]]
     /\ run' = [x \in Pipelines |-> IF x \in ours THEN NoRun ELSE run[x]]
     /\ reader' = IF reader.at = "save" /\ reader.saver = h THEN NoReader ELSE reader
     /\ UNCHANGED <<about, db, target, decided, issue, faults, formed, applied, failed>>

-----------------------------------------------------------------------------
(* POST /api/v1/issues/:issueId/complete, with the version the human read *)

OpenIssue(h, i) ==
  /\ reader.at = "idle"
  /\ Active(mem[h], i)
  /\ reader' = [NoReader EXCEPT !.at = "opened", !.host = h, !.id = i, !.life = life[h],
                                !.row = mem[h].row[i], !.evidence = mem[h].evidence[i]]
  /\ UNCHANGED <<about, mem, db, target, decided, stage, issue, run, faults, life, formed, applied, failed>>

Completed(row) == [row EXCEPT !.status = "finished", !.version = @ + 1]
Close(mm, i) == [mm EXCEPT !.row[i] = Completed(@), !.completions = @ \cup {i}]

\* One Idempotency-Key per issue; any host may answer.
Complete(h) ==
  /\ reader.at = "opened"
  /\ LET i == reader.id
         mm == mem[h]
     IN \/ /\ i \in mm.completions \/ mm.row[i].version # reader.row.version
           /\ reader' = NoReader
           /\ UNCHANGED mem
        \/ /\ i \notin mm.completions /\ mm.row[i].version = reader.row.version
           /\ IF mm.row[i].status = "finished"
              THEN /\ mem' = [mem EXCEPT ![h].completions = @ \cup {i}]
                   /\ reader' = NoReader
              ELSE /\ mem' = [mem EXCEPT ![h] = Close(mm, i)]
                   /\ reader' = [reader EXCEPT !.at = "save", !.saver = h,
                                               !.saved = Close(mm, i).row[i]]
  /\ UNCHANGED <<about, db, target, decided, stage, issue, run, faults, life, formed, applied, failed>>

SaveCompletion ==
  /\ reader.at = "save"
  /\ UpsertIssue(reader.id, reader.saved)
  /\ reader' = NoReader
  /\ UNCHANGED <<about, mem, target, decided, stage, issue, run, faults, life, formed, applied, failed>>

\* The client repeats the request, with the version and the key it has.
SaveCompletionFails ==
  /\ reader.at = "save"
  /\ faults < FaultBudget
  /\ faults' = faults + 1
  /\ UpsertIssue(reader.id, reader.saved) \/ UNCHANGED db
  /\ reader' = [reader EXCEPT !.at = "opened", !.saver = NoHost, !.saved = NoRow]
  /\ UNCHANGED <<about, mem, target, decided, stage, issue, run, life, formed, applied, failed>>

TaskStep(x) ==
  \/ \E h \in Hosts : Start(x, h)
  \/ LookUp(x) \/ ListActive(x) \/ FindSource(x) \/ CreateMatch(x) \/ Apply(x)
  \/ ReadIssue(x) \/ WriteText(x)
  \/ SaveIssue(x) \/ SaveArticle(x) \/ SaveDevelopment(x)

HumanStep ==
  \/ \E h \in Hosts, i \in Ids : OpenIssue(h, i)
  \/ \E h \in Hosts : Complete(h)
  \/ SaveCompletion
  \/ SaveCompletionFails

Next ==
  \/ \E x \in Pipelines : TaskStep(x) \/ CallFails(x)
  \/ \E h \in Hosts : Restart(h)
  \/ HumanStep

Spec == Init /\ [][Next]_vars

-----------------------------------------------------------------------------
(* Properties *)

\* Every host's memory, the tables and the local variables are well formed,
\* and exactly the pipelines in a task have a host.
TypeOK ==
  /\ about \in [Pipelines -> Articles]
  /\ mem \in [Hosts -> Memory]
  /\ db \in Tables
  /\ target \in [Pipelines -> Ids \cup {NoId, NewIssue}]
  /\ decided \in [Articles -> Pipelines \cup {NoPipeline}]
  /\ stage \in [Pipelines -> Stages]
  /\ issue \in [Pipelines -> Ids \cup {NoId}]
  /\ run \in [Pipelines -> Run]
  /\ \A x \in Pipelines : At(x, "queued") <=> run[x].host = NoHost
  /\ reader \in Reader
  /\ faults \in 0..FaultBudget
  /\ life \in [Hosts -> 0..RestartBudget]
  /\ formed \in [Pipelines -> SUBSET Ids]
  /\ applied \subseteq Pipelines
  /\ failed \subseteq Pipelines

\* A pipeline that applied its decision and got past T04 without a failed
\* write finds its issue and its evidence in the tables, whatever other tasks
\* wrote to the same issue meanwhile and whenever the host restarted.
EvidenceDurable ==
  \A x \in applied \ failed :
    stage[x] \in {"T05", "T06", "done"} =>
      /\ db.row[issue[x]].status # "absent"
      /\ about[x] \in db.evidence[issue[x]]

\* However a mutation was interrupted, what is in the tables can be read
\* back: no development without its article, no article without its issue.
RowsInOrder ==
  \A i \in Ids :
    /\ db.developments[i] \subseteq db.evidence[i]
    /\ db.evidence[i] # {} => db.row[i].status # "absent"

\* One match decision forms one issue: a retry or restart does not leave a
\* second one in the tables (AI-Automation-Contract.md:59).
OneIssuePerDecision ==
  \A m \in Pipelines : Cardinality({i \in formed[m] : db.row[i].status # "absent"}) <= 1

\* What holds of it: a decision forms an issue again only on a host that did
\* not see, or forgot, the mutation: at most once per host and start of it.
Lives == {s \in Hosts \X (0 .. RestartBudget) : s[2] <= life[s[1]]}
FormedOncePerLife == \A m \in Pipelines : Cardinality(formed[m]) <= Cardinality(Lives)

\* A human completes the issue that was read: no text and no evidence came
\* to it since, if its host has not started again meanwhile.
CompletesWhatWasRead ==
  [][\A h \in Hosts, i \in Ids :
       /\ Active(mem[h], i) /\ mem'[h].row[i].status = "finished"
       /\ reader.host = h /\ reader.life = life'[h]
       => /\ mem[h].row[i].text = reader.row.text
          /\ mem[h].evidence[i] = reader.evidence]_vars

\* A completed issue changes no more: tasks that began while it was active
\* neither reopen nor extend it, until the host reads the tables again.
FinishedIsFinal ==
  [][\A h \in Hosts, i \in Ids :
       mem[h].row[i].status = "finished" /\ life'[h] = life[h] =>
         /\ mem'[h].row[i] = mem[h].row[i]
         /\ mem'[h].evidence[i] = mem[h].evidence[i]]_vars
=============================================================================

-------------------------- MODULE IssueStoreProofs --------------------------
(***************************************************************************)
(* What PostgresIssueStore promises, for any number of hosts, pipelines,   *)
(* articles and issues: what the tables hold, what one match decision may  *)
(* create, and what a human completes.                                     *)
(***************************************************************************)
EXTENDS IssueStore, FiniteSetTheorems, TLAPS

USE BudgetAssumption, NullAssumption

-----------------------------------------------------------------------------
(* The inductive invariant.  Tasks and hosts work on one issue at once, and *)
(* each statement on the tables is a step of its own: the invariant says   *)
(* for each of them what it has in its hands between two steps.            *)

\* The issues that were ever created.
Formed == UNION {formed[m] : m \in Pipelines}

\* What a host remembers, and what the tables hold: rows of issues that were created.
RowsHold(t) ==
  \A i \in Ids :
    /\ IsFiniteSet(t.developments[i])
    /\ t.row[i].status # "absent" => i \in Formed /\ t.row[i].version >= 1
    /\ t.row[i].status = "absent" => t.row[i].version = 0
RowsAreFormed == RowsHold(db) /\ \A h \in Hosts : RowsHold(mem[h])

Writing == {"save issue", "save article", "save development"}
Later == {"T05", "T06"}

\* What a task has in its hands: an issue from T05 on, a decision when it applies one,
\* the row it writes, and the rows it has written already.  A decision that was
\* applied is written to the end, or a write of it failed.
HoldsAt(x, s, i, r) ==
  /\ s \in Later \cup {"done"} => i \in Ids
  /\ r.at \in {"look up", "list", "sources", "create", "apply", "save article", "save development"}
       => s = "T04"
  /\ r.at \in {"read", "write"} => s \in Later
  /\ r.at = "save issue" => s \in Later \cup {"T04"}
  /\ r.at \in {"read", "write", "save issue"} /\ s \in Later => r.id = i
  /\ r.at = "apply" => r.match \in Pipelines
  /\ r.at \in Writing => r.id \in Ids
  /\ r.at = "save issue" =>
       r.row.status # "absent" /\ r.row.version >= 1 /\ r.id \in Formed
  /\ r.at \in {"save article", "save development"} => db.row[r.id].status # "absent"
  /\ r.at = "save development" => about[x] \in db.evidence[r.id]
  /\ x \in applied \ failed =>
       /\ s = "T04" => r.at \in Writing
       /\ s \in Later \cup {"done"} => db.row[i].status # "absent" /\ about[x] \in db.evidence[i]
TaskHolds(x) == HoldsAt(x, stage[x], issue[x], run[x])

\* What the human has read: while that host lives, the version tells whether it is
\* still what the host holds.
ReaderHolds ==
  /\ reader.at = "idle" => reader = NoReader
  /\ reader.at # "idle" => /\ reader.host \in Hosts /\ reader.id \in Ids /\ reader.id \in Formed
                           /\ reader.row.version >= 1 /\ reader.life <= life[reader.host]
  /\ reader.at = "save" => /\ reader.saver \in Hosts
                           /\ reader.saved.status # "absent" /\ reader.saved.version >= 1
  /\ reader.at # "idle" /\ reader.life = life[reader.host] =>
       LET mm == mem[reader.host]
           i == reader.id
       IN /\ mm.row[i].version >= reader.row.version
          /\ mm.row[i].version = reader.row.version =>
               mm.row[i].text = reader.row.text /\ mm.evidence[i] = reader.evidence

\* The lives of hosts in which the mutation of a decision was made, or that are over.
Spent(m) == {s \in Lives : s[2] < life[s[1]] \/ Mutated(mem[s[1]], m)}
FormedInLives ==
  \A m \in Pipelines : IsFiniteSet(formed[m]) /\ Cardinality(formed[m]) <= Cardinality(Spent(m))

StoreInv ==
  /\ TypeOK /\ RowsAreFormed
  /\ \A x \in Pipelines : TaskHolds(x)
  /\ RowsInOrder /\ ReaderHolds /\ FormedInLives

-----------------------------------------------------------------------------
(* Fields.                                                                 *)

LEMMA RunFields ==
  ASSUME StoreInv, NEW x \in Pipelines
  PROVE  /\ run \in [Pipelines -> Run] /\ stage \in [Pipelines -> Stages]
         /\ issue \in [Pipelines -> Ids \cup {NoId}] /\ about \in [Pipelines -> Articles]
         /\ run[x] \in Run /\ stage[x] \in Stages /\ issue[x] \in Ids \cup {NoId} /\ about[x] \in Articles
         /\ run[x].match \in Pipelines \cup {NoPipeline} /\ run[x].id \in Ids \cup {NoId}
         /\ run[x].row \in Row /\ run[x].dev \in Nat /\ run[x].candidates \in SUBSET Ids
         /\ run[x].verdict \in Ids \cup {NewIssue}
         /\ run[x].at = "queued" <=> run[x].host = NoHost
         /\ run[x].at # "queued" => run[x].host \in Hosts
         /\ HoldsAt(x, stage[x], issue[x], run[x])
<1>1. /\ run \in [Pipelines -> Run] /\ stage \in [Pipelines -> Stages]
      /\ issue \in [Pipelines -> Ids \cup {NoId}] /\ about \in [Pipelines -> Articles]
      /\ run[x].at = "queued" <=> run[x].host = NoHost
  BY DEF StoreInv, TypeOK, At
<1>2. run[x] \in Run
  BY <1>1
<1>3. HoldsAt(x, stage[x], issue[x], run[x])
  BY DEF StoreInv, TaskHolds
<1>. QED
  BY <1>1, <1>2, <1>3 DEF Run

LEMMA MemoryFields ==
  ASSUME StoreInv, NEW h \in Hosts
  PROVE  /\ mem \in [Hosts -> Memory] /\ mem[h] \in Memory /\ RowsHold(mem[h])
         /\ mem[h].row \in [Ids -> Row] /\ mem[h].evidence \in [Ids -> SUBSET Articles]
         /\ mem[h].developments \in [Ids -> SUBSET Articles]
         /\ mem[h].mutation \in [Pipelines -> Ids \cup {NoId}]
         /\ mem[h].generated \in [Ids -> [Fields -> Nat]] /\ mem[h].completions \in SUBSET Ids
<1>1. mem \in [Hosts -> Memory] /\ RowsHold(mem[h])
  BY DEF StoreInv, TypeOK, RowsAreFormed
<1>2. mem[h] \in Memory
  BY <1>1
<1>. QED
  BY <1>1, <1>2 DEF Memory

LEMMA RowFields ==
  ASSUME NEW row \in Row
  PROVE  row.status \in {"absent", "active", "finished"} /\ row.version \in Nat /\ row.text \in SUBSET Fields
BY DEF Row

LEMMA NoFields ==
  /\ NoRow \in Row /\ NoRun \in Run /\ NoRun.at = "queued" /\ NoRun.host = NoHost
  /\ NoReader \in Reader /\ NoReader.at = "idle"
<1>1. NoRow \in Row
  BY DEF NoRow, Row
<1>2. NoRun \in Run /\ NoRun.at = "queued" /\ NoRun.host = NoHost
  BY <1>1 DEF NoRun, Run
<1>. QED
  BY <1>1, <1>2 DEF NoReader, Reader

-----------------------------------------------------------------------------
(* Tasks.                                                                  *)

\* What a step of a host that goes on living may do to an issue in its memory: nothing;
\* extend it; finish it, as it was read; or create it.
Extended(old, new) == old.status = "active" /\ new.status = "active" /\ new.version = old.version + 1
Finished(i, old, new) ==
  /\ old.status # "finished" /\ new.status = "finished" /\ new.version = old.version + 1
  /\ reader.at = "opened" /\ reader.id = i /\ old.version = reader.row.version
Created(i, new) ==
  i \notin Formed /\ i \in Formed' /\ new.status = "active" /\ new.version = 1
IssueSteps(i, old, new) ==
  \/ new.row[i] = old.row[i] /\ new.evidence[i] = old.evidence[i]
  \/ Extended(old.row[i], new.row[i])
  \/ Finished(i, old.row[i], new.row[i])
  \/ Created(i, new.row[i])

\* What a step leaves: the invariant, and in every host that goes on living each issue
\* as it was or one step further.
HostSteps(h) ==
  \/ life'[h] > life[h]
  \/ life'[h] = life[h] /\ \A i \in Ids : IssueSteps(i, mem[h], mem'[h])
StoreMoves == StoreInv' /\ \A h \in Hosts : HostSteps(h)

\* What is created stays known, and what is in the tables stays there.
Grows ==
  /\ Formed \subseteq Formed' /\ about' = about /\ failed \subseteq failed'
  /\ \A i \in Ids : /\ db.row[i].status # "absent" => db'.row[i].status # "absent"
                    /\ db.evidence[i] \subseteq db'.evidence[i]

\* What a task has in its hands stays true while it waits.
LEMMA TaskWaits ==
  ASSUME Grows, NEW x, NEW s, NEW i, NEW r, HoldsAt(x, s, i, r), x \in applied' => x \in applied
  PROVE  HoldsAt(x, s, i, r)'
BY DEF Grows, HoldsAt, Writing

Moves(x, s, i, r) ==
  /\ stage' = [stage EXCEPT ![x] = s] /\ issue' = [issue EXCEPT ![x] = i]
  /\ run' = [run EXCEPT ![x] = r]

TasksHold ==
  /\ stage \in [Pipelines -> Stages] /\ issue \in [Pipelines -> Ids \cup {NoId}]
  /\ run \in [Pipelines -> Run]
  /\ \A x \in Pipelines : (At(x, "queued") <=> run[x].host = NoHost) /\ TaskHolds(x)

LEMMA TaskMoves ==
  ASSUME StoreInv, Grows, NEW x \in Pipelines, applied' \subseteq applied \cup {x},
         NEW s \in Stages, NEW i \in Ids \cup {NoId}, NEW r \in Run, Moves(x, s, i, r),
         r.at = "queued" <=> r.host = NoHost, HoldsAt(x, s, i, r)'
  PROVE  TasksHold'
<1>1. /\ run \in [Pipelines -> Run] /\ stage \in [Pipelines -> Stages]
      /\ issue \in [Pipelines -> Ids \cup {NoId}]
  BY DEF StoreInv, TypeOK
<1>2. /\ run' \in [Pipelines -> Run] /\ stage' \in [Pipelines -> Stages]
      /\ issue' \in [Pipelines -> Ids \cup {NoId}]
  BY <1>1 DEF Moves
<1>3. ASSUME NEW y \in Pipelines PROVE (At(y, "queued") <=> run[y].host = NoHost)' /\ TaskHolds(y)'
  <2>. SUFFICES ASSUME NEW t, t = stage'[y], NEW j, j = issue'[y], NEW q, q = run'[y]
                PROVE  (q.at = "queued" <=> q.host = NoHost) /\ HoldsAt(y, t, j, q)'
    BY DEF At, TaskHolds
  <2>1. CASE y = x
    BY <1>1, <2>1 DEF Moves
  <2>2. CASE y # x
    <3>1. t = stage[y] /\ j = issue[y] /\ q = run[y]
      BY <1>1, <2>2 DEF Moves
    <3>2. (q.at = "queued" <=> q.host = NoHost) /\ HoldsAt(y, t, j, q)
      BY <3>1, RunFields
    <3>. QED
      BY <2>2, <3>2, TaskWaits
  <2>. QED
    BY <2>1, <2>2
<1>. QED
  BY <1>2, <1>3 DEF TasksHold

\* A task that is over has the issue in the tables if it applied a decision; one that
\* failed or gave up holds nothing.
LEMMA Finishes ==
  ASSUME StoreInv, Grows, NEW x \in Pipelines, applied' = applied, NEW i \in Ids, Finish(x, i),
         stage[x] \in Later \cup {"T04"},
         x \in applied \ failed => db'.row[i].status # "absent" /\ about[x] \in db'.evidence[i]
  PROVE  TasksHold'
<1>. SUFFICES ASSUME NEW s, s = After(stage[x]) PROVE TasksHold'
  OBVIOUS
<1>1. s \in Later \cup {"done"} /\ s \in Stages /\ s # "T04"
  BY DEF After, Later, Stages
<1>2. Moves(x, s, i, NoRun)
  BY RunFields DEF Finish, Moves
<1>3. HoldsAt(x, s, i, NoRun)'
  BY <1>1, NoFields DEF HoldsAt, Grows, Writing, Later
<1>. QED
  BY <1>1, <1>2, <1>3, NoFields, TaskMoves

LEMMA Dies ==
  ASSUME StoreInv, Grows, NEW x \in Pipelines, applied' = applied, Die(x)
  PROVE  TasksHold'
<1>1. Moves(x, "dead", issue[x], NoRun) /\ "dead" \in Stages /\ issue[x] \in Ids \cup {NoId}
  BY RunFields DEF Die, Moves, Stages
<1>. SUFFICES ASSUME NEW i, i = issue[x] PROVE TasksHold'
  OBVIOUS
<1>2. HoldsAt(x, "dead", i, NoRun)'
  BY NoFields DEF HoldsAt, Writing, Later
<1>. QED
  BY <1>1, <1>2, NoFields, TaskMoves

\* A task that goes on within its stage.
LEMMA Continues ==
  ASSUME StoreInv, Grows, NEW x \in Pipelines, applied' \subseteq applied \cup {x},
         NEW s, s = stage[x], NEW i, i = issue[x],
         NEW r \in Run, Continue(x, r), r.at = "queued" <=> r.host = NoHost,
         HoldsAt(x, s, i, r)'
  PROVE  TasksHold'
<1>1. Moves(x, s, i, r) /\ s \in Stages /\ i \in Ids \cup {NoId}
  BY RunFields DEF Continue, Moves
<1>. QED
  BY <1>1, TaskMoves

\* The step of a task in which nothing else moves.
LEMMA QuietTask ==
  ASSUME StoreInv, UNCHANGED <<about, mem, db, reader, faults, life, formed, applied, failed>>,
         target' \in [Pipelines -> Ids \cup {NoId, NewIssue}],
         decided' \in [Articles -> Pipelines \cup {NoPipeline}], TasksHold'
  PROVE  StoreMoves
<1>1. TypeOK'
  BY DEF StoreInv, TypeOK, TasksHold
<1>2. Formed' = Formed
  BY DEF Formed
<1>3. RowsAreFormed' /\ RowsInOrder' /\ ReaderHolds'
  BY <1>2 DEF StoreInv, RowsAreFormed, RowsHold, RowsInOrder, ReaderHolds
<1>4. FormedInLives'
  BY DEF StoreInv, FormedInLives, Spent, Lives, Mutated
<1>5. \A h \in Hosts : HostSteps(h)
  BY DEF HostSteps, IssueSteps
<1>. QED
  BY <1>1, <1>3, <1>4, <1>5 DEF StoreInv, TasksHold, StoreMoves

\* Where a running task is.
LEMMA RunningAt ==
  ASSUME StoreInv, NEW x \in Pipelines, ~ At(x, "queued")
  PROVE  run[x].host \in Hosts /\ Memo(x) = mem[run[x].host] /\ Memo(x) \in Memory
BY RunFields, MemoryFields DEF At, Memo

LEMMA NothingGrows ==
  ASSUME UNCHANGED <<about, db, formed, failed>>
  PROVE  Grows
BY DEF Grows, Formed

LEMMA StartKeeps ==
  ASSUME StoreInv, NEW x \in Pipelines, NEW h \in Hosts, Start(x, h)
  PROVE  StoreMoves
<1>. DEFINE r == [NoRun EXCEPT !.host = h, !.id = issue[x],
                               !.at = IF stage[x] = "T04" THEN "look up" ELSE "read"]
<1>1. Grows
  BY NothingGrows DEF Start
<1>2. r \in Run /\ r.host # NoHost /\ r.at # "queued"
  BY RunFields, NoFields DEF Run, NoRun
<1>3. HoldsAt(x, stage[x], issue[x], r)
  BY RunFields DEF HoldsAt, Start, NoRun, Writing, Later, At
<1>4. Continue(x, r)
  BY DEF Start
<1>5. SUFFICES ASSUME NEW q, q = r, NEW s, s = stage[x], NEW i, i = issue[x] PROVE TasksHold'
  BY QuietTask DEF Start, StoreInv, TypeOK
<1>6. HoldsAt(x, s, i, q)'
  BY ONLY <1>1, <1>3, <1>5, TaskWaits, Start(x, h) DEF Start
<1>. HIDE DEF r
<1>. QED
  BY <1>1, <1>2, <1>4, <1>5, <1>6, Continues DEF Start

\* T04 until its decision is applied.
LEMMA BeforeWriting ==
  ASSUME NEW x, NEW i, NEW q, NEW r, NEW s, HoldsAt(x, s, i, q),
         q.at \in {"look up", "list", "sources", "create", "apply"},
         r.at \in {"look up", "list", "sources", "create", "apply"},
         r.at = "apply" => r.match \in Pipelines
  PROVE  HoldsAt(x, s, i, r)
<1>1. s = "T04" /\ q.at \notin Writing /\ r.at \notin Writing
  BY DEF HoldsAt, Writing
<1>2. x \notin applied \ failed
  BY <1>1 DEF HoldsAt
<1>. QED
  BY <1>1, <1>2 DEF HoldsAt, Later, Writing

LEMMA LookUpKeeps ==
  ASSUME StoreInv, NEW x \in Pipelines, LookUp(x)
  PROVE  StoreMoves
<1>. DEFINE m == decided[about[x]]
            r == IF m = NoPipeline THEN [run[x] EXCEPT !.at = "list"]
                 ELSE [run[x] EXCEPT !.at = "apply", !.match = m]
<1>1. Grows
  BY NothingGrows DEF LookUp
<1>m. m \in Pipelines \cup {NoPipeline}
  BY RunFields DEF StoreInv, TypeOK
<1>2. r \in Run /\ r.host # NoHost /\ r.at # "queued"
  <2>. HIDE DEF m
  <2>. QED
    BY <1>m, RunFields DEF Run, LookUp, At
<1>f. /\ HoldsAt(x, stage[x], issue[x], run[x])
      /\ run[x].at \in {"look up", "list", "sources", "create", "apply"}
      /\ r.at \in {"look up", "list", "sources", "create", "apply"}
      /\ r.at = "apply" => r.match \in Pipelines
  BY <1>m, RunFields DEF LookUp, At, Run
<1>3. HoldsAt(x, stage[x], issue[x], r)
  <2>. HIDE DEF r
  <2>. QED
    BY ONLY <1>f, BeforeWriting
<1>4. Continue(x, r)
  BY DEF LookUp
<1>5. SUFFICES ASSUME NEW q, q = r, NEW s, s = stage[x], NEW i, i = issue[x] PROVE TasksHold'
  BY QuietTask DEF LookUp, StoreInv, TypeOK
<1>6. HoldsAt(x, s, i, q)'
  BY ONLY <1>1, <1>3, <1>5, TaskWaits, LookUp(x) DEF LookUp
<1>. HIDE DEF r
<1>. QED
  BY <1>1, <1>2, <1>4, <1>5, <1>6, Continues DEF LookUp

LEMMA ListActiveKeeps ==
  ASSUME StoreInv, NEW x \in Pipelines, ListActive(x)
  PROVE  StoreMoves
<1>. DEFINE r == [run[x] EXCEPT !.at = "sources", !.candidates = {i \in Ids : Active(Memo(x), i)}]
<1>1. Grows
  BY NothingGrows DEF ListActive
<1>2. r \in Run /\ r.host # NoHost /\ r.at # "queued"
  BY RunFields DEF Run, ListActive, At
<1>f. /\ HoldsAt(x, stage[x], issue[x], run[x])
      /\ run[x].at \in {"look up", "list", "sources", "create", "apply"}
      /\ r.at \in {"look up", "list", "sources", "create", "apply"}
      /\ r.at = "apply" => r.match \in Pipelines
  BY RunFields DEF ListActive, At, Run
<1>3. HoldsAt(x, stage[x], issue[x], r)
  <2>. HIDE DEF r
  <2>. QED
    BY ONLY <1>f, BeforeWriting
<1>4. Continue(x, r)
  BY DEF ListActive
<1>5. SUFFICES ASSUME NEW q, q = r, NEW s, s = stage[x], NEW i, i = issue[x] PROVE TasksHold'
  BY QuietTask DEF ListActive, StoreInv, TypeOK
<1>6. HoldsAt(x, s, i, q)'
  BY ONLY <1>1, <1>3, <1>5, TaskWaits, ListActive(x) DEF ListActive
<1>. HIDE DEF r
<1>. QED
  BY <1>1, <1>2, <1>4, <1>5, <1>6, Continues DEF ListActive

LEMMA FindSourceKeeps ==
  ASSUME StoreInv, NEW x \in Pipelines, FindSource(x)
  PROVE  StoreMoves
<1>1. PICK v \in Verdicts(x) : Continue(x, [run[x] EXCEPT !.at = "create", !.verdict = v, !.candidates = {}])
  BY DEF FindSource
<1>. DEFINE r == [run[x] EXCEPT !.at = "create", !.verdict = v, !.candidates = {}]
<1>2. Grows
  BY NothingGrows DEF FindSource
<1>3. v \in Ids \cup {NewIssue}
  BY RunFields DEF Verdicts
<1>4. r \in Run /\ r.host # NoHost /\ r.at # "queued"
  BY <1>3, RunFields DEF Run, FindSource, At
<1>f. /\ HoldsAt(x, stage[x], issue[x], run[x])
      /\ run[x].at \in {"look up", "list", "sources", "create", "apply"}
      /\ r.at \in {"look up", "list", "sources", "create", "apply"}
      /\ r.at = "apply" => r.match \in Pipelines
  BY RunFields DEF FindSource, At, Run
<1>5. HoldsAt(x, stage[x], issue[x], r)
  <2>. HIDE DEF r
  <2>. QED
    BY ONLY <1>f, BeforeWriting
<1>6. SUFFICES ASSUME NEW q, q = r, NEW s, s = stage[x], NEW i, i = issue[x] PROVE TasksHold'
  BY QuietTask DEF FindSource, StoreInv, TypeOK
<1>7. HoldsAt(x, s, i, q)'
  BY ONLY <1>2, <1>5, <1>6, TaskWaits, FindSource(x) DEF FindSource
<1>. HIDE DEF r
<1>. QED
  BY <1>1, <1>2, <1>4, <1>6, <1>7, Continues DEF FindSource, r

LEMMA InsertMatchTypes ==
  ASSUME StoreInv, NEW x \in Pipelines, InsertMatch(x)
  PROVE  /\ target' \in [Pipelines -> Ids \cup {NoId, NewIssue}]
         /\ decided' \in [Articles -> Pipelines \cup {NoPipeline}]
<1>1. /\ target \in [Pipelines -> Ids \cup {NoId, NewIssue}]
      /\ decided \in [Articles -> Pipelines \cup {NoPipeline}]
  BY DEF StoreInv, TypeOK
<1>. QED
  BY <1>1, RunFields DEF InsertMatch

LEMMA CreateMatchKeeps ==
  ASSUME StoreInv, NEW x \in Pipelines, CreateMatch(x)
  PROVE  StoreMoves
<1>. DEFINE r == [run[x] EXCEPT !.at = "apply", !.match = x, !.verdict = NewIssue]
<1>1. Grows
  BY NothingGrows DEF CreateMatch
<1>2. r \in Run /\ r.host # NoHost /\ r.at # "queued"
  BY RunFields DEF Run, CreateMatch, At
<1>f. /\ HoldsAt(x, stage[x], issue[x], run[x])
      /\ run[x].at \in {"look up", "list", "sources", "create", "apply"}
      /\ r.at \in {"look up", "list", "sources", "create", "apply"}
      /\ r.at = "apply" => r.match \in Pipelines
  BY RunFields DEF CreateMatch, At, Run
<1>3. HoldsAt(x, stage[x], issue[x], r)
  <2>. HIDE DEF r
  <2>. QED
    BY ONLY <1>f, BeforeWriting
<1>4. Continue(x, r)
  BY DEF CreateMatch
<1>5. SUFFICES ASSUME NEW q, q = r, NEW s, s = stage[x], NEW i, i = issue[x] PROVE TasksHold'
  BY QuietTask, InsertMatchTypes DEF CreateMatch
<1>6. HoldsAt(x, s, i, q)'
  BY ONLY <1>1, <1>3, <1>5, TaskWaits, CreateMatch(x) DEF CreateMatch
<1>. HIDE DEF r
<1>. QED
  BY <1>1, <1>2, <1>4, <1>5, <1>6, Continues DEF CreateMatch

LEMMA ReadIssueKeeps ==
  ASSUME StoreInv, NEW x \in Pipelines, ReadIssue(x)
  PROVE  StoreMoves
<1>. DEFINE i == run[x].id
            n == Cardinality(Memo(x).developments[i])
<1>1. Grows
  BY NothingGrows DEF ReadIssue
<1>2. SUFFICES TasksHold'
  BY QuietTask DEF ReadIssue, StoreInv, TypeOK
<1>3. stage[x] \in Later /\ i \in Ids /\ i = issue[x]
  BY RunFields DEF HoldsAt, ReadIssue, At, Later
<1>4. x \in applied \ failed => db.row[i].status # "absent" /\ about[x] \in db.evidence[i]
  BY <1>3, RunFields DEF HoldsAt
<1>5. CASE Die(x)
  BY <1>1, <1>5, Dies DEF ReadIssue
<1>6. CASE Finish(x, i)
  BY <1>1, <1>3, <1>4, <1>6, Finishes DEF ReadIssue
<1>7. CASE Continue(x, [run[x] EXCEPT !.at = "write", !.dev = n])
  <2>1. n \in Nat
    <3>1. IsFiniteSet(Memo(x).developments[i])
      BY <1>3, RunningAt, MemoryFields DEF ReadIssue, At, RowsHold
    <3>. QED
      BY <3>1, FS_CardinalityType
  <2>. SUFFICES ASSUME NEW c \in Nat, c = n,
                       NEW q, q = [run[x] EXCEPT !.at = "write", !.dev = c],
                       NEW s, s = stage[x], NEW j, j = issue[x]
                PROVE  TasksHold'
    BY <2>1
  <2>0. run[x].at = "read"
    BY DEF ReadIssue, At
  <2>2. q \in Run /\ q.host # NoHost /\ q.at = "write" /\ q.id = run[x].id
    BY <2>0, RunFields DEF Run
  <2>3. HoldsAt(x, stage[x], issue[x], q)
    <3>1. HoldsAt(x, stage[x], issue[x], run[x])
      BY RunFields
    <3>. QED
      BY ONLY <2>0, <2>2, <3>1 DEF HoldsAt, Writing, Later
  <2>4. HoldsAt(x, s, j, q)'
    BY ONLY <1>1, <2>3, s = stage[x], j = issue[x], TaskWaits, ReadIssue(x) DEF ReadIssue
  <2>. QED
    BY <1>1, <1>7, <2>2, <2>4, Continues DEF ReadIssue
<1>. QED
  BY <1>5, <1>6, <1>7 DEF ReadIssue

-----------------------------------------------------------------------------
(* The memory of a host.                                                   *)

LEMMA IssueStaysFormed ==
  ASSUME StoreInv, NEW h \in Hosts, NEW m2 \in Memory, Formed \subseteq Formed', NEW i \in Ids,
         IssueSteps(i, mem[h], m2)
  PROVE  /\ m2.row[i].status # "absent" => i \in Formed' /\ m2.row[i].version >= 1
         /\ m2.row[i].status = "absent" => m2.row[i].version = 0
<1>1. /\ mem[h].row[i].version \in Nat
      /\ mem[h].row[i].status # "absent" => i \in Formed /\ mem[h].row[i].version >= 1
      /\ mem[h].row[i].status = "absent" => mem[h].row[i].version = 0
  BY MemoryFields, RowFields DEF RowsHold
<1>2. reader.at # "idle" => reader.id \in Formed
  BY DEF StoreInv, ReaderHolds
<1>. QED
  BY <1>1, <1>2 DEF IssueSteps, Extended, Finished, Created

LEMMA MemoryMoves ==
  ASSUME StoreInv, NEW h \in Hosts, NEW m2 \in Memory, mem' = [mem EXCEPT ![h] = m2],
         UNCHANGED db, Formed \subseteq Formed',
         \A i \in Ids : IssueSteps(i, mem[h], m2) /\ IsFiniteSet(m2.developments[i])
  PROVE  mem' \in [Hosts -> Memory] /\ RowsAreFormed'
<1>1. mem \in [Hosts -> Memory]
  BY DEF StoreInv, TypeOK
<1>2. RowsHold(db)'
  BY DEF StoreInv, RowsAreFormed, RowsHold
<1>3. ASSUME NEW g \in Hosts PROVE RowsHold(mem[g])'
  <2>1. CASE g = h
    <3>1. mem'[g] = m2
      BY <1>1, <2>1
    <3>. QED
      BY <3>1, IssueStaysFormed DEF RowsHold
  <2>2. CASE g # h
    BY <1>1, <2>2 DEF StoreInv, RowsAreFormed, RowsHold
  <2>. QED
    BY <2>1, <2>2
<1>. QED
  BY <1>1, <1>2, <1>3 DEF RowsAreFormed

\* While the human's host lives, an issue it has changed has another version.
LEMMA ReaderWaits ==
  ASSUME StoreInv, NEW h \in Hosts, NEW m2 \in Memory, mem' = [mem EXCEPT ![h] = m2],
         UNCHANGED <<reader, life>>, Formed \subseteq Formed',
         \A i \in Ids : IssueSteps(i, mem[h], m2)
  PROVE  ReaderHolds'
<1>. SUFFICES ASSUME reader.at # "idle", reader.life = life[reader.host],
                     NEW g \in Hosts, g = reader.host, NEW i \in Ids, i = reader.id
              PROVE  /\ mem'[g].row[i].version >= reader.row.version
                     /\ mem'[g].row[i].version = reader.row.version =>
                          mem'[g].row[i].text = reader.row.text /\ mem'[g].evidence[i] = reader.evidence
  BY DEF StoreInv, ReaderHolds
<1>1. /\ mem[g].row[i].version >= reader.row.version /\ i \in Formed
      /\ mem[g].row[i].version = reader.row.version =>
           mem[g].row[i].text = reader.row.text /\ mem[g].evidence[i] = reader.evidence
  BY DEF StoreInv, ReaderHolds
<1>2. mem \in [Hosts -> Memory] /\ mem[g].row[i].version \in Nat /\ reader.row.version \in Nat
  BY MemoryFields, RowFields DEF StoreInv, TypeOK, Reader
<1>3. CASE g # h
  BY <1>1, <1>2, <1>3
<1>4. CASE g = h
  <2>1. mem'[g] = m2 /\ IssueSteps(i, mem[g], m2)
    BY <1>2, <1>4
  <2>2. CASE m2.row[i] = mem[g].row[i] /\ m2.evidence[i] = mem[g].evidence[i]
    BY <1>1, <2>1, <2>2
  <2>3. CASE m2.row[i].version = mem[g].row[i].version + 1
    BY <1>1, <1>2, <2>1, <2>3
  <2>. QED
    BY <1>1, <2>1, <2>2, <2>3 DEF IssueSteps, Extended, Finished, Created
<1>. QED
  BY <1>3, <1>4

\* A host makes the mutation of a decision once per life: each time it creates an issue,
\* one more life is spent.
LEMMA LivesAreFinite == IsFiniteSet(Lives) /\ IsFiniteSet(Lives)'
<1>1. IsFiniteSet(0 .. RestartBudget)
  BY FS_Interval
<1>2. IsFiniteSet(Hosts \X (0 .. RestartBudget))
  BY <1>1, HostAssumption, FS_Product
<1>. QED
  BY <1>2, FS_Subset DEF Lives

LEMMA FormsOnce ==
  ASSUME StoreInv, NEW m \in Pipelines, NEW i, formed'[m] \in {formed[m], formed[m] \cup {i}},
         Spent(m) \subseteq Spent(m)',
         formed'[m] # formed[m] => \E s : s \notin Spent(m) /\ s \in Spent(m)'
  PROVE  IsFiniteSet(formed'[m]) /\ Cardinality(formed'[m]) <= Cardinality(Spent(m)')
<1>1. IsFiniteSet(formed[m]) /\ Cardinality(formed[m]) <= Cardinality(Spent(m))
  BY DEF StoreInv, FormedInLives
<1>2. IsFiniteSet(Spent(m)')
  BY LivesAreFinite, FS_Subset DEF Spent
<1>3. IsFiniteSet(Spent(m)) /\ Cardinality(Spent(m)) <= Cardinality(Spent(m)')
  BY <1>2, FS_Subset
<1>4. Cardinality(formed[m]) \in Nat /\ Cardinality(Spent(m)) \in Nat /\ Cardinality(Spent(m)') \in Nat
  BY <1>1, <1>2, <1>3, FS_CardinalityType
<1>5. CASE formed'[m] = formed[m]
  BY <1>1, <1>3, <1>4, <1>5
<1>6. CASE formed'[m] # formed[m]
  <2>1. PICK s : s \notin Spent(m) /\ s \in Spent(m)'
    BY <1>6
  <2>2. Cardinality(Spent(m) \cup {s}) = Cardinality(Spent(m)) + 1 /\ Spent(m) \cup {s} \subseteq Spent(m)'
    BY <1>3, <2>1, FS_AddElement
  <2>3. Cardinality(Spent(m)) + 1 <= Cardinality(Spent(m)')
    BY <1>2, <2>2, FS_Subset
  <2>4. IsFiniteSet(formed[m] \cup {i}) /\ Cardinality(formed[m] \cup {i}) <= Cardinality(formed[m]) + 1
    <3>1. /\ IsFiniteSet(formed[m] \cup {i})
          /\ Cardinality(formed[m] \cup {i}) \in {Cardinality(formed[m]), Cardinality(formed[m]) + 1}
      BY <1>1, FS_AddElement
    <3>. QED
      BY <1>4, <3>1
  <2>5. formed'[m] = formed[m] \cup {i}
    BY <1>6
  <2>6. Cardinality(formed[m] \cup {i}) \in Nat
    BY <2>4, FS_CardinalityType
  <2>. QED
    BY <1>1, <1>4, <2>3, <2>4, <2>5, <2>6
<1>. QED
  BY <1>5, <1>6

LEMMA HostMoves ==
  ASSUME StoreInv, NEW h \in Hosts, NEW m2, mem' = [mem EXCEPT ![h] = m2], UNCHANGED life,
         \A i \in Ids : IssueSteps(i, mem[h], m2)
  PROVE  \A g \in Hosts : HostSteps(g)
<1>. SUFFICES ASSUME NEW g \in Hosts PROVE HostSteps(g)
  OBVIOUS
<1>1. mem \in [Hosts -> Memory]
  BY DEF StoreInv, TypeOK
<1>2. CASE g = h
  <2>1. mem'[g] = m2
    BY <1>1, <1>2
  <2>. QED
    BY <1>2, <2>1 DEF HostSteps
<1>3. CASE g # h
  <2>1. mem'[g] = mem[g]
    BY <1>1, <1>3
  <2>. QED
    BY <2>1 DEF HostSteps, IssueSteps
<1>. QED
  BY <1>2, <1>3

\* A step of a task that changes the memory of its host.
LEMMA MemoryTask ==
  ASSUME StoreInv, UNCHANGED <<about, db, target, decided, reader, faults, life, failed>>,
         NEW h \in Hosts, NEW m2 \in Memory, mem' = [mem EXCEPT ![h] = m2],
         formed' \in [Pipelines -> SUBSET Ids], Formed \subseteq Formed', applied' \subseteq Pipelines,
         \A i \in Ids : IssueSteps(i, mem[h], m2) /\ IsFiniteSet(m2.developments[i]),
         TasksHold', FormedInLives'
  PROVE  StoreMoves
<1>1. mem' \in [Hosts -> Memory] /\ RowsAreFormed'
  BY MemoryMoves
<1>2. ReaderHolds'
  BY ReaderWaits
<1>3. TypeOK'
  BY <1>1 DEF StoreInv, TypeOK, TasksHold
<1>4. RowsInOrder'
  BY DEF StoreInv, RowsInOrder
<1>. QED
  BY <1>1, <1>2, <1>3, <1>4, HostMoves DEF StoreInv, TasksHold, StoreMoves

\* A task that goes on to write what it changed.
LEMMA Persists ==
  ASSUME StoreInv, Grows, NEW x \in Pipelines, run[x].host \in Hosts,
         NEW i \in Ids, NEW row \in Row, NEW d \in Nat, Persist(x, i, row, d),
         row.status # "absent", row.version >= 1, i \in Formed',
         \/ stage[x] = "T04" /\ applied' = applied \cup {x}
         \/ stage[x] \in Later /\ i = issue[x] /\ applied' = applied
  PROVE  TasksHold'
<1>. DEFINE r == [run[x] EXCEPT !.at = "save issue", !.match = NoPipeline,
                                !.id = i, !.row = row, !.dev = d]
<1>1. r \in Run /\ r.host # NoHost /\ r.at = "save issue" /\ r.id = i /\ r.row = row
  BY RunFields DEF Run
<1>2. Continue(x, r) /\ applied' \subseteq applied \cup {x} /\ stage[x] \in Later \cup {"T04"}
  BY DEF Persist
<1>3. SUFFICES ASSUME NEW q, q = r, NEW s, s = stage[x], NEW j, j = issue[x]
               PROVE  TasksHold'
  OBVIOUS
<1>4. HoldsAt(x, s, j, q)'
  <2>1. HoldsAt(x, stage[x], issue[x], run[x])
    BY RunFields
  <2>2. s \in Later /\ x \in applied' \ failed' =>
          x \in applied \ failed /\ j \in Ids /\ db'.row[j].status # "absent" /\ about'[x] \in db'.evidence[j]
    BY <1>3, <2>1 DEF HoldsAt, Grows, Later
  <2>3. s \in Later \cup {"done"} => j \in Ids /\ j = i
    BY <1>3 DEF Later
  <2>4. q.at = "save issue" /\ q.id = i /\ q.row = row /\ s \in Later \cup {"T04"}
    BY <1>1, <1>2, <1>3
  <2>. HIDE DEF r
  <2>. QED
    BY <2>2, <2>3, <2>4 DEF HoldsAt, Later, Writing
<1>. HIDE DEF r
<1>. QED
  BY <1>1, <1>2, <1>3, <1>4, Continues

Attached(n, mm, m, a, i, row) ==
  /\ n \in Memory
  /\ \A j \in Ids :
       /\ n.row[j] = IF j = i THEN row ELSE mm.row[j]
       /\ n.evidence[j] = IF j = i THEN mm.evidence[j] \cup {a} ELSE mm.evidence[j]
       /\ n.developments[j] = IF j = i THEN mm.developments[j] \cup {a} ELSE mm.developments[j]
  /\ \A q \in Pipelines : n.mutation[q] = IF q = m THEN i ELSE mm.mutation[q]

LEMMA AttachFields ==
  ASSUME NEW mm \in Memory, NEW m \in Pipelines, NEW a \in Articles, NEW i \in Ids, NEW row \in Row,
         NEW n, n = Attach(mm, m, a, i, row)
  PROVE  Attached(n, mm, m, a, i, row)
<1>1. /\ n.row = [mm.row EXCEPT ![i] = row]
      /\ n.evidence = [mm.evidence EXCEPT ![i] = @ \cup {a}]
      /\ n.developments = [mm.developments EXCEPT ![i] = @ \cup {a}]
      /\ n.mutation = [mm.mutation EXCEPT ![m] = i]
  BY DEF Attach, Memory
<1>2. n \in Memory
  BY DEF Attach, Memory
<1>3. /\ mm.row \in [Ids -> Row] /\ mm.evidence \in [Ids -> SUBSET Articles]
      /\ mm.developments \in [Ids -> SUBSET Articles] /\ mm.mutation \in [Pipelines -> Ids \cup {NoId}]
  BY DEF Memory
<1>. QED
  BY <1>1, <1>2, <1>3 DEF Attached

LEMMA UpdatedFields ==
  ASSUME NEW row \in Row
  PROVE  /\ Updated(row) \in Row /\ Updated(row).status = row.status
         /\ Updated(row).version = row.version + 1
<1>1. row.version + 1 \in Nat
  BY DEF Row
<1>. QED
  BY <1>1 DEF Updated, Row

LEMMA MutationsStay ==
  ASSUME StoreInv, NEW h \in Hosts, NEW m2 \in Memory, mem' = [mem EXCEPT ![h] = m2], UNCHANGED life,
         NEW m \in Pipelines, Mutated(mem[h], m) => Mutated(m2, m)
  PROVE  /\ Spent(m) \subseteq Spent(m)'
         /\ Mutated(m2, m) /\ ~ Mutated(mem[h], m) => \E s : s \notin Spent(m) /\ s \in Spent(m)'
<1>1. mem \in [Hosts -> Memory] /\ life \in [Hosts -> 0 .. RestartBudget]
  BY DEF StoreInv, TypeOK
<1>2. mem'[h] = m2 /\ \A g \in Hosts : g # h => mem'[g] = mem[g]
  BY <1>1
<1>3. Lives' = Lives /\ Lives \subseteq Hosts \X (0 .. RestartBudget)
  BY DEF Lives
<1>4. ASSUME NEW s \in Spent(m) PROVE s \in Spent(m)'
  <2>1. s \in Lives' /\ s[1] \in Hosts /\ (s[2] < life'[s[1]] \/ Mutated(mem[s[1]], m))
    BY <1>3 DEF Spent
  <2>2. CASE s[1] = h
    BY <1>2, <2>1, <2>2 DEF Spent, Mutated
  <2>3. CASE s[1] # h
    BY <1>2, <2>1, <2>3 DEF Spent, Mutated
  <2>. QED
    BY <2>2, <2>3
<1>5. ASSUME Mutated(m2, m), ~ Mutated(mem[h], m)
      PROVE  <<h, life[h]>> \notin Spent(m) /\ <<h, life[h]>> \in Spent(m)'
  <2>1. <<h, life[h]>> \in Lives /\ ~ (life[h] < life[h])
    BY <1>1 DEF Lives
  <2>2. <<h, life[h]>> \notin Spent(m)
    BY <1>5, <2>1 DEF Spent
  <2>3. <<h, life[h]>> \in Spent(m)'
    BY <1>2, <1>3, <1>5, <2>1 DEF Spent, Mutated
  <2>. QED
    BY <2>2, <2>3
<1>. QED
  BY <1>4, <1>5

-----------------------------------------------------------------------------
(* T04 applies a decision.                                                 *)

\* What T04 has in its hands when it applies a decision.
LEMMA ApplyHolds ==
  ASSUME StoreInv, NEW x \in Pipelines, At(x, "apply")
  PROVE  /\ run[x].match \in Pipelines /\ run[x].host \in Hosts /\ Memo(x) = mem[run[x].host]
         /\ Memo(x) \in Memory /\ about[x] \in Articles /\ stage[x] = "T04"
<1>1. run[x].at = "apply" /\ HoldsAt(x, stage[x], issue[x], run[x]) /\ about[x] \in Articles
  BY RunFields DEF At
<1>2. run[x].match \in Pipelines /\ stage[x] = "T04"
  BY <1>1 DEF HoldsAt
<1>3. run[x].host \in Hosts /\ Memo(x) = mem[run[x].host] /\ Memo(x) \in Memory
  BY RunningAt DEF At
<1>. QED
  BY <1>1, <1>2, <1>3

LEMMA FormIssueKeeps ==
  ASSUME StoreInv, NEW x \in Pipelines, At(x, "apply"), ~ Mutated(Memo(x), run[x].match),
         FormIssue(x), applied' = applied \cup {x},
         UNCHANGED <<about, db, target, decided, reader, faults, life, failed>>
  PROVE  StoreMoves
<1>. DEFINE m == run[x].match
            h == run[x].host
            row == [status |-> "active", version |-> 1, text |-> {}]
<1>1. /\ m \in Pipelines /\ h \in Hosts /\ Memo(x) = mem[h] /\ mem[h] \in Memory
      /\ about[x] \in Articles /\ stage[x] = "T04"
  BY ApplyHolds
<1>2. PICK i \in Ids \ Formed :
        /\ SetMemo(x, Attach(Memo(x), m, about[x], i, row))
        /\ formed' = [formed EXCEPT ![m] = @ \cup {i}]
        /\ Persist(x, i, row, 1)
  BY DEF FormIssue, Formed
<1>3. row \in Row /\ row.status = "active" /\ row.version = 1
  BY DEF Row
<1>. SUFFICES ASSUME NEW rw \in Row, rw = row, rw.status = "active", rw.version = 1,
                     NEW k \in Pipelines, k = m, NEW g \in Hosts, g = h,
                     NEW a \in Articles, a = about[x],
                     NEW m2, m2 = Attach(mem[g], k, a, i, rw)
              PROVE  StoreMoves
  BY <1>1, <1>3
<1>. HIDE DEF row, m, h
<1>4. /\ mem' = [mem EXCEPT ![g] = m2] /\ formed' = [formed EXCEPT ![k] = @ \cup {i}]
      /\ Persist(x, i, rw, 1) /\ ~ Mutated(mem[g], k)
  BY <1>1, <1>2 DEF SetMemo, h, m
<1>5. Attached(m2, mem[g], k, a, i, rw)
  <2>1. mem[g] \in Memory /\ i \in Ids
    BY <1>1
  <2>2. a \in Articles /\ k \in Pipelines /\ rw \in Row
    BY <1>1
  <2>3. m2 = Attach(mem[g], k, a, i, rw)
    OBVIOUS
  <2>. QED
    BY ONLY <2>1, <2>2, <2>3, AttachFields
<1>6. formed \in [Pipelines -> SUBSET Ids]
  BY DEF StoreInv, TypeOK
<1>7. formed' \in [Pipelines -> SUBSET Ids] /\ Formed \subseteq Formed' /\ i \in Formed'
  BY <1>4, <1>6 DEF Formed
<1>8. ASSUME NEW j \in Ids PROVE IssueSteps(j, mem[g], m2) /\ IsFiniteSet(m2.developments[j])
  <2>1. CASE j = i
    <3>1. m2.row[j] = rw
      BY <1>5, <2>1 DEF Attached
    <3>2. m2.developments[j] = mem[g].developments[j] \cup {a}
      BY <1>5, <2>1 DEF Attached
    <3>3. IsFiniteSet(mem[g].developments[j])
      BY MemoryFields DEF RowsHold
    <3>4. IssueSteps(j, mem[g], m2)
      BY <1>2, <1>7, <2>1, <3>1 DEF IssueSteps, Created
    <3>5. IsFiniteSet(mem[g].developments[j] \cup {a})
      BY <3>3, FS_AddElement
    <3>. QED
      BY <3>2, <3>4, <3>5
  <2>2. CASE j # i
    BY <1>5, <2>2, MemoryFields DEF Attached, IssueSteps, RowsHold
  <2>. QED
    BY <2>1, <2>2
<1>9. TasksHold'
  <2>1. Grows
    BY <1>7 DEF Grows
  <2>2. stage[x] = "T04" /\ applied' = applied \cup {x} /\ run[x].host \in Hosts
    BY <1>1 DEF h
  <2>. QED
    BY <1>4, <1>7, <2>1, <2>2, Persists
<1>10. FormedInLives'
  <2>1. SUFFICES ASSUME NEW n \in Pipelines
                 PROVE  IsFiniteSet(formed'[n]) /\ Cardinality(formed'[n]) <= Cardinality(Spent(n)')
    BY DEF FormedInLives
  <2>2. Mutated(m2, k) /\ (Mutated(mem[g], n) => Mutated(m2, n))
    <3>1. mem[g].mutation \in [Pipelines -> Ids \cup {NoId}] /\ i # NoId
      BY MemoryFields
    <3>. QED
      BY <1>5, <3>1 DEF Attached, Mutated
  <2>m. m2 \in Memory
    BY <1>5 DEF Attached
  <2>3. Spent(n) \subseteq Spent(n)' /\ (n = k => \E s : s \notin Spent(n) /\ s \in Spent(n)')
    BY <1>4, <2>2, <2>m, MutationsStay
  <2>4. formed'[n] \in {formed[n], formed[n] \cup {i}} /\ (n # k => formed'[n] = formed[n])
    BY <1>4, <1>6
  <2>. QED
    BY <2>3, <2>4, FormsOnce
<1>11. applied' \subseteq Pipelines
  BY DEF StoreInv, TypeOK
<1>12. m2 \in Memory
  BY <1>5 DEF Attached
<1>. QED
  BY <1>4, <1>7, <1>8, <1>9, <1>10, <1>11, <1>12, MemoryTask

\* The mutations a host knows stay known when a memory changes otherwise.
LEMMA NothingForms ==
  ASSUME StoreInv, NEW h \in Hosts, NEW m2 \in Memory, mem' = [mem EXCEPT ![h] = m2], UNCHANGED <<life, formed>>,
         \A m \in Pipelines : Mutated(mem[h], m) => Mutated(m2, m)
  PROVE  FormedInLives'
<1>. SUFFICES ASSUME NEW n \in Pipelines
              PROVE  IsFiniteSet(formed'[n]) /\ Cardinality(formed'[n]) <= Cardinality(Spent(n)')
  BY DEF FormedInLives
<1>1. Spent(n) \subseteq Spent(n)'
  BY MutationsStay
<1>. QED
  BY <1>1, FormsOnce

LEMMA UpdateIssueKeeps ==
  ASSUME StoreInv, NEW x \in Pipelines, At(x, "apply"), NEW i, Active(Memo(x), i),
         UpdateIssue(x, i), applied' = applied \cup {x},
         UNCHANGED <<about, db, target, decided, reader, faults, life, failed>>
  PROVE  StoreMoves
<1>. SUFFICES ASSUME NEW k, k = run[x].match, NEW g, g = run[x].host, NEW a, a = about[x],
                     NEW old, old = mem[g]
              PROVE  StoreMoves
  OBVIOUS
<1>1. /\ k \in Pipelines /\ g \in Hosts /\ Memo(x) = old /\ old \in Memory
      /\ a \in Articles /\ stage[x] = "T04" /\ i \in Ids /\ old.row[i].status = "active"
  BY ApplyHolds DEF Active
<1>2. /\ old.row \in [Ids -> Row] /\ old.evidence \in [Ids -> SUBSET Articles]
      /\ old.developments \in [Ids -> SUBSET Articles] /\ old.mutation \in [Pipelines -> Ids \cup {NoId}]
      /\ old.row[i] \in Row /\ old.row[i].version \in Nat /\ old.row[i].version >= 1 /\ i \in Formed
      /\ \A j \in Ids : IsFiniteSet(old.developments[j])
  <2>1. RowsHold(old) /\ old.row \in [Ids -> Row]
    BY <1>1, MemoryFields
  <2>2. old.row[i] \in Row
    BY <1>1, <2>1
  <2>. QED
    BY <1>1, <2>1, <2>2, MemoryFields, RowFields DEF RowsHold
<1>3. Grows
  BY NothingGrows, UNCHANGED formed DEF UpdateIssue
<1>4. SUFFICES ASSUME NEW rw \in Row, NEW d \in Nat, NEW m2 \in Memory,
                      mem' = [mem EXCEPT ![g] = m2], Persist(x, i, rw, d),
                      rw.status = "active", rw.version >= 1,
                      \A j \in Ids : IssueSteps(j, old, m2) /\ IsFiniteSet(m2.developments[j]),
                      \A q \in Pipelines : m2.mutation[q] = IF q = k THEN i ELSE old.mutation[q]
               PROVE  StoreMoves
  <2>1. CASE a \in old.evidence[i]
    <3>. DEFINE n == [old EXCEPT !.mutation[k] = i]
    <3>1. /\ n \in Memory /\ n.row = old.row /\ n.evidence = old.evidence
          /\ n.developments = old.developments
      BY <1>1 DEF Memory
    <3>q. \A q \in Pipelines : n.mutation[q] = IF q = k THEN i ELSE old.mutation[q]
      BY <1>1 DEF Memory
    <3>2. mem' = [mem EXCEPT ![g] = n] /\ Persist(x, i, old.row[i], 0)
      BY <1>1, <2>1 DEF UpdateIssue, SetMemo
    <3>3. \A j \in Ids : IssueSteps(j, old, n) /\ IsFiniteSet(n.developments[j])
      BY <1>2, <3>1 DEF IssueSteps
    <3>. HIDE DEF n
    <3>. QED
      BY <1>1, <1>2, <3>1, <3>2, <3>3, <3>q
  <2>2. CASE a \notin old.evidence[i]
    <3>. SUFFICES ASSUME NEW u, u = Updated(old.row[i]), NEW n, n = Attach(old, k, a, i, u)
                  PROVE  StoreMoves
      OBVIOUS
    <3>1. u \in Row /\ u.status = "active" /\ u.version = old.row[i].version + 1
      <4>1. u = Updated(old.row[i])
        OBVIOUS
      <4>. QED
        BY ONLY <1>1, <1>2, <4>1, UpdatedFields
    <3>2. Attached(n, old, k, a, i, u)
      <4>1. u \in Row /\ old \in Memory /\ k \in Pipelines /\ a \in Articles /\ i \in Ids
        BY <1>1, <3>1
      <4>2. n = Attach(old, k, a, i, u)
        OBVIOUS
      <4>. QED
        BY ONLY <4>1, <4>2, AttachFields
    <3>3. mem' = [mem EXCEPT ![g] = n] /\ Persist(x, i, u, 1)
      BY <1>1, <2>2 DEF UpdateIssue, SetMemo
    <3>4. ASSUME NEW j \in Ids PROVE IssueSteps(j, old, n) /\ IsFiniteSet(n.developments[j])
      <4>1. CASE j = i
        <5>1. n.row[j] = u /\ n.developments[j] = old.developments[j] \cup {a}
          BY <1>2, <3>2, <4>1 DEF Attached
        <5>2. IssueSteps(j, old, n)
          BY <1>1, <3>1, <4>1, <5>1 DEF IssueSteps, Extended
        <5>3. IsFiniteSet(old.developments[j] \cup {a})
          BY <1>2, FS_AddElement
        <5>. QED
          BY <5>1, <5>2, <5>3
      <4>2. CASE j # i
        <5>1. /\ n.row[j] = old.row[j] /\ n.evidence[j] = old.evidence[j]
              /\ n.developments[j] = old.developments[j]
          BY <3>2, <4>2 DEF Attached
        <5>. QED
          BY <1>2, <5>1 DEF IssueSteps
      <4>. QED
        BY <4>1, <4>2
    <3>5. u.version >= 1
      BY ONLY <1>2, <3>1
    <3>6. n \in Memory /\ \A q \in Pipelines : n.mutation[q] = IF q = k THEN i ELSE old.mutation[q]
      BY <3>2 DEF Attached
    <3>. QED
      BY <3>1, <3>3, <3>4, <3>5, <3>6
  <2>. QED
    BY <2>1, <2>2
<1>5. TasksHold'
  <2>1. i \in Formed'
    BY <1>2, <1>3 DEF Grows
  <2>2. run[x].host \in Hosts /\ stage[x] = "T04" /\ applied' = applied \cup {x} /\ rw.status # "absent"
    BY <1>1, <1>4
  <2>. QED
    BY <1>1, <1>3, <1>4, <2>1, <2>2, Persists
<1>6. FormedInLives'
  <2>1. ASSUME NEW m \in Pipelines, Mutated(old, m) PROVE Mutated(m2, m)
    BY <1>1, <1>2, <1>4, <2>1 DEF Mutated
  <2>2. formed' = formed /\ life' = life
    BY DEF UpdateIssue
  <2>3. \A m \in Pipelines : Mutated(mem[g], m) => Mutated(m2, m)
    BY <2>1
  <2>. QED
    BY <1>1, <1>4, <2>2, <2>3, NothingForms
<1>7. formed' \in [Pipelines -> SUBSET Ids] /\ applied' \subseteq Pipelines /\ Formed \subseteq Formed'
  BY <1>3 DEF StoreInv, TypeOK, Grows, UpdateIssue
<1>8. \A j \in Ids : IssueSteps(j, mem[g], m2) /\ IsFiniteSet(m2.developments[j])
  BY <1>4
<1>. QED
  BY <1>1, <1>4, <1>5, <1>6, <1>7, <1>8, MemoryTask

LEMMA ApplyKeeps ==
  ASSUME StoreInv, NEW x \in Pipelines, Apply(x)
  PROVE  StoreMoves
<1>1. /\ At(x, "apply") /\ UNCHANGED <<about, db, target, decided, reader, faults, life, failed>>
      /\ stage[x] = "T04"
  BY ApplyHolds DEF Apply
<1>2. CASE /\ Mutated(Memo(x), run[x].match) /\ Finish(x, Memo(x).mutation[run[x].match])
           /\ UNCHANGED <<mem, formed, applied>>
  <2>1. Memo(x).mutation[run[x].match] \in Ids
    BY <1>1, <1>2, ApplyHolds, MemoryFields DEF Mutated
  <2>2. x \notin applied \ failed
    BY <1>1, RunFields DEF HoldsAt, At, Writing
  <2>3. Grows
    BY <1>1, <1>2, NothingGrows
  <2>4. TasksHold'
    BY <1>1, <1>2, <2>1, <2>2, <2>3, Finishes
  <2>. QED
    BY <1>1, <1>2, <2>4, QuietTask DEF StoreInv, TypeOK
<1>3. CASE ~ Mutated(Memo(x), run[x].match) /\ FormIssue(x) /\ applied' = applied \cup {x}
  BY <1>1, <1>3, FormIssueKeeps
<1>4. CASE Active(Memo(x), target[run[x].match]) /\ UpdateIssue(x, target[run[x].match]) /\ applied' = applied \cup {x}
  BY <1>1, <1>4, UpdateIssueKeeps
<1>5. CASE Die(x) /\ UNCHANGED <<mem, formed, applied>>
  <2>1. Grows
    BY <1>1, <1>5, NothingGrows
  <2>2. TasksHold'
    BY <1>5, <2>1, Dies
  <2>. QED
    BY <1>1, <1>5, <2>2, QuietTask DEF StoreInv, TypeOK
<1>. QED
  BY <1>2, <1>3, <1>4, <1>5 DEF Apply

-----------------------------------------------------------------------------
(* T05 and T06 write a text.                                               *)

Texted(n, row) == n \in Row /\ n.status = row.status /\ n.version = row.version + 1

LEMMA TextFields ==
  ASSUME NEW row \in Row, NEW f \in Fields, NEW n, n = [row EXCEPT !.text = @ \cup {f}, !.version = @ + 1]
  PROVE  Texted(n, row)
<1>1. row.version + 1 \in Nat /\ row.text \cup {f} \subseteq Fields
  BY DEF Row
<1>. QED
  BY <1>1 DEF Row, Texted

Rewritten(n, mm, i, row) ==
  /\ n \in Memory /\ \A j \in Ids : n.row[j] = IF j = i THEN row ELSE mm.row[j]
  /\ n.evidence = mm.evidence /\ n.developments = mm.developments /\ n.mutation = mm.mutation

LEMMA WriteFields ==
  ASSUME NEW mm \in Memory, NEW i \in Ids, NEW f \in Fields, NEW d \in Nat, NEW row \in Row,
         NEW n, n = [mm EXCEPT !.row[i] = row, !.generated[i][f] = d]
  PROVE  Rewritten(n, mm, i, row)
<1>1. /\ n.row = [mm.row EXCEPT ![i] = row] /\ n.evidence = mm.evidence
      /\ n.developments = mm.developments /\ n.mutation = mm.mutation
  BY DEF Memory
<1>2. [mm.generated EXCEPT ![i][f] = d] \in [Ids -> [Fields -> Nat]]
  BY DEF Memory
<1>3. n = [mm EXCEPT !.row = [mm.row EXCEPT ![i] = row], !.generated = [mm.generated EXCEPT ![i][f] = d]]
  BY DEF Memory
<1>4. [mm.row EXCEPT ![i] = row] \in [Ids -> Row]
  BY DEF Memory
<1>5. n \in Memory
  BY <1>2, <1>3, <1>4 DEF Memory
<1>6. \A j \in Ids : n.row[j] = IF j = i THEN row ELSE mm.row[j]
  BY <1>1 DEF Memory
<1>. QED
  BY <1>1, <1>5, <1>6 DEF Rewritten

LEMMA WriteTextKeeps ==
  ASSUME StoreInv, NEW x \in Pipelines, WriteText(x)
  PROVE  StoreMoves
<1>1. /\ run[x].at = "write" /\ UNCHANGED <<about, db, target, decided, reader, faults, life, formed, applied, failed>>
  BY DEF WriteText, At
<1>2. /\ stage[x] \in Later /\ run[x].id \in Ids /\ run[x].id = issue[x] /\ run[x].host \in Hosts
      /\ Memo(x) = mem[run[x].host] /\ FieldOf(x) \in Fields /\ run[x].dev \in Nat
  <2>1. HoldsAt(x, stage[x], issue[x], run[x])
    BY RunFields
  <2>2. stage[x] \in Later /\ run[x].id \in Ids /\ run[x].id = issue[x]
    BY <1>1, <2>1 DEF HoldsAt
  <2>. QED
    BY <1>1, <2>2, RunningAt, RunFields DEF At, FieldOf, Fields
<1>3. Grows
  BY <1>1, NothingGrows
<1>4. CASE Finish(x, run[x].id) /\ UNCHANGED mem
  <2>1. x \in applied \ failed => db.row[run[x].id].status # "absent" /\ about[x] \in db.evidence[run[x].id]
    BY <1>2, RunFields DEF HoldsAt
  <2>2. TasksHold'
    BY <1>1, <1>2, <1>3, <1>4, <2>1, Finishes
  <2>. QED
    BY <1>1, <1>4, <2>2, QuietTask DEF StoreInv, TypeOK
<1>5. CASE Die(x) /\ UNCHANGED mem
  <2>1. TasksHold'
    BY <1>1, <1>3, <1>5, Dies
  <2>. QED
    BY <1>1, <1>5, <2>1, QuietTask DEF StoreInv, TypeOK
<1>s. SUFFICES ASSUME NEW i, i = run[x].id, NEW f, f = FieldOf(x), NEW g, g = run[x].host,
                      NEW old, old = mem[g], NEW d, d = run[x].dev,
                      NEW n, n = [old.row[i] EXCEPT !.text = @ \cup {f}, !.version = @ + 1],
                      NEW m2, m2 = [old EXCEPT !.row[i] = n, !.generated[i][f] = d]
               PROVE  StoreMoves
  OBVIOUS
<1>6. CASE Writable(old, i, f) /\ Persist(x, i, n, 0) /\ mem' = [mem EXCEPT ![g] = m2]
  <2>1. /\ i \in Ids /\ f \in Fields /\ g \in Hosts /\ d \in Nat /\ old \in Memory /\ i = issue[x]
        /\ old.row[i].status = "active"
    BY <1>2, <1>s, <1>6, MemoryFields DEF Writable, Active
  <2>2. /\ old.row \in [Ids -> Row] /\ old.row[i] \in Row /\ old.row[i].version \in Nat
        /\ old.row[i].version >= 1 /\ i \in Formed /\ \A j \in Ids : IsFiniteSet(old.developments[j])
    <3>1. RowsHold(old) /\ old.row \in [Ids -> Row]
      BY <1>s, <1>6, <2>1, MemoryFields
    <3>2. old.row[i] \in Row
      BY <2>1, <3>1
    <3>. QED
      BY <2>1, <3>1, <3>2, RowFields DEF RowsHold
  <2>3. n \in Row /\ n.status = "active" /\ n.version = old.row[i].version + 1
    <3>1. n = [old.row[i] EXCEPT !.text = @ \cup {f}, !.version = @ + 1]
      BY <1>s, <1>6
    <3>. QED
      <4>1. Texted(n, old.row[i])
        BY <2>1, <2>2, <3>1, TextFields
      <4>. QED
        BY <2>1, <4>1 DEF Texted
  <2>4. n.version >= 1
    BY ONLY <2>2, <2>3
  <2>5. Rewritten(m2, old, i, n)
    <3>1. m2 = [old EXCEPT !.row[i] = n, !.generated[i][f] = d]
      BY <1>s, <1>6
    <3>. QED
      BY ONLY <2>1, <2>3, <3>1, WriteFields
  <2>11. m2 \in Memory
    BY <2>5 DEF Rewritten
  <2>6. ASSUME NEW j \in Ids PROVE IssueSteps(j, mem[g], m2) /\ IsFiniteSet(m2.developments[j])
    <3>1. CASE j = i
      <4>1. m2.row[j] = n /\ old = mem[g] /\ IsFiniteSet(m2.developments[j])
        BY <1>s, <1>6, <2>1, <2>2, <2>5, <3>1 DEF Rewritten
      <4>. QED
        BY ONLY <2>1, <2>3, <3>1, <4>1 DEF IssueSteps, Extended
    <3>2. CASE j # i
      <4>1. m2.row[j] = old.row[j]
        BY <2>5, <3>2 DEF Rewritten
      <4>. QED
        BY <1>s, <1>6, <2>2, <2>5, <4>1 DEF IssueSteps, Rewritten
    <3>. QED
      BY <3>1, <3>2
  <2>7. TasksHold'
    <3>1. run[x].host \in Hosts /\ stage[x] \in Later /\ applied' = applied /\ n.status # "absent" /\ 0 \in Nat
      BY <1>1, <1>2, <2>3
    <3>2. i \in Formed'
      BY <1>3, <2>2 DEF Grows
    <3>3. Persist(x, i, n, 0)
      BY <1>s, <1>6
    <3>. QED
      BY <1>3, <2>1, <2>3, <2>4, <3>1, <3>2, <3>3, Persists
  <2>8. FormedInLives'
    <3>1. \A m \in Pipelines : Mutated(mem[g], m) => Mutated(m2, m)
      BY <1>s, <1>6, <2>5 DEF Mutated, Rewritten
    <3>2. mem' = [mem EXCEPT ![g] = m2]
      BY <1>s, <1>6
    <3>. QED
      BY <1>1, <2>1, <2>11, <3>1, <3>2, NothingForms
  <2>9. formed' \in [Pipelines -> SUBSET Ids] /\ applied' \subseteq Pipelines /\ Formed \subseteq Formed'
    BY <1>1, <1>3 DEF StoreInv, TypeOK, Grows
  <2>10. mem' = [mem EXCEPT ![g] = m2]
    BY <1>s, <1>6
  <2>. QED
    BY <1>1, <2>1, <2>11, <2>6, <2>7, <2>8, <2>9, <2>10, MemoryTask
<1>7. \/ Finish(x, i) /\ UNCHANGED mem
      \/ Die(x) /\ UNCHANGED mem
      \/ Writable(old, i, f) /\ Persist(x, i, n, 0) /\ mem' = [mem EXCEPT ![g] = m2]
  <2>1. old = Memo(x)
    BY <1>2, <1>s
  <2>. QED
    BY ONLY <1>s, <2>1, WriteText(x) DEF WriteText, SetMemo
<1>. QED
  BY <1>4, <1>5, <1>6, <1>7, <1>s

-----------------------------------------------------------------------------
(* The statements on the tables.                                           *)

TablesMove == db' \in Tables /\ Grows /\ RowsHold(db)' /\ RowsInOrder'

LEMMA TableFields ==
  ASSUME StoreInv
  PROVE  /\ db \in Tables /\ db.row \in [Ids -> Row] /\ db.evidence \in [Ids -> SUBSET Articles]
         /\ db.developments \in [Ids -> SUBSET Articles] /\ RowsHold(db) /\ RowsInOrder
<1>1. db \in Tables /\ RowsHold(db) /\ RowsInOrder
  BY DEF StoreInv, TypeOK, RowsAreFormed
<1>. QED
  BY <1>1 DEF Tables

LEMMA TablesStay ==
  ASSUME StoreInv, UNCHANGED <<db, about, formed>>, failed \subseteq failed'
  PROVE  TablesMove
<1>1. Formed' = Formed
  BY DEF Formed
<1>. QED
  BY <1>1, TableFields DEF TablesMove, Grows, RowsHold, RowsInOrder

LEMMA UpsertFields ==
  ASSUME StoreInv, UNCHANGED <<about, formed>>, failed \subseteq failed',
         NEW i \in Ids, NEW row \in Row, row.status # "absent", row.version >= 1, i \in Formed,
         UpsertIssue(i, row)
  PROVE  TablesMove /\ db'.row[i].status # "absent"
<1>1. /\ db'.row = [db.row EXCEPT ![i] = row] /\ db'.evidence = db.evidence
      /\ db'.developments = db.developments
  BY TableFields DEF UpsertIssue, Tables
<1>2. db' \in Tables
  BY TableFields DEF UpsertIssue, Tables
<1>3. \A j \in Ids : db'.row[j] = IF j = i THEN row ELSE db.row[j]
  BY <1>1, TableFields
<1>4. Formed' = Formed
  BY DEF Formed
<1>5. Grows
  BY <1>1, <1>3, <1>4 DEF Grows
<1>6. RowsHold(db)'
  BY <1>1, <1>3, <1>4, TableFields DEF RowsHold
<1>7. RowsInOrder'
  BY <1>1, <1>3, TableFields DEF RowsInOrder
<1>. QED
  BY <1>2, <1>3, <1>5, <1>6, <1>7 DEF TablesMove

LEMMA ArticleFields ==
  ASSUME StoreInv, UNCHANGED <<about, formed>>, failed \subseteq failed',
         NEW x \in Pipelines, NEW i \in Ids, i = run[x].id, db.row[i].status # "absent", InsertArticle(x)
  PROVE  TablesMove /\ about[x] \in db'.evidence[i] /\ db'.row[i].status # "absent"
<1>1. /\ db'.row = db.row /\ db'.evidence = [db.evidence EXCEPT ![i] = @ \cup {about[x]}]
      /\ db'.developments = db.developments
  BY TableFields DEF InsertArticle, Tables
<1>2. db' \in Tables
  BY <1>1, TableFields, RunFields DEF InsertArticle, Tables
<1>3. \A j \in Ids : db'.evidence[j] = IF j = i THEN db.evidence[j] \cup {about[x]} ELSE db.evidence[j]
  BY <1>1, TableFields
<1>4. Formed' = Formed
  BY DEF Formed
<1>5. Grows
  BY <1>1, <1>3, <1>4 DEF Grows
<1>6. RowsHold(db)'
  BY <1>1, <1>4, TableFields DEF RowsHold
<1>7. RowsInOrder'
  BY <1>1, <1>3, TableFields DEF RowsInOrder
<1>. QED
  BY <1>1, <1>2, <1>3, <1>5, <1>6, <1>7 DEF TablesMove

LEMMA DevelopmentFields ==
  ASSUME StoreInv, UNCHANGED <<about, formed>>, failed \subseteq failed',
         NEW x \in Pipelines, NEW i \in Ids, i = run[x].id, about[x] \in db.evidence[i], InsertDevelopment(x)
  PROVE  TablesMove /\ about[x] \in db'.evidence[i] /\ db'.row = db.row
<1>1. /\ db'.row = db.row /\ db'.evidence = db.evidence
      /\ db'.developments = [db.developments EXCEPT ![i] = @ \cup {about[x]}]
  BY TableFields DEF InsertDevelopment, Tables
<1>2. db' \in Tables
  BY <1>1, TableFields, RunFields DEF InsertDevelopment, Tables
<1>3. \A j \in Ids : db'.developments[j] = IF j = i THEN db.developments[j] \cup {about[x]} ELSE db.developments[j]
  BY <1>1, TableFields
<1>4. Formed' = Formed
  BY DEF Formed
<1>5. Grows
  BY <1>1, <1>4 DEF Grows
<1>6. RowsHold(db)'
  <2>1. \A j \in Ids : IsFiniteSet(db'.developments[j])
    <3>1. SUFFICES ASSUME NEW j \in Ids, IsFiniteSet(db.developments[j])
                   PROVE  IsFiniteSet(db'.developments[j])
      BY TableFields DEF RowsHold
    <3>2. IsFiniteSet(db.developments[j] \cup {about[x]})
      BY <3>1, FS_AddElement
    <3>. QED
      BY <1>3, <3>1, <3>2
  <2>. QED
    BY <1>1, <1>4, <2>1, TableFields DEF RowsHold
<1>7. RowsInOrder'
  BY <1>1, <1>3, TableFields DEF RowsInOrder
<1>. QED
  BY <1>1, <1>2, <1>5, <1>6, <1>7 DEF TablesMove

\* A step that changes no memory.
LEMMA TableStep ==
  ASSUME StoreInv, UNCHANGED <<about, mem, life, formed, applied>>, TablesMove,
         target' \in [Pipelines -> Ids \cup {NoId, NewIssue}],
         decided' \in [Articles -> Pipelines \cup {NoPipeline}],
         faults' \in 0 .. FaultBudget, failed' \subseteq Pipelines, TasksHold',
         reader' \in Reader, ReaderHolds'
  PROVE  StoreMoves
<1>1. TypeOK'
  BY DEF StoreInv, TypeOK, TasksHold, TablesMove
<1>2. Formed' = Formed
  BY DEF Formed
<1>3. RowsAreFormed'
  <2>1. \A h \in Hosts : RowsHold(mem[h])'
    BY <1>2 DEF StoreInv, RowsAreFormed, RowsHold
  <2>. QED
    BY <2>1 DEF RowsAreFormed, TablesMove
<1>4. FormedInLives'
  BY DEF StoreInv, FormedInLives, Spent, Lives, Mutated
<1>5. \A h \in Hosts : HostSteps(h)
  BY DEF HostSteps, IssueSteps
<1>. QED
  BY <1>1, <1>3, <1>4, <1>5 DEF StoreInv, TasksHold, TablesMove, StoreMoves

LEMMA ReaderStays ==
  ASSUME StoreInv, UNCHANGED <<mem, life, formed, reader>>
  PROVE  ReaderHolds' /\ reader' \in Reader
<1>1. Formed' = Formed
  BY DEF Formed
<1>. QED
  BY <1>1 DEF StoreInv, TypeOK, ReaderHolds

\* What a task has in its hands while it writes.
LEMMA WritingHolds ==
  ASSUME StoreInv, NEW x \in Pipelines, run[x].at \in Writing
  PROVE  /\ run[x].id \in Ids /\ run[x].row \in Row /\ run[x].host \in Hosts
         /\ run[x].at = "save issue" =>
              /\ run[x].row.status # "absent" /\ run[x].row.version >= 1 /\ run[x].id \in Formed
              /\ stage[x] \in Later \cup {"T04"} /\ (stage[x] \in Later => run[x].id = issue[x])
         /\ run[x].at \in {"save article", "save development"} =>
              db.row[run[x].id].status # "absent" /\ stage[x] = "T04"
         /\ run[x].at = "save development" => about[x] \in db.evidence[run[x].id]
<1>1. HoldsAt(x, stage[x], issue[x], run[x])
  BY RunFields
<1>2. run[x].row \in Row /\ run[x].host \in Hosts
  BY RunFields DEF Writing
<1>. QED
  BY <1>1, <1>2 DEF HoldsAt

\* T04 goes on to its next statement.
LEMMA NextStatement ==
  ASSUME StoreInv, Grows, NEW x \in Pipelines, applied' = applied, stage[x] = "T04",
         NEW p \in {"save article", "save development"}, Continue(x, [run[x] EXCEPT !.at = p]),
         run[x].at \in Writing, db'.row[run[x].id].status # "absent",
         p = "save development" => about[x] \in db'.evidence[run[x].id]
  PROVE  TasksHold'
<1>. DEFINE r == [run[x] EXCEPT !.at = p]
<1>0. run[x] \in Run /\ run[x].id \in Ids /\ run[x].host # NoHost
  <2>1. run[x] \in Run
    BY RunFields
  <2>2. run[x].id \in Ids /\ run[x].host \in Hosts
    BY WritingHolds
  <2>. QED
    BY <2>1, <2>2
<1>1. r \in Run /\ r.host # NoHost /\ r.at = p /\ r.id = run[x].id /\ r.id \in Ids
  BY <1>0 DEF Run
<1>. SUFFICES ASSUME NEW q, q = r, NEW i, i = issue[x], NEW k, k = run[x].id PROVE TasksHold'
  OBVIOUS
<1>2. HoldsAt(x, "T04", i, q)'
  <2>1. q.at = p /\ q.id = k /\ k \in Ids
    BY <1>1
  <2>2. about' = about /\ db'.row[k].status # "absent" /\ (p = "save development" => about[x] \in db'.evidence[k])
    BY DEF Grows
  <2>. HIDE DEF r
  <2>. QED
    BY ONLY <2>1, <2>2, p \in {"save article", "save development"} DEF HoldsAt, Later, Writing
<1>3. q \in Run /\ q.host # NoHost /\ q.at # "queued" /\ Continue(x, q)
  BY <1>1
<1>. HIDE DEF r
<1>. QED
  BY <1>2, <1>3, Continues

LEMMA SaveIssueKeeps ==
  ASSUME StoreInv, NEW x \in Pipelines, SaveIssue(x)
  PROVE  StoreMoves
<1>1. /\ run[x].at = "save issue" /\ UpsertIssue(run[x].id, run[x].row)
      /\ UNCHANGED <<about, mem, target, decided, reader, faults, life, formed, applied, failed>>
  BY DEF SaveIssue, At
<1>2. TablesMove /\ db'.row[run[x].id].status # "absent"
  BY <1>1, WritingHolds, UpsertFields DEF Writing
<1>3. TasksHold'
  <2>1. CASE stage[x] = "T04"
    <3>1. Continue(x, [run[x] EXCEPT !.at = "save article"])
      BY <2>1 DEF SaveIssue
    <3>. QED
      BY <1>1, <1>2, <2>1, <3>1, NextStatement DEF TablesMove, Writing
  <2>2. CASE stage[x] # "T04"
    <3>1. Finish(x, run[x].id) /\ stage[x] \in Later /\ run[x].id = issue[x] /\ run[x].id \in Ids
      BY <1>1, <2>2, WritingHolds DEF SaveIssue, Writing
    <3>2. x \in applied \ failed => about[x] \in db.evidence[run[x].id]
      BY <3>1, RunFields DEF HoldsAt
    <3>3. x \in applied \ failed => about[x] \in db'.evidence[run[x].id]
      BY <1>2, <3>1, <3>2 DEF TablesMove, Grows
    <3>. QED
      BY <1>1, <1>2, <3>1, <3>3, Finishes DEF TablesMove
  <2>. QED
    BY <2>1, <2>2
<1>. QED
  BY <1>1, <1>2, <1>3, ReaderStays, TableStep DEF StoreInv, TypeOK

LEMMA SaveArticleKeeps ==
  ASSUME StoreInv, NEW x \in Pipelines, SaveArticle(x)
  PROVE  StoreMoves
<1>1. /\ run[x].at = "save article" /\ InsertArticle(x)
      /\ UNCHANGED <<about, mem, target, decided, reader, faults, life, formed, applied, failed>>
  BY DEF SaveArticle, At
<1>2. run[x].id \in Ids /\ stage[x] = "T04" /\ db.row[run[x].id].status # "absent"
  BY <1>1, WritingHolds DEF Writing
<1>3. TablesMove /\ about[x] \in db'.evidence[run[x].id] /\ db'.row[run[x].id].status # "absent"
  BY <1>1, <1>2, ArticleFields
<1>4. TasksHold'
  <2>1. CASE run[x].dev = 1
    <3>1. Continue(x, [run[x] EXCEPT !.at = "save development"])
      BY <2>1 DEF SaveArticle
    <3>. QED
      BY <1>1, <1>2, <1>3, <3>1, NextStatement DEF TablesMove, Writing
  <2>2. CASE run[x].dev # 1
    <3>1. Finish(x, run[x].id)
      BY <2>2 DEF SaveArticle
    <3>. QED
      BY <1>1, <1>2, <1>3, <3>1, Finishes DEF TablesMove
  <2>. QED
    BY <2>1, <2>2
<1>. QED
  BY <1>1, <1>3, <1>4, ReaderStays, TableStep DEF StoreInv, TypeOK

LEMMA SaveDevelopmentKeeps ==
  ASSUME StoreInv, NEW x \in Pipelines, SaveDevelopment(x)
  PROVE  StoreMoves
<1>1. /\ run[x].at = "save development" /\ InsertDevelopment(x) /\ Finish(x, run[x].id)
      /\ UNCHANGED <<about, mem, target, decided, reader, faults, life, formed, applied, failed>>
  BY DEF SaveDevelopment, At
<1>2. /\ run[x].id \in Ids /\ stage[x] = "T04" /\ db.row[run[x].id].status # "absent"
      /\ about[x] \in db.evidence[run[x].id]
  BY <1>1, WritingHolds DEF Writing
<1>3. TablesMove /\ about[x] \in db'.evidence[run[x].id] /\ db'.row[run[x].id].status # "absent"
  BY <1>1, <1>2, DevelopmentFields
<1>4. TasksHold'
  BY <1>1, <1>2, <1>3, Finishes DEF TablesMove
<1>. QED
  BY <1>1, <1>3, <1>4, ReaderStays, TableStep DEF StoreInv, TypeOK

\* A call that fails, before or after it took effect: a task that was writing is known
\* to have failed.
LEMMA CallFailsKeeps ==
  ASSUME StoreInv, NEW x \in Pipelines, CallFails(x)
  PROVE  StoreMoves
<1>1. /\ run[x].at # "queued" /\ MaybeExecuted(x)
      /\ UNCHANGED <<about, mem, reader, life, formed, applied>>
      /\ failed' = (IF run[x].at \in Writing THEN failed \cup {x} ELSE failed)
  BY DEF CallFails, At, Writing
<1>2. /\ failed \subseteq failed' /\ failed' \subseteq Pipelines /\ faults' \in 0 .. FaultBudget
  <2>1. faults \in 0 .. FaultBudget /\ failed \subseteq Pipelines
    BY DEF StoreInv, TypeOK
  <2>2. faults < FaultBudget /\ faults' = faults + 1
    BY DEF CallFails
  <2>3. faults' \in 0 .. FaultBudget
    BY <2>1, <2>2
  <2>. QED
    BY <1>1, <2>1, <2>3
<1>3. TablesMove
  <2>1. CASE UNCHANGED db
    BY <1>1, <1>2, <2>1, TablesStay
  <2>2. CASE At(x, "save issue") /\ UpsertIssue(run[x].id, run[x].row)
    BY <1>1, <1>2, <2>2, WritingHolds, UpsertFields DEF Writing, At
  <2>3. CASE At(x, "save article") /\ InsertArticle(x)
    <3>1. run[x].id \in Ids /\ db.row[run[x].id].status # "absent"
      BY <2>3, WritingHolds DEF Writing, At
    <3>. QED
      BY <1>1, <1>2, <2>3, <3>1, ArticleFields
  <2>4. CASE At(x, "save development") /\ InsertDevelopment(x)
    <3>1. run[x].id \in Ids /\ about[x] \in db.evidence[run[x].id]
      BY <2>4, WritingHolds DEF Writing, At
    <3>. QED
      BY <1>1, <1>2, <2>4, <3>1, DevelopmentFields
  <2>. QED
    BY <1>1, <2>1, <2>2, <2>3, <2>4 DEF MaybeExecuted
<1>4. /\ target' \in [Pipelines -> Ids \cup {NoId, NewIssue}]
      /\ decided' \in [Articles -> Pipelines \cup {NoPipeline}]
  <2>1. CASE UNCHANGED <<target, decided>>
    BY <2>1 DEF StoreInv, TypeOK
  <2>2. CASE InsertMatch(x)
    BY <2>2, InsertMatchTypes
  <2>. QED
    BY <1>1, <2>1, <2>2 DEF MaybeExecuted
<1>5. TasksHold'
  <2>1. CASE Die(x)
    BY <1>1, <1>3, <2>1, Dies DEF TablesMove
  <2>2. CASE Continue(x, NoRun)
    <3>. SUFFICES ASSUME NEW s, s = stage[x], NEW i, i = issue[x] PROVE TasksHold'
      OBVIOUS
    <3>1. HoldsAt(x, s, i, run[x])
      BY RunFields
    <3>2. HoldsAt(x, s, i, NoRun)'
      <4>1. x \in applied' \ failed' => x \in applied \ failed /\ s # "T04"
        BY <1>1, <1>2, <3>1 DEF HoldsAt
      <4>2. /\ s \in Later \cup {"done"} => i \in Ids
            /\ x \in applied' \ failed' /\ s \in Later \cup {"done"} =>
                 db'.row[i].status # "absent" /\ about'[x] \in db'.evidence[i]
        BY <1>3, <3>1, <4>1 DEF HoldsAt, TablesMove, Grows
      <4>. QED
        BY <4>1, <4>2, NoFields DEF HoldsAt, Writing
    <3>. QED
      BY <1>1, <1>3, <2>2, <3>2, NoFields, Continues DEF TablesMove
  <2>. QED
    BY <2>1, <2>2 DEF CallFails
<1>. QED
  BY <1>1, <1>2, <1>3, <1>4, <1>5, ReaderStays, TableStep

-----------------------------------------------------------------------------
(* A host starts again: it remembers what is in the tables.                *)

LEMMA HydratedFields ==
  ASSUME StoreInv
  PROVE  /\ Hydrated \in Memory /\ Hydrated.row = db.row /\ Hydrated.evidence = db.evidence
         /\ Hydrated.developments = db.developments
<1>1. /\ db.row \in [Ids -> Row] /\ db.evidence \in [Ids -> SUBSET Articles]
      /\ db.developments \in [Ids -> SUBSET Articles]
  BY TableFields
<1>. QED
  BY <1>1 DEF Hydrated, Memory

LEMMA RestartKeeps ==
  ASSUME StoreInv, NEW h \in Hosts, Restart(h)
  PROVE  StoreMoves
<1>. DEFINE ours == {x \in Pipelines : run[x].host = h}
<1>1. /\ life' = [life EXCEPT ![h] = @ + 1] /\ life[h] < RestartBudget
      /\ mem' = [mem EXCEPT ![h] = Hydrated]
      /\ stage' = [x \in Pipelines |-> IF x \in ours THEN "dead" ELSE stage[x]]
      /\ run' = [x \in Pipelines |-> IF x \in ours THEN NoRun ELSE run[x]]
      /\ reader' = IF reader.at = "save" /\ reader.saver = h THEN NoReader ELSE reader
      /\ UNCHANGED <<about, db, target, decided, issue, faults, formed, applied, failed>>
  BY DEF Restart
<1>2. /\ life \in [Hosts -> 0 .. RestartBudget] /\ mem \in [Hosts -> Memory] /\ reader \in Reader
      /\ stage \in [Pipelines -> Stages] /\ run \in [Pipelines -> Run]
      /\ issue \in [Pipelines -> Ids \cup {NoId}]
  BY DEF StoreInv, TypeOK
<1>3. /\ life' \in [Hosts -> 0 .. RestartBudget] /\ life'[h] = life[h] + 1
      /\ \A g \in Hosts : g # h => life'[g] = life[g]
  BY <1>1, <1>2
<1>4. mem'[h] = Hydrated /\ mem' \in [Hosts -> Memory] /\ \A g \in Hosts : g # h => mem'[g] = mem[g]
  BY <1>1, <1>2, HydratedFields
<1>5. Grows /\ Formed' = Formed
  BY <1>1, NothingGrows DEF Formed
<1>6. TasksHold'
  <2>1. stage' \in [Pipelines -> Stages] /\ run' \in [Pipelines -> Run] /\ issue' \in [Pipelines -> Ids \cup {NoId}]
    BY <1>1, <1>2, NoFields DEF Stages
  <2>2. ASSUME NEW y \in Pipelines PROVE (At(y, "queued") <=> run[y].host = NoHost)' /\ TaskHolds(y)'
    <3>. SUFFICES ASSUME NEW s, s = stage'[y], NEW j, j = issue'[y], NEW q, q = run'[y]
                  PROVE  (q.at = "queued" <=> q.host = NoHost) /\ HoldsAt(y, s, j, q)'
      BY DEF At, TaskHolds
    <3>1. CASE y \in ours
      <4>1. s = "dead" /\ q = NoRun
        BY <1>1, <3>1
      <4>. QED
        BY <4>1, NoFields DEF HoldsAt, Writing, Later
    <3>2. CASE y \notin ours
      <4>1. s = stage[y] /\ j = issue[y] /\ q = run[y]
        BY <1>1, <3>2
      <4>2. (q.at = "queued" <=> q.host = NoHost) /\ HoldsAt(y, s, j, q)
        BY <4>1, RunFields
      <4>. QED
        BY <1>1, <1>5, <4>2, TaskWaits
    <3>. QED
      BY <3>1, <3>2
  <2>. QED
    BY <2>1, <2>2 DEF TasksHold
<1>7. RowsAreFormed'
  <2>1. RowsHold(db)'
    BY <1>1, <1>5 DEF StoreInv, RowsAreFormed, RowsHold
  <2>2. ASSUME NEW g \in Hosts PROVE RowsHold(mem[g])'
    <3>1. CASE g = h
      BY <1>1, <1>4, <2>1, <3>1, HydratedFields DEF RowsHold
    <3>2. CASE g # h
      BY <1>4, <1>5, <3>2 DEF StoreInv, RowsAreFormed, RowsHold
    <3>. QED
      BY <3>1, <3>2
  <2>. QED
    BY <2>1, <2>2 DEF RowsAreFormed
<1>8. reader' \in Reader /\ ReaderHolds'
  <2>1. CASE reader' = NoReader
    BY <2>1, NoFields DEF ReaderHolds
  <2>2. CASE reader' = reader
    <3>1. reader.at # "idle" /\ reader.host = h => reader.life <= life[h] /\ reader.life \in Nat
      BY <1>2 DEF StoreInv, ReaderHolds, Reader
    <3>2. reader.at # "idle" /\ reader.host = h => reader.life # life'[h] /\ reader.life <= life'[h]
      BY <1>2, <1>3, <3>1
    <3>3. reader.at # "idle" => reader.host \in Hosts
      BY DEF StoreInv, ReaderHolds
    <3>4. reader' \in Reader
      BY <1>2, <2>2
    <3>. QED
      BY <1>3, <1>4, <1>5, <2>2, <3>2, <3>3, <3>4 DEF StoreInv, ReaderHolds
  <2>. QED
    BY <1>1, <2>1, <2>2
<1>9. FormedInLives'
  <2>1. SUFFICES ASSUME NEW m \in Pipelines
                 PROVE  IsFiniteSet(formed'[m]) /\ Cardinality(formed'[m]) <= Cardinality(Spent(m)')
    BY DEF FormedInLives
  <2>2. ASSUME NEW s \in Spent(m) PROVE s \in Spent(m)'
    <3>1. s \in Hosts \X (0 .. RestartBudget) /\ s[1] \in Hosts /\ s[2] \in Nat /\ s[2] <= life[s[1]]
      BY DEF Spent, Lives
    <3>2. s[2] < life[s[1]] \/ Mutated(mem[s[1]], m)
      BY DEF Spent
    <3>3. s \in Lives'
      BY <1>2, <1>3, <3>1 DEF Lives
    <3>4. s[2] < life'[s[1]] \/ Mutated(mem'[s[1]], m)
      <4>1. CASE s[1] = h
        BY <1>2, <1>3, <3>1, <4>1
      <4>2. CASE s[1] # h
        BY <1>3, <1>4, <3>1, <3>2, <4>2
      <4>. QED
        BY <4>1, <4>2
    <3>. QED
      BY <3>3, <3>4 DEF Spent, Mutated
  <2>3. formed'[m] = formed[m]
    BY <1>1
  <2>. QED
    BY <2>2, <2>3, FormsOnce
<1>10. TypeOK'
  BY <1>1, <1>3, <1>4, <1>6, <1>8 DEF StoreInv, TypeOK, TasksHold
<1>11. RowsInOrder'
  BY <1>1 DEF StoreInv, RowsInOrder
<1>12. \A g \in Hosts : HostSteps(g)
  <2>. SUFFICES ASSUME NEW g \in Hosts PROVE HostSteps(g)
    OBVIOUS
  <2>1. CASE g = h
    BY <1>2, <1>3, <2>1 DEF HostSteps
  <2>2. CASE g # h
    BY <1>3, <1>4, <2>2 DEF HostSteps, IssueSteps
  <2>. QED
    BY <2>1, <2>2
<1>. QED
  BY <1>6, <1>7, <1>8, <1>9, <1>10, <1>11, <1>12 DEF StoreInv, TasksHold, StoreMoves

-----------------------------------------------------------------------------
(* The human.                                                              *)

LEMMA TasksWait ==
  ASSUME StoreInv, Grows, UNCHANGED <<stage, issue, run, applied>>
  PROVE  TasksHold'
<1>1. ASSUME NEW y \in Pipelines PROVE (At(y, "queued") <=> run[y].host = NoHost)' /\ TaskHolds(y)'
  <2>. SUFFICES ASSUME NEW s, s = stage[y], NEW j, j = issue[y], NEW q, q = run[y]
                PROVE  (q.at = "queued" <=> q.host = NoHost) /\ HoldsAt(y, s, j, q)'
    BY DEF At, TaskHolds
  <2>1. (q.at = "queued" <=> q.host = NoHost) /\ HoldsAt(y, s, j, q)
    BY RunFields
  <2>. QED
    BY <2>1, TaskWaits
<1>. QED
  BY <1>1 DEF StoreInv, TypeOK, TasksHold

LEMMA OpenIssueKeeps ==
  ASSUME StoreInv, NEW h \in Hosts, NEW i \in Ids, OpenIssue(h, i)
  PROVE  StoreMoves
<1>1. /\ Active(mem[h], i)
      /\ reader' = [NoReader EXCEPT !.at = "opened", !.host = h, !.id = i, !.life = life[h],
                                    !.row = mem[h].row[i], !.evidence = mem[h].evidence[i]]
      /\ UNCHANGED <<about, mem, db, target, decided, stage, issue, run, faults, life, formed, applied, failed>>
  BY DEF OpenIssue
<1>2. /\ mem[h].row[i] \in Row /\ mem[h].evidence[i] \in SUBSET Articles /\ life[h] \in Nat
      /\ i \in Formed /\ mem[h].row[i].version >= 1 /\ mem[h].row[i].version \in Nat
  <2>1. mem[h].row[i] \in Row /\ mem[h].evidence[i] \in SUBSET Articles
    BY MemoryFields
  <2>2. i \in Formed /\ mem[h].row[i].version >= 1
    BY <1>1, MemoryFields DEF RowsHold, Active
  <2>. QED
    BY <2>1, <2>2, RowFields DEF StoreInv, TypeOK
<1>. SUFFICES ASSUME NEW n, n = life[h], NEW row, row = mem[h].row[i], NEW e, e = mem[h].evidence[i]
              PROVE  StoreMoves
  OBVIOUS
<1>3. /\ reader' \in Reader /\ reader'.at = "opened" /\ reader'.host = h /\ reader'.id = i
      /\ reader'.life = n /\ reader'.row = row /\ reader'.evidence = e
  <2>1. reader' = [NoReader EXCEPT !.at = "opened", !.host = h, !.id = i, !.life = n,
                                   !.row = row, !.evidence = e]
    BY <1>1
  <2>2. n \in Nat /\ row \in Row /\ e \in SUBSET Articles
    BY <1>2
  <2>. QED
    BY ONLY <2>1, <2>2, h \in Hosts, i \in Ids, NoFields DEF NoReader, Reader
<1>4. Formed' = Formed
  BY <1>1 DEF Formed
<1>5. ReaderHolds'
  BY <1>1, <1>2, <1>3, <1>4 DEF ReaderHolds
<1>6. TasksHold' /\ TablesMove
  BY <1>1, NothingGrows, TasksWait, TablesStay
<1>. QED
  BY <1>1, <1>3, <1>5, <1>6, TableStep DEF StoreInv, TypeOK

\* The host of a completion changes its memory.
LEMMA MemoryHuman ==
  ASSUME StoreInv, NEW h \in Hosts, NEW m2 \in Memory, mem' = [mem EXCEPT ![h] = m2],
         UNCHANGED <<about, db, target, decided, stage, issue, run, faults, life, formed, applied, failed>>,
         \A i \in Ids : IssueSteps(i, mem[h], m2) /\ IsFiniteSet(m2.developments[i]),
         m2.mutation = mem[h].mutation, reader' \in Reader, ReaderHolds'
  PROVE  StoreMoves
<1>1. Formed' = Formed
  BY DEF Formed
<1>2. mem' \in [Hosts -> Memory] /\ RowsAreFormed'
  BY <1>1, MemoryMoves
<1>3. TasksHold'
  BY NothingGrows, TasksWait
<1>4. FormedInLives'
  <2>1. \A m \in Pipelines : Mutated(mem[h], m) => Mutated(m2, m)
    BY DEF Mutated
  <2>. QED
    BY <2>1, NothingForms
<1>5. TypeOK' /\ RowsInOrder'
  <2>1. TypeOK'
    BY <1>2 DEF StoreInv, TypeOK, At
  <2>2. RowsInOrder'
    BY DEF StoreInv, RowsInOrder
  <2>. QED
    BY <2>1, <2>2
<1>6. \A g \in Hosts : HostSteps(g)
  BY HostMoves
<1>. QED
  BY <1>2, <1>3, <1>4, <1>5, <1>6 DEF StoreInv, TasksHold, StoreMoves

Closed(n, mm, i) ==
  /\ n \in Memory /\ n.evidence = mm.evidence /\ n.developments = mm.developments
  /\ n.mutation = mm.mutation /\ (\A j \in Ids : j # i => n.row[j] = mm.row[j])
  /\ n.row[i] \in Row /\ n.row[i].status = "finished" /\ n.row[i].version = mm.row[i].version + 1

LEMMA CloseFields ==
  ASSUME NEW mm \in Memory, NEW i \in Ids, NEW n, n = Close(mm, i)
  PROVE  Closed(n, mm, i)
<1>. DEFINE row == Completed(mm.row[i])
<1>1. mm.row \in [Ids -> Row] /\ mm.row[i] \in Row /\ mm.row[i].version + 1 \in Nat
  <2>1. mm.row \in [Ids -> Row]
    BY DEF Memory
  <2>2. mm.row[i] \in Row
    BY <2>1
  <2>. QED
    BY <2>1, <2>2, RowFields
<1>2. row \in Row /\ row.status = "finished" /\ row.version = mm.row[i].version + 1
  BY <1>1 DEF Row, Completed
<1>3. /\ n.row = [mm.row EXCEPT ![i] = row] /\ n.evidence = mm.evidence
      /\ n.developments = mm.developments /\ n.mutation = mm.mutation
      /\ n.generated = mm.generated /\ n.completions = mm.completions \cup {i}
  BY DEF Close, Memory
<1>4. n = [row |-> n.row, evidence |-> n.evidence, developments |-> n.developments, mutation |-> n.mutation,
           generated |-> n.generated, completions |-> n.completions]
  BY DEF Close, Memory
<1>. SUFFICES ASSUME NEW r, r = row PROVE Closed(n, mm, i)
  OBVIOUS
<1>5. r \in Row /\ r.status = "finished" /\ r.version = mm.row[i].version + 1 /\ n.row = [mm.row EXCEPT ![i] = r]
  BY <1>2, <1>3
<1>. HIDE DEF row
<1>6. n.row \in [Ids -> Row]
  BY ONLY <1>1, <1>5
<1>7. n \in Memory
  <2>1. /\ n.evidence \in [Ids -> SUBSET Articles] /\ n.developments \in [Ids -> SUBSET Articles]
        /\ n.mutation \in [Pipelines -> Ids \cup {NoId}] /\ n.generated \in [Ids -> [Fields -> Nat]]
        /\ n.completions \in SUBSET Ids
    BY <1>3 DEF Memory
  <2>. QED
    BY ONLY <1>4, <1>6, <2>1 DEF Memory
<1>8. n.row[i] = r /\ \A j \in Ids : j # i => n.row[j] = mm.row[j]
  BY <1>1, <1>5
<1>. QED
  BY <1>3, <1>5, <1>7, <1>8 DEF Closed

\* What the human has in hand.
LEMMA ReaderFields ==
  ASSUME StoreInv
  PROVE  /\ reader \in Reader /\ reader.row \in Row /\ reader.row.version \in Nat /\ reader.saved \in Row
         /\ reader.life \in Nat
         /\ reader.at # "idle" => /\ reader.host \in Hosts /\ reader.id \in Ids /\ reader.id \in Formed
                                  /\ reader.row.version >= 1 /\ reader.life <= life[reader.host]
         /\ reader.at = "save" => /\ reader.saver \in Hosts
                                  /\ reader.saved.status # "absent" /\ reader.saved.version >= 1
         /\ reader.at # "idle" /\ reader.life = life[reader.host] =>
              /\ mem[reader.host].row[reader.id].version >= reader.row.version
              /\ mem[reader.host].row[reader.id].version = reader.row.version =>
                   /\ mem[reader.host].row[reader.id].text = reader.row.text
                   /\ mem[reader.host].evidence[reader.id] = reader.evidence
<1>1. reader \in Reader
  BY DEF StoreInv, TypeOK
<1>2. reader.row \in Row /\ reader.saved \in Row /\ reader.life \in Nat
  BY <1>1 DEF Reader
<1>. QED
  BY <1>1, <1>2, RowFields DEF StoreInv, ReaderHolds

\* What a completion does to the issue in memory: it was not completed, and it is the
\* version that the human read.
LEMMA CloseSteps ==
  ASSUME StoreInv, NEW h \in Hosts, NEW i \in Ids, i = reader.id, NEW m2, Closed(m2, mem[h], i),
         mem[h].row[i].version = reader.row.version, mem[h].row[i].status # "finished", reader.at = "opened"
  PROVE  \A j \in Ids : IssueSteps(j, mem[h], m2) /\ IsFiniteSet(m2.developments[j])
<1>. SUFFICES ASSUME NEW j \in Ids PROVE IssueSteps(j, mem[h], m2) /\ IsFiniteSet(m2.developments[j])
  OBVIOUS
<1>1. IsFiniteSet(m2.developments[j])
  BY MemoryFields DEF Closed, RowsHold
<1>2. CASE j = i
  BY <1>1, <1>2 DEF Closed, IssueSteps, Finished
<1>3. CASE j # i
  BY <1>1, <1>3 DEF Closed, IssueSteps
<1>. QED
  BY <1>2, <1>3

LEMMA CompleteKeeps ==
  ASSUME StoreInv, NEW h \in Hosts, Complete(h)
  PROVE  StoreMoves
<1>1. /\ reader.at = "opened"
      /\ UNCHANGED <<about, db, target, decided, stage, issue, run, faults, life, formed, applied, failed>>
  BY DEF Complete
<1>s. SUFFICES ASSUME NEW i \in Ids, i = reader.id, NEW old \in Memory, old = mem[h],
                      NEW m2, m2 = Close(old, i)
               PROVE  StoreMoves
  BY <1>1, ReaderFields, MemoryFields
<1>2. Formed' = Formed
  BY <1>1 DEF Formed
<1>3. CASE reader' = NoReader /\ UNCHANGED mem
  <2>1. ReaderHolds' /\ reader' \in Reader
    BY <1>3, NoFields DEF ReaderHolds
  <2>2. TasksHold' /\ TablesMove
    BY <1>1, NothingGrows, TasksWait, TablesStay
  <2>. QED
    BY <1>1, <1>3, <2>1, <2>2, TableStep DEF StoreInv, TypeOK
<1>4. CASE reader' = NoReader /\ mem' = [mem EXCEPT ![h].completions = @ \cup {i}]
  <2>. SUFFICES ASSUME NEW n, n = [old EXCEPT !.completions = @ \cup {i}] PROVE StoreMoves
    OBVIOUS
  <2>1. n \in Memory /\ n.row = old.row /\ n.evidence = old.evidence /\ n.developments = old.developments
        /\ n.mutation = old.mutation
    BY DEF Memory
  <2>2. mem' = [mem EXCEPT ![h] = n]
    BY <1>4, <1>s
  <2>3. ReaderHolds' /\ reader' \in Reader
    BY <1>4, NoFields DEF ReaderHolds
  <2>4. \A j \in Ids : IssueSteps(j, mem[h], n) /\ IsFiniteSet(n.developments[j])
    BY <1>s, <2>1, MemoryFields DEF IssueSteps, RowsHold
  <2>. QED
    BY <1>1, <1>s, <2>1, <2>2, <2>3, <2>4, MemoryHuman
<1>5. CASE /\ old.row[i].version = reader.row.version /\ old.row[i].status # "finished"
           /\ mem' = [mem EXCEPT ![h] = m2]
           /\ reader' = [reader EXCEPT !.at = "save", !.saver = h, !.saved = m2.row[i]]
  <2>1. Closed(m2, old, i)
    BY <1>s, CloseFields
  <2>2. \A j \in Ids : IssueSteps(j, mem[h], m2) /\ IsFiniteSet(m2.developments[j])
    BY <1>1, <1>5, <1>s, <2>1, CloseSteps
  <2>. SUFFICES ASSUME NEW rw, rw = m2.row[i] PROVE StoreMoves
    OBVIOUS
  <2>3. /\ rw \in Row /\ rw.status = "finished" /\ rw.version = reader.row.version + 1 /\ rw.version >= 1
        /\ rw.version # reader.row.version
    <3>1. rw \in Row /\ rw.status = "finished" /\ rw.version = reader.row.version + 1
      BY <1>5, <2>1 DEF Closed
    <3>. QED
      BY <3>1, ReaderFields
  <2>4. /\ reader' \in Reader /\ reader'.at = "save" /\ reader'.saver = h /\ reader'.saved = rw
        /\ reader'.host = reader.host /\ reader'.id = reader.id /\ reader'.life = reader.life
        /\ reader'.row = reader.row /\ reader'.evidence = reader.evidence
    <3>1. reader' = [reader EXCEPT !.at = "save", !.saver = h, !.saved = rw]
      BY <1>5
    <3>2. reader \in Reader
      BY ReaderFields
    <3>. QED
      BY ONLY <2>3, <3>1, <3>2, h \in Hosts DEF Reader
  <2>5. ReaderHolds'
    <3>1. mem'[h].row[i] = rw /\ \A g \in Hosts : g # h => mem'[g] = mem[g]
      BY <1>5, MemoryFields
    <3>2. reader.life = life[reader.host] =>
            LET mm == mem'[reader.host]
            IN /\ mm.row[i].version >= reader.row.version
               /\ mm.row[i].version = reader.row.version =>
                    mm.row[i].text = reader.row.text /\ mm.evidence[i] = reader.evidence
      <4>1. CASE reader.host = h
        BY <2>3, <3>1, <4>1, ReaderFields
      <4>2. CASE reader.host # h
        BY <1>1, <1>s, <3>1, <4>2, ReaderFields
      <4>. QED
        BY <4>1, <4>2
    <3>3. /\ reader.host \in Hosts /\ reader.id \in Ids /\ reader.id \in Formed
          /\ reader.row.version >= 1 /\ reader.life <= life[reader.host]
      BY <1>1, ReaderFields
    <3>. QED
      BY <1>1, <1>2, <1>s, <2>3, <2>4, <3>2, <3>3 DEF ReaderHolds
  <2>6. m2 \in Memory /\ m2.mutation = mem[h].mutation
    BY <1>s, <2>1 DEF Closed
  <2>. QED
    BY <1>1, <1>5, <2>2, <2>4, <2>5, <2>6, MemoryHuman
<1>. QED
  BY <1>3, <1>4, <1>5, <1>s DEF Complete

LEMMA SaveCompletionKeeps ==
  ASSUME StoreInv, SaveCompletion
  PROVE  StoreMoves
<1>1. /\ reader.at = "save" /\ UpsertIssue(reader.id, reader.saved) /\ reader' = NoReader
      /\ UNCHANGED <<about, mem, target, decided, stage, issue, run, faults, life, formed, applied, failed>>
  BY DEF SaveCompletion
<1>2. TablesMove
  BY <1>1, ReaderFields, UpsertFields
<1>3. ReaderHolds' /\ reader' \in Reader
  BY <1>1, NoFields DEF ReaderHolds
<1>4. TasksHold'
  BY <1>1, <1>2, TasksWait DEF TablesMove
<1>. QED
  BY <1>1, <1>2, <1>3, <1>4, TableStep DEF StoreInv, TypeOK

LEMMA SaveCompletionFailsKeeps ==
  ASSUME StoreInv, SaveCompletionFails
  PROVE  StoreMoves
<1>1. /\ reader.at = "save"
      /\ UpsertIssue(reader.id, reader.saved) \/ UNCHANGED db
      /\ reader' = [reader EXCEPT !.at = "opened", !.saver = NoHost, !.saved = NoRow]
      /\ UNCHANGED <<about, mem, target, decided, stage, issue, run, life, formed, applied, failed>>
  BY DEF SaveCompletionFails
<1>2. TablesMove
  <2>1. CASE UpsertIssue(reader.id, reader.saved)
    BY <1>1, <2>1, ReaderFields, UpsertFields
  <2>2. CASE UNCHANGED db
    BY <1>1, <2>2, TablesStay
  <2>. QED
    BY <1>1, <2>1, <2>2
<1>3. faults' \in 0 .. FaultBudget
  <2>1. faults \in 0 .. FaultBudget
    BY DEF StoreInv, TypeOK
  <2>2. faults < FaultBudget /\ faults' = faults + 1
    BY DEF SaveCompletionFails
  <2>. QED
    BY <2>1, <2>2
<1>4. /\ reader' \in Reader /\ reader'.at = "opened"
      /\ reader'.host = reader.host /\ reader'.id = reader.id /\ reader'.life = reader.life
      /\ reader'.row = reader.row /\ reader'.evidence = reader.evidence
  <2>1. reader \in Reader
    BY ReaderFields
  <2>. QED
    BY ONLY <1>1, <2>1, NoFields DEF Reader
<1>5. Formed' = Formed
  BY <1>1 DEF Formed
<1>6. ReaderHolds'
  BY <1>1, <1>4, <1>5, ReaderFields DEF ReaderHolds
<1>7. TasksHold'
  BY <1>1, <1>2, TasksWait DEF TablesMove
<1>. QED
  BY <1>1, <1>2, <1>3, <1>4, <1>6, <1>7, TableStep DEF StoreInv, TypeOK

-----------------------------------------------------------------------------
(* The invariant holds, and each step is one of those.                     *)

LEMMA StoreInit == Init => StoreInv
<1>. SUFFICES ASSUME Init PROVE StoreInv
  OBVIOUS
<1>1. /\ db.row = [i \in Ids |-> NoRow] /\ db.evidence = [i \in Ids |-> {}]
      /\ db.developments = [i \in Ids |-> {}]
  BY DEF Init
<1>2. db \in Tables
  BY NoFields DEF Init, Tables
<1>3. /\ Hydrated \in Memory /\ Hydrated.row = db.row /\ Hydrated.evidence = db.evidence
      /\ Hydrated.developments = db.developments
  BY <1>1, NoFields DEF Hydrated, Memory
<1>4. mem = [h \in Hosts |-> Hydrated]
  BY DEF Init
<1>5. NoRow.status = "absent" /\ NoRow.version = 0
  BY DEF NoRow
<1>6. TypeOK
  <2>1. mem \in [Hosts -> Memory]
    BY <1>3, <1>4
  <2>2. \A x \in Pipelines : At(x, "queued") <=> run[x].host = NoHost
    BY NoFields DEF Init, At
  <2>. QED
    BY <1>2, <2>1, <2>2, NoFields DEF Init, TypeOK, Stages
<1>7. RowsAreFormed
  <2>1. RowsHold(db)
    BY <1>1, <1>5, FS_EmptySet DEF RowsHold
  <2>2. \A h \in Hosts : RowsHold(mem[h])
    BY <1>3, <1>4, <2>1 DEF RowsHold
  <2>. QED
    BY <2>1, <2>2 DEF RowsAreFormed
<1>8. \A x \in Pipelines : TaskHolds(x)
  BY NoFields DEF Init, TaskHolds, HoldsAt, Writing, Later
<1>9. RowsInOrder
  BY <1>1, <1>5 DEF RowsInOrder
<1>10. ReaderHolds
  BY NoFields DEF Init, ReaderHolds
<1>11. FormedInLives
  <2>. SUFFICES ASSUME NEW m \in Pipelines
                PROVE  IsFiniteSet(formed[m]) /\ Cardinality(formed[m]) <= Cardinality(Spent(m))
    BY DEF FormedInLives
  <2>1. formed[m] = {} /\ IsFiniteSet({}) /\ Cardinality({}) = 0
    BY FS_EmptySet DEF Init
  <2>2. Cardinality(Spent(m)) \in Nat
    BY LivesAreFinite, FS_Subset, FS_CardinalityType DEF Spent
  <2>. QED
    BY <2>1, <2>2
<1>. QED
  BY <1>6, <1>7, <1>8, <1>9, <1>10, <1>11 DEF StoreInv

LEMMA StoreNext ==
  ASSUME StoreInv, [Next]_vars
  PROVE  StoreMoves
<1>1. ASSUME NEW x \in Pipelines, TaskStep(x) PROVE StoreMoves
  BY <1>1, StartKeeps, LookUpKeeps, ListActiveKeeps, FindSourceKeeps, CreateMatchKeeps, ApplyKeeps,
     ReadIssueKeeps, WriteTextKeeps, SaveIssueKeeps, SaveArticleKeeps, SaveDevelopmentKeeps DEF TaskStep
<1>2. ASSUME NEW x \in Pipelines, CallFails(x) PROVE StoreMoves
  BY <1>2, CallFailsKeeps
<1>3. ASSUME NEW h \in Hosts, Restart(h) PROVE StoreMoves
  BY <1>3, RestartKeeps
<1>4. CASE HumanStep
  BY <1>4, OpenIssueKeeps, CompleteKeeps, SaveCompletionKeeps, SaveCompletionFailsKeeps DEF HumanStep
<1>5. CASE UNCHANGED vars
  <2>1. UNCHANGED <<about, mem, db, target, decided, stage, issue, run, reader, faults, life, formed, applied, failed>>
    BY <1>5 DEF vars
  <2>2. TasksHold'
    BY <2>1, NothingGrows, TasksWait
  <2>. QED
    BY <2>1, <2>2, QuietTask DEF StoreInv, TypeOK
<1>. QED
  BY <1>1, <1>2, <1>3, <1>4, <1>5 DEF Next

LEMMA StoreHolds == Spec => []StoreInv
<1>1. StoreInv /\ [Next]_vars => StoreInv'
  BY StoreNext DEF StoreMoves
<1>. QED
  BY <1>1, StoreInit, PTL DEF Spec

-----------------------------------------------------------------------------
(* What follows.                                                           *)

\* Every host's memory, the tables and the local variables are well formed, and exactly
\* the pipelines inside a task have a host.
THEOREM StoreTypeCorrect == Spec => []TypeOK
BY StoreHolds, PTL DEF StoreInv

\* A pipeline that applied its decision and got past T04 without a failed write
\* (_persistMutation) finds its issue and its article in the tables, whatever other tasks
\* and hosts wrote to the issue meanwhile, however often hosts started again.
THEOREM EvidenceIsDurable == Spec => []EvidenceDurable
<1>1. StoreInv => EvidenceDurable
  <2>. SUFFICES ASSUME StoreInv, NEW x \in applied \ failed, stage[x] \in Later \cup {"done"}
                PROVE  db.row[issue[x]].status # "absent" /\ about[x] \in db.evidence[issue[x]]
    BY DEF EvidenceDurable, Later
  <2>1. x \in Pipelines
    BY DEF StoreInv, TypeOK
  <2>2. HoldsAt(x, stage[x], issue[x], run[x])
    BY <2>1, RunFields
  <2>. QED
    BY <2>2 DEF HoldsAt
<1>. QED
  BY <1>1, StoreHolds, PTL

\* The rows of one mutation are statements of their own (_persistIssue, _persistMutation):
\* wherever they stop, no development is without its article and no article without its issue.
THEOREM RowsAreInOrder == Spec => []RowsInOrder
BY StoreHolds, PTL DEF StoreInv

\* What makes a retry harmless is in memory (mutationsByMatchId): a match decision forms an
\* issue at most once per host and life of the host, and not once, as the contract says.
THEOREM FormsOncePerLife == Spec => []FormedOncePerLife
<1>1. StoreInv => FormedOncePerLife
  <2>. SUFFICES ASSUME StoreInv, NEW m \in Pipelines
                PROVE  Cardinality(formed[m]) <= Cardinality(Lives)
    BY DEF FormedOncePerLife
  <2>1. IsFiniteSet(formed[m]) /\ Cardinality(formed[m]) <= Cardinality(Spent(m))
    BY DEF StoreInv, FormedInLives
  <2>2. IsFiniteSet(Spent(m)) /\ Cardinality(Spent(m)) <= Cardinality(Lives)
    BY LivesAreFinite, FS_Subset DEF Spent
  <2>3. Cardinality(formed[m]) \in Nat /\ Cardinality(Spent(m)) \in Nat /\ Cardinality(Lives) \in Nat
    BY <2>1, <2>2, LivesAreFinite, FS_CardinalityType
  <2>. QED
    BY <2>1, <2>2, <2>3
<1>. QED
  BY <1>1, StoreHolds, PTL

\* The human completes what was read: the version that completeIssue compares tells
\* whether a text or evidence came to the issue since, as long as the host goes on living.
THEOREM CompletedAsRead == Spec => CompletesWhatWasRead
<1>1. ASSUME StoreInv, [Next]_vars, NEW h \in Hosts, NEW i \in Ids, Active(mem[h], i),
             mem'[h].row[i].status = "finished", reader.host = h, reader.life = life'[h]
      PROVE  mem[h].row[i].text = reader.row.text /\ mem[h].evidence[i] = reader.evidence
  <2>1. reader.at # "idle"
    BY <1>1 DEF StoreInv, ReaderHolds, NoReader
  <2>2. reader.life <= life[h] /\ reader.life \in Nat /\ life[h] \in Nat
    BY <1>1, <2>1, ReaderFields DEF StoreInv, TypeOK
  <2>3. HostSteps(h)
    BY <1>1, StoreNext DEF StoreMoves
  <2>4. life'[h] = life[h] /\ IssueSteps(i, mem[h], mem'[h])
    BY <1>1, <2>2, <2>3 DEF HostSteps
  <2>5. reader.id = i /\ mem[h].row[i].version = reader.row.version
    BY <1>1, <2>4 DEF IssueSteps, Extended, Finished, Created, Active
  <2>. QED
    BY <1>1, <2>1, <2>4, <2>5, ReaderFields
<1>2. StoreInv /\ [Next]_vars =>
        [\A h \in Hosts, i \in Ids :
           /\ Active(mem[h], i) /\ mem'[h].row[i].status = "finished"
           /\ reader.host = h /\ reader.life = life'[h]
           => /\ mem[h].row[i].text = reader.row.text
              /\ mem[h].evidence[i] = reader.evidence]_vars
  BY <1>1
<1>. QED
  BY <1>2, StoreHolds, PTL DEF Spec, CompletesWhatWasRead

\* A completed issue changes no more (_requireActiveIssue): tasks that began while it was
\* active neither reopen nor extend it, until its host reads the tables again.
THEOREM FinishedForGood == Spec => FinishedIsFinal
<1>1. ASSUME StoreInv, [Next]_vars, NEW h \in Hosts, NEW i \in Ids,
             mem[h].row[i].status = "finished", life'[h] = life[h]
      PROVE  mem'[h].row[i] = mem[h].row[i] /\ mem'[h].evidence[i] = mem[h].evidence[i]
  <2>1. HostSteps(h)
    BY <1>1, StoreNext DEF StoreMoves
  <2>2. life[h] \in Nat
    BY <1>1 DEF StoreInv, TypeOK
  <2>3. IssueSteps(i, mem[h], mem'[h])
    BY <1>1, <2>1, <2>2 DEF HostSteps
  <2>4. i \in Formed
    BY <1>1, MemoryFields DEF RowsHold
  <2>. QED
    BY <1>1, <2>3, <2>4 DEF IssueSteps, Extended, Finished, Created
<1>2. StoreInv /\ [Next]_vars =>
        [\A h \in Hosts, i \in Ids :
           mem[h].row[i].status = "finished" /\ life'[h] = life[h] =>
             /\ mem'[h].row[i] = mem[h].row[i]
             /\ mem'[h].evidence[i] = mem[h].evidence[i]]_vars
  BY <1>1
<1>. QED
  BY <1>2, StoreHolds, PTL DEF Spec, FinishedIsFinal

=============================================================================

------------------------------ MODULE JobLease ------------------------------
(***************************************************************************)
(* What the job queue promises, without clocks, worker names or store      *)
(* calls: a job is leased to one run at a time, only the run that holds    *)
(* the lease decides how the job leaves "running", and a lease may expire  *)
(* under a run that is still working.                                      *)
(***************************************************************************)
CONSTANTS Jobs, Runs, NoRun, NoJob

VARIABLES
  status,   \* the job's place in its life cycle
  holder,   \* the run that holds the job's lease
  active    \* the job a run works on, leased to it or not

vars == <<status, holder, active>>

Init ==
  /\ status = [j \in Jobs |-> "absent"]
  /\ holder = [j \in Jobs |-> NoRun]
  /\ active = [p \in Runs |-> NoJob]

Publish(j) ==
  /\ status[j] = "absent"
  /\ status' = [status EXCEPT ![j] = "queued"]
  /\ UNCHANGED <<holder, active>>

Grant(p, j) ==
  /\ active[p] = NoJob
  /\ status[j] \in {"queued", "retrying"}
  /\ status' = [status EXCEPT ![j] = "running"]
  /\ holder' = [holder EXCEPT ![j] = p]
  /\ active' = [active EXCEPT ![p] = j]

\* The run may go on for a while without a lease, but not settle again.
SettleLease(p, outcome) ==
  /\ active[p] # NoJob
  /\ holder[active[p]] = p
  /\ status' = [status EXCEPT ![active[p]] = outcome]
  /\ holder' = [holder EXCEPT ![active[p]] = NoRun]
  /\ active' \in {active, [active EXCEPT ![p] = NoJob]}

Leave(p) ==
  /\ active' = [active EXCEPT ![p] = NoJob]
  /\ UNCHANGED <<status, holder>>

\* Leases may expire together.
Expire(S) ==
  /\ \A j \in S : holder[j] # NoRun
  /\ status' = [j \in Jobs |-> IF j \in S THEN "retrying" ELSE status[j]]
  /\ holder' = [j \in Jobs |-> IF j \in S THEN NoRun ELSE holder[j]]
  /\ UNCHANGED active

Next ==
  \/ \E j \in Jobs : Publish(j)
  \/ \E p \in Runs, j \in Jobs : Grant(p, j)
  \/ \E p \in Runs, outcome \in {"succeeded", "dead_letter", "retrying"} :
       SettleLease(p, outcome)
  \/ \E p \in Runs : Leave(p)
  \/ \E S \in SUBSET Jobs : Expire(S)

Spec == Init /\ [][Next]_vars
=============================================================================

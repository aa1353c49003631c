-------------------------- MODULE AutomaticIntake --------------------------
(***************************************************************************)
(* Automatic intake: the switch that operators set, the scheduler that is  *)
(* to follow it, and the server that starts and stops around both.         *)
(*                                                                         *)
(* The desired state is persisted before it is applied to the scheduler,   *)
(* and the server listens before it has read it: a call that sets it may   *)
(* meet another one, or the boot, between any two of its steps. A tick of  *)
(* the scheduler enqueues one poll for each eligible company and locale,   *)
(* one after the other; its lock is held in the process under one owner,   *)
(* and so never refuses.                                                   *)
(***************************************************************************)
EXTENDS FiniteSets

CONSTANTS Toggles,      \* calls of POST /news-intake/automatic
          Ticks,        \* ticks that may be in progress at once
          Scopes,       \* eligible companies, with a locale
          BrokenScopes, \* those whose poll cannot be enqueued
          EnvEnabled    \* AI_SCHEDULER_ENABLED

ASSUME IntakeAssumption == BrokenScopes \subseteq Scopes /\ EnvEnabled \in {"on", "off"}

VARIABLES desired,     \* the row of process_settings
          server,      \* where start and stop are
          bootValue,   \* what resolveDesiredOnBoot returned
          running,     \* the scheduler has its timer
          toggle,      \* where each call is
          tick,        \* the scopes each tick still has to serve
          polled,      \* scopes polled since the scheduler started
          contended    \* history: a call overlapped another or the boot, or failed

intakeVars == <<desired, server, bootValue, running, toggle, tick, polled, contended>>

Switch == {"on", "off"}
NoToggle == [at |-> "idle", want |-> "off"]
NoTick == [at |-> "idle", todo |-> {}]

IntakeTypeOK ==
    /\ desired \in {"unset"} \cup Switch
    /\ server \in {"down", "booting", "seeding", "resolved", "up", "stopping"}
    /\ bootValue \in Switch /\ running \in BOOLEAN /\ contended \in BOOLEAN
    /\ toggle \in [Toggles -> [at : {"idle", "persist", "apply"}, want : Switch]]
    /\ tick \in [Ticks -> [at : {"idle", "list", "serve"}, todo : SUBSET Scopes]]
    /\ polled \subseteq Scopes

AllIdle == [g \in Toggles |-> NoToggle]
NoTicks == [k \in Ticks |-> NoTick]

IntakeInit ==
    /\ desired \in {"unset"} \cup Switch
    /\ server = "down" /\ bootValue = "off" /\ running = FALSE /\ contended = FALSE
    /\ toggle = AllIdle /\ tick = NoTicks /\ polled = {}

-----------------------------------------------------------------------------
(* start and stop of the server.                                           *)

\* The port is open, and the controller exists; there is no scheduler yet.
Listen ==
    /\ server = "down" /\ server' = "booting"
    /\ contended' = FALSE
    /\ UNCHANGED <<desired, bootValue, running, toggle, tick, polled>>

\* Mutant: without a persisted state, what was read is passed on.
PassOn ==
    /\ server = "booting" /\ server' = "resolved" /\ bootValue' = desired
    /\ UNCHANGED <<desired, running, toggle, tick, polled, contended>>

\* The persisted state wins over the environment.
ReadDesired ==
    /\ server = "booting"
    /\ IF desired = "unset"
       THEN server' = "seeding" /\ bootValue' = EnvEnabled
       ELSE server' = "resolved" /\ bootValue' = desired
    /\ UNCHANGED <<desired, running, toggle, tick, polled, contended>>

SeedDesired ==
    /\ server = "seeding" /\ server' = "resolved"
    /\ desired' = bootValue
    /\ UNCHANGED <<bootValue, running, toggle, tick, polled, contended>>

StartScheduler == running' = TRUE /\ polled' = IF running THEN polled ELSE {}
StopScheduler == running' = FALSE /\ polled' = polled

Launch ==
    /\ server = "resolved" /\ server' = "up"
    /\ IF bootValue = "on" THEN StartScheduler ELSE StopScheduler
    /\ UNCHANGED <<desired, bootValue, toggle, tick, contended>>

\* stop clears the timer at once; ticks and open requests go on.
BeginStop ==
    /\ server = "up" /\ server' = "stopping"
    /\ StopScheduler
    /\ UNCHANGED <<desired, bootValue, toggle, tick, contended>>

Gone ==
    /\ server' = "down" /\ running' = FALSE
    /\ toggle' = AllIdle /\ tick' = NoTicks
    /\ UNCHANGED <<desired, bootValue, polled, contended>>

\* httpServer.close waits for the open requests, and the process ends.
EndStop == server = "stopping" /\ toggle = AllIdle /\ Gone

ServerCrash == server # "down" /\ Gone

-----------------------------------------------------------------------------
(* AutomaticIntakeController.setDesired.                                   *)

BeginToggle(g) ==
    /\ toggle[g] = NoToggle /\ server \in {"booting", "seeding", "resolved", "up"}
    /\ \E want \in Switch : toggle' = [toggle EXCEPT ![g] = [at |-> "persist", want |-> want]]
    /\ contended' = (contended \/ server # "up" \/ toggle # AllIdle)
    /\ UNCHANGED <<desired, server, bootValue, running, tick, polled>>

Persist(g) ==
    /\ toggle[g].at = "persist"
    /\ desired' = toggle[g].want
    /\ toggle' = [toggle EXCEPT ![g].at = "apply"]
    /\ UNCHANGED <<server, bootValue, running, tick, polled, contended>>

\* The statement fails, before or after it took effect: nothing is applied.
PersistFails(g) ==
    /\ toggle[g].at = "persist"
    /\ desired' \in {desired, toggle[g].want}
    /\ toggle' = [toggle EXCEPT ![g] = NoToggle]
    /\ contended' = TRUE
    /\ UNCHANGED <<server, bootValue, running, tick, polled>>

\* Without a scheduler there is nothing to apply it to.
\* Mutant: the scheduler is stopped whenever it runs, whatever is wanted.
ApplyToggle(g) ==
    /\ toggle[g].at = "apply"
    /\ IF server \notin {"up", "stopping"} THEN UNCHANGED <<running, polled>>
       ELSE IF ~running THEN StartScheduler
       ELSE StopScheduler
    /\ toggle' = [toggle EXCEPT ![g] = NoToggle]
    /\ UNCHANGED <<desired, server, bootValue, tick, contended>>

ApplyToScheduler(g) ==
    /\ toggle[g].at = "apply"
    /\ IF server \notin {"up", "stopping"} THEN UNCHANGED <<running, polled>>
       ELSE IF toggle[g].want = "on" THEN StartScheduler
       ELSE StopScheduler
    /\ toggle' = [toggle EXCEPT ![g] = NoToggle]
    /\ UNCHANGED <<desired, server, bootValue, tick, contended>>

-----------------------------------------------------------------------------
(* MultiTenantIngestScheduler.tick. Ticks overlap when one outlasts the    *)
(* interval, and one that began goes on after a stop.                      *)

BeginTick(k) ==
    /\ running /\ tick[k] = NoTick
    /\ tick' = [tick EXCEPT ![k].at = "list"]
    /\ UNCHANGED <<desired, server, bootValue, running, toggle, polled, contended>>

ListEligible(k) ==
    /\ tick[k].at = "list"
    /\ tick' = [tick EXCEPT ![k] = [at |-> "serve", todo |-> Scopes]]
    /\ UNCHANGED <<desired, server, bootValue, running, toggle, polled, contended>>

ListFails(k) ==
    /\ tick[k].at = "list"
    /\ tick' = [tick EXCEPT ![k] = NoTick]
    /\ UNCHANGED <<desired, server, bootValue, running, toggle, polled, contended>>

\* Mutant: a failed enqueue ends the tick.
StopAtFailure(k, s) ==
    IF s \in BrokenScopes THEN [at |-> "serve", todo |-> {}] ELSE [at |-> "serve", todo |-> tick[k].todo \ {s}]
\* A failed enqueue is recorded, and the next scope has its turn.
AfterScope(k, s) == [at |-> "serve", todo |-> tick[k].todo \ {s}]

EnqueuePoll(k) ==
    /\ tick[k].at = "serve"
    /\ \E s \in tick[k].todo :
          /\ tick' = [tick EXCEPT ![k] = AfterScope(k, s)]
          /\ polled' = IF s \in BrokenScopes THEN polled ELSE polled \cup {s}
    /\ UNCHANGED <<desired, server, bootValue, running, toggle, contended>>

EndTick(k) ==
    /\ tick[k] = [at |-> "serve", todo |-> {}]
    /\ tick' = [tick EXCEPT ![k] = NoTick]
    /\ UNCHANGED <<desired, server, bootValue, running, toggle, polled, contended>>

TickStep(k) == BeginTick(k) \/ ListEligible(k) \/ ListFails(k) \/ EnqueuePoll(k) \/ EndTick(k)

IntakeNext ==
    \/ Listen \/ ReadDesired \/ SeedDesired \/ Launch \/ BeginStop \/ EndStop \/ ServerCrash
    \/ \E g \in Toggles : BeginToggle(g) \/ Persist(g) \/ PersistFails(g) \/ ApplyToScheduler(g)
    \/ \E k \in Ticks : TickStep(k)

\* The timer goes on firing, promises settle, and the database answers now and then.
IntakeFairness ==
    \A k \in Ticks : WF_intakeVars(TickStep(k)) /\ SF_intakeVars(ListEligible(k))

IntakeSpec == IntakeInit /\ [][IntakeNext]_intakeVars /\ IntakeFairness

-----------------------------------------------------------------------------
(* What an operator asked for is what happens: whenever no call is under   *)
(* way on a server that is up, and since it came up the calls have come    *)
(* one at a time and succeeded, the scheduler runs exactly if the          *)
(* persisted state says so, through any number of crashes and restarts.    *)
QuietAgrees ==
    server = "up" /\ toggle = AllIdle /\ ~contended => running = (desired = "on")

(* One company whose poll cannot be enqueued, and overlapping ticks, do    *)
(* not keep the others from being polled while the scheduler runs.         *)
OthersArePolled == running ~> (~running \/ Scopes \ BrokenScopes \subseteq polled)

(* The safety of the automatic intake: through crashes, restarts and ticks *)
(* that overlap, a server that has come to rest runs its scheduler exactly *)
(* if the stored switch says so, as long as the calls that set it came one *)
(* at a time and did not fail half way.                                    *)
IntakeSafe == IntakeTypeOK /\ QuietAgrees
=============================================================================

----------------------------- MODULE ModelCalls -----------------------------
(***************************************************************************)
(* A task's call of the language model: the prompt must be the active one  *)
(* (PromptRegistry), the budget must not be used up (AiBudgetGate), the    *)
(* limiter must let the request pass (OpenAiRateLimiter), and what comes   *)
(* back, or the error, is classified and recorded (AiTaskKernel,           *)
(* PromptExecutionService).                                                *)
(*                                                                         *)
(* All calls share one gate and one limiter, in memory of the host.  What  *)
(* the code keeps as moments is kept here as ages, so that time need not   *)
(* be bounded: ClockTicks makes everything older.                          *)
(***************************************************************************)
EXTENDS Naturals, FiniteSets

CONSTANTS ModelCallers,     \* calls of executeActive
          Models,           \* names of models
          ActiveFor,        \* the models the active version of the prompt is compatible with
          MaxConcurrency,
          RequestLimit,     \* requestsPerMinute * safetyRatio, rounded up, or 0 for none
          TokenLimit,       \* tokensPerMinute * safetyRatio, rounded down, or 0 for none
          Minute,           \* the limiter's window, in ticks
          Sizes,            \* tokens that a request is estimated to need, or turns out to
          RetryAfter,       \* what a refusal may ask to wait for, in ticks
          MaxRequests,      \* of the budget, enforced
          MaxTokens,
          BudgetWindow      \* in ticks

ASSUME ModelCallAssumption ==
    /\ ActiveFor \subseteq Models /\ MaxConcurrency \in Nat \ {0} /\ Minute \in Nat \ {0}
    /\ RequestLimit \in Nat /\ TokenLimit \in Nat /\ Sizes \subseteq Nat /\ RetryAfter \subseteq Nat
    /\ MaxRequests \in Nat \ {0} /\ MaxTokens \in Nat \ {0} /\ BudgetWindow \in Nat \ {0}

VARIABLES window,      \* per model, the limiter's requests and their tokens
          active,      \* the limiter's count of requests in flight
          cooldown,    \* per model, ticks until the provider asked to be called again
          budget,      \* the gate's window of one company
          recent,      \* history: per model, the requests let pass in the last minute
          caller       \* where each call is

modelVars == <<window, active, cooldown, budget, recent, caller>>

Ages == 0 .. Minute       \* Minute stands for a minute and more
Slot == [by : ModelCallers, age : Ages, tokens : Nat]
Passed == [by : ModelCallers, age : 0 .. Minute - 1, tokens : Sizes]
Budget == [age : 0 .. BudgetWindow, requests : Nat, tokens : Nat]
Outcomes == {"none", "succeeded", "not active", "output", "budget", "provider"}
Caller == [at : {"ready", "asleep", "sent", "over"}, model : Models, size : Sizes, wait : Nat,
           outcome : Outcomes, retryable : BOOLEAN]

InFlight == {k \in ModelCallers : caller[k].at = "sent"}

ModelTypeOK ==
    /\ window \in [Models -> SUBSET Slot]
    /\ cooldown \in [Models -> Nat]
    /\ budget \in Budget
    /\ recent \in [Models -> SUBSET Passed]
    /\ caller \in [ModelCallers -> Caller]
    \* a lease is held by each request in flight, and by nothing else
    /\ active = Cardinality(InFlight) /\ active <= MaxConcurrency

ModelInit ==
    /\ window = [m \in Models |-> {}] /\ active = 0
    /\ cooldown = [m \in Models |-> 0]
    /\ budget = [age |-> 0, requests |-> 0, tokens |-> 0]
    /\ recent = [m \in Models |-> {}]
    /\ caller \in [ModelCallers -> [at : {"ready"}, model : Models, size : Sizes, wait : {0},
                                    outcome : {"none"}, retryable : {FALSE}]]

\* Mutant: a second too early, the request is forgotten.
PruneEarly(slots) == {s \in slots : s.age < Minute - 1}
Prune(slots) == {s \in slots : s.age < Minute}

Older(slot) == [slot EXCEPT !.age = IF @ < Minute THEN @ + 1 ELSE @]

\* Everything is a tick older.
ClockTicks ==
    /\ window' = [m \in Models |-> {Older(s) : s \in window[m]}]
    /\ recent' = [m \in Models |-> {Older(r) : r \in {q \in recent[m] : q.age + 1 < Minute}}]
    /\ cooldown' = [m \in Models |-> IF cooldown[m] > 0 THEN cooldown[m] - 1 ELSE 0]
    /\ budget' = [budget EXCEPT !.age = IF @ < BudgetWindow THEN @ + 1 ELSE @]
    /\ caller' = [k \in ModelCallers |->
          [caller[k] EXCEPT !.wait = IF @ > 0 THEN @ - 1 ELSE 0]]
    /\ UNCHANGED active
    /\ modelVars' # modelVars

-----------------------------------------------------------------------------
(* The limiter.                                                            *)

\* The sum of the tokens of some slots, which callers tell apart.
Reserved(slots) == Cardinality(UNION {{s.by} \X (1 .. s.tokens) : s \in slots})

\* A request that needs more than the whole limit passes when nothing is reserved.
\* Mutant: it waits for room that there will never be.
Overfull(slots, size) == Reserved(slots) + size > TokenLimit
TooMany(slots, size) == Reserved(slots) + size > TokenLimit /\ slots # {}

\* _waitFor: for the slowest of the reasons to wait; 50 ms are a tick.
Longer(v, w) == IF v > w THEN v ELSE w
UntilOldest(slots) ==
    IF slots = {} THEN 1 ELSE Minute - (CHOOSE s \in slots : \A other \in slots : s.age >= other.age).age
WaitFor(m, size) ==
    LET slots == Prune(window[m])
        busy == IF active >= MaxConcurrency THEN 1 ELSE 0
        full == \/ RequestLimit > 0 /\ Cardinality(slots) >= RequestLimit
                \/ TokenLimit > 0 /\ TooMany(slots, size)
    IN  Longer(Longer(busy, cooldown[m]), IF full THEN UntilOldest(slots) ELSE 0)

\* One turn of the loop of acquire: the request passes, or sleeps.
Acquire(k) ==
    LET m == caller[k].model
        w == WaitFor(m, caller[k].size)
    IN  IF w = 0
        THEN /\ window' = [window EXCEPT ![m] =
                    Prune(@) \cup {[by |-> k, age |-> 0, tokens |-> caller[k].size]}]
             /\ recent' = [recent EXCEPT ![m] = @ \cup {[by |-> k, age |-> 0, tokens |-> caller[k].size]}]
             /\ active' = active + 1
             /\ caller' = [caller EXCEPT ![k].at = "sent"]
        ELSE /\ window' = [window EXCEPT ![m] = Prune(@)]
             /\ caller' = [caller EXCEPT ![k].at = "asleep", ![k].wait = w]
             /\ UNCHANGED <<recent, active>>

\* Mutant: the slot counts what was used, be it less than what was asked for.
UsedExactly(k, tokens) == [window EXCEPT ![caller[k].model] =
    {IF s.by = k THEN [s EXCEPT !.tokens = tokens] ELSE s : s \in @}]
\* Its slot, if it is still there, counts what was really used, if that is more.
Used(k, tokens) == [window EXCEPT ![caller[k].model] =
    {IF s.by = k THEN [s EXCEPT !.tokens = Longer(@, tokens)] ELSE s : s \in @}]

ReleaseLease(k, tokens) == active' = active - 1 /\ window' = Used(k, tokens)
\* Mutant: a failed request keeps its lease.
KeepLease(k) == UNCHANGED <<active, window>>
ReleaseFailed(k) == ReleaseLease(k, 0)

-----------------------------------------------------------------------------
(* The budget, and the kernel around both.                                 *)

Current == IF budget.age = BudgetWindow THEN [age |-> 0, requests |-> 0, tokens |-> 0] ELSE budget
EndModelCall(k, outcome, retryable) ==
    caller' = [caller EXCEPT ![k].at = "over", ![k].outcome = outcome, ![k].retryable = retryable,
                             ![k].wait = 0]

\* requireActive throws: no active version is compatible with the model.
RefusePrompt(k) ==
    /\ caller[k].at = "ready" /\ caller[k].model \notin ActiveFor
    /\ EndModelCall(k, "not active", FALSE)
    /\ UNCHANGED <<window, active, cooldown, budget, recent>>

Exhausted == Current.requests >= MaxRequests

\* beforeRequest throws inside the try block: an error that it calls not retryable,
\* and whose statusCode is 429, becomes the provider's AI_PROVIDER_RATE_LIMITED.
RefuseBudget(k) ==
    /\ caller[k].at = "ready" /\ caller[k].model \in ActiveFor
    /\ Exhausted
    /\ budget' = Current
    /\ EndModelCall(k, "budget", TRUE)
    /\ UNCHANGED <<window, active, cooldown, recent>>

BeginRequest(k) ==
    /\ caller[k].at = "ready" /\ caller[k].model \in ActiveFor
    /\ ~Exhausted
    /\ budget' = [Current EXCEPT !.requests = @ + 1]
    /\ Acquire(k)
    /\ UNCHANGED cooldown

WakeUp(k) ==
    /\ caller[k].at = "asleep" /\ caller[k].wait = 0
    /\ Acquire(k)
    /\ UNCHANGED <<cooldown, budget>>

\* The answer is parsed and its use is charged; the gate throws when it is too
\* much, and what was paid for is lost.
Succeed(k) ==
    /\ caller[k].at = "sent"
    /\ \E tokens \in Sizes :
          /\ ReleaseLease(k, tokens)
          /\ budget' = [Current EXCEPT !.tokens = @ + tokens]
          /\ IF Current.tokens + tokens > MaxTokens THEN EndModelCall(k, "budget", FALSE)
             ELSE EndModelCall(k, "succeeded", FALSE) \/ EndModelCall(k, "output", FALSE)
    /\ UNCHANGED <<cooldown, recent>>

\* It is empty, no JSON or not of the schema: nothing is charged.
RejectOutput(k) ==
    /\ caller[k].at = "sent"
    /\ \E tokens \in Sizes : ReleaseLease(k, tokens)
    /\ EndModelCall(k, "output", FALSE)
    /\ UNCHANGED <<cooldown, budget, recent>>

\* 429: the cooldown is set anew, even if it was longer.
ProviderLimits(k) ==
    /\ caller[k].at = "sent"
    /\ \E after \in RetryAfter :
          cooldown' = IF after > 0 THEN [cooldown EXCEPT ![caller[k].model] = after] ELSE cooldown
    /\ ReleaseFailed(k) /\ EndModelCall(k, "provider", TRUE)
    /\ UNCHANGED <<budget, recent>>

\* A timeout, a broken connection and a 5xx may be retried; a rejection may not.
ProviderFails(k) ==
    /\ caller[k].at = "sent"
    /\ \E retryable \in BOOLEAN : EndModelCall(k, "provider", retryable)
    /\ ReleaseFailed(k)
    /\ UNCHANGED <<cooldown, budget, recent>>

Provider(k) == Succeed(k) \/ RejectOutput(k) \/ ProviderLimits(k) \/ ProviderFails(k)

ModelNext ==
    \/ ClockTicks
    \/ \E k \in ModelCallers : \/ RefusePrompt(k) \/ RefuseBudget(k) \/ BeginRequest(k)
                               \/ WakeUp(k) \/ Provider(k)

\* Time passes, timers fire, and the client's timeout ends every request.
ModelFairness ==
    /\ WF_modelVars(ClockTicks)
    /\ \A k \in ModelCallers : WF_modelVars(WakeUp(k)) /\ WF_modelVars(Provider(k))

ModelSpec == ModelInit /\ [][ModelNext]_modelVars

-----------------------------------------------------------------------------
(* In no minute are more requests let pass than the limit allows, however  *)
(* many callers slept and woke at the same moment.                         *)
MinuteIsRespected ==
    RequestLimit > 0 => \A m \in Models : Cardinality(recent[m]) <= RequestLimit

(* Nor are more tokens asked for in a minute than the limit allows, but by *)
(* one request that is larger than the whole limit, and then by it alone.  *)
TokensAreRespected ==
    TokenLimit > 0 => \A m \in Models : Cardinality(recent[m]) > 1 => Reserved(recent[m]) <= TokenLimit

(* Whoever waits for the limiter is answered in the end: by the provider,  *)
(* or with an error; a request larger than the whole limit is, too.        *)
WaitersAreAnswered == \A k \in ModelCallers : caller[k].at = "asleep" ~> caller[k].at = "over"

(* "AI request budget exceeded ... retryable: false": a call that is       *)
(* refused for the budget is not to be tried again.  The code does not     *)
(* keep this: on its way out the error becomes one of the provider, which  *)
(* is repeated.                                                            *)
BudgetRefusalIsFinal == \A k \in ModelCallers : caller[k].outcome = "budget" => ~caller[k].retryable

(* The safety of the limiter: neither limit is broken in any minute.       *)
ModelSafe == ModelTypeOK /\ MinuteIsRespected /\ TokensAreRespected
=============================================================================

---------------------------- MODULE AlertDelivery ----------------------------
(***************************************************************************)
(* From a development of an issue to the mail about it: the eligibility    *)
(* evaluation writes one event for each recipient and channel, task T12    *)
(* writes the two sentences the mail needs, and the delivery sends it,     *)
(* retrying what the mail server did not accept.                           *)
(*                                                                         *)
(* The issue is in memory of the host; preferences, decisions, events,     *)
(* sentences and deliveries are rows in PostgreSQL, and a call stops at    *)
(* every statement on them and at the mail server.  Any number of calls    *)
(* of each kind run at once: the routes ask for an idempotency key and do  *)
(* not look at it.                                                         *)
(***************************************************************************)
EXTENDS Naturals, FiniteSets

CONSTANTS Evaluations,   \* calls of the eligibility evaluation
          Writers,       \* calls of T12 for a direct event
          Deliverers,    \* calls of the delivery for a direct event
          Developments,  \* developments of one issue
          CreatedWith,   \* those that came with the issue; the others updated it
          MaxDecision,   \* bound: how often T09 and T10 decide the issue's priority
          MaxSends    \* emailConfig.retry.maxAttempts, an integer from 1 to 5

\* A call is of one kind, and finitely many deliveries run at once.
ASSUME AlertAssumption ==
    /\ CreatedWith \subseteq Developments /\ MaxDecision \in Nat \ {0} /\ MaxSends \in 1 .. 5
    /\ Evaluations \cap (Writers \cup Deliverers) = {} /\ Writers \cap Deliverers = {}
    /\ IsFiniteSet(Deliverers)

VARIABLES urgency,      \* priority and content of the issue
          preference,   \* the recipient's
          events,       \* ai.alert_events: at most one row for each dedupe key
          blurbs,       \* the developments whose direct event has a row of T12
          deliveries,   \* ai.email_deliveries: at most one row for each event
          mails,        \* how many mails the server accepted for an event
          untold,       \* history: how many of them the row may not show
          overlaps,     \* history: how often a delivery set out while another was out
          alert         \* where each call is

alertVars == <<urgency, preference, events, blurbs, deliveries, mails, untold, overlaps, alert>>
issueSide == <<urgency, preference>>
mailSide == <<deliveries, mails, untold, overlaps>>

EventChannels == {"langsung", "ringkasan", "none"}
EventKeys == Developments \X EventChannels    \* tenant, company, issue and recipient are fixed
Direct(d) == <<d, "langsung">>

Urgency == [priority : {"tinggi", "sedang", "rendah"}, decision : 1 .. MaxDecision,
            reasoned : BOOLEAN, ready : BOOLEAN]
Preference == [direct : BOOLEAN, digest : BOOLEAN]   \* quiet hours: see FindEligible
Event == {"none", "suppressed", "eligible", "content blocked", "delivery blocked"}
Delivery == [status : {"none", "queued", "sent", "failed"}, attempts : Nat]
NoDelivery == [status |-> "none", attempts |-> 0]

\* What a call remembers: the issue and the preference as it read them, the key
\* it settled on; the number of its attempt, the attempts it read, and whether it
\* may try again.  A call that is over remembers nothing.
Evaluation == [at : {"issue", "preference", "decision", "find", "content", "create"},
               of : Developments, urgency : Urgency, preference : Preference,
               channel : EventChannels, verdict : {"suppressed", "eligible"}]
Writer == [at : {"event", "blurb", "model", "create", "block", "over"}, of : Developments]
Sender == [at : {"event", "prepare", "block", "row", "insert", "send", "noted", "note", "mark",
                 "missed", "miss", "fail", "sleep", "over"},
           of : Developments, attempt : 0 .. MaxSends, read : Nat, retry : BOOLEAN]

Settled == [priority |-> "rendah", decision |-> 1, reasoned |-> FALSE, ready |-> FALSE]
NoPreference == [direct |-> FALSE, digest |-> FALSE]

AlertCall(k, d) ==
    CASE k \in Evaluations -> [at |-> "issue", of |-> d, urgency |-> Settled, preference |-> NoPreference,
                               channel |-> "none", verdict |-> "suppressed"]
      [] k \in Writers     -> [at |-> "event", of |-> d]
      [] k \in Deliverers  -> [at |-> "event", of |-> d, attempt |-> 0, read |-> 0, retry |-> FALSE]

AlertTypeOK ==
    /\ urgency \in Urgency /\ preference \in Preference
    /\ events \in [EventKeys -> Event]
    /\ blurbs \subseteq Developments
    /\ deliveries \in [Developments -> Delivery]
    /\ mails \in [Developments -> Nat] /\ untold \in [Developments -> Nat]
    /\ overlaps \in [Developments -> Nat]
    /\ alert \in [Evaluations \cup Writers \cup Deliverers -> Evaluation \cup Writer \cup Sender]
    \* what has no channel is never eligible
    /\ \A d \in Developments : events[<<d, "none">>] \in {"none", "suppressed"}

AlertInit ==
    /\ urgency = Settled
    /\ preference \in Preference
    /\ events = [k \in EventKeys |-> "none"]
    /\ blurbs = {}
    /\ deliveries = [d \in Developments |-> NoDelivery]
    /\ mails = [d \in Developments |-> 0] /\ untold = mails /\ overlaps = mails
    /\ \E of \in [Evaluations \cup Writers \cup Deliverers -> Developments] :
          alert = [k \in DOMAIN of |-> AlertCall(k, of[k])]

Of(k) == alert[k].of
\* An evaluation that is over may be asked for again.
Over(k) == IF k \in Evaluations THEN AlertCall(k, Of(k)) ELSE [AlertCall(k, Of(k)) EXCEPT !.at = "over"]
StepTo(k, from, to) ==
    /\ alert[k].at = from
    /\ alert' = [alert EXCEPT ![k] = IF to = "over" THEN Over(k) ELSE [@ EXCEPT !.at = to]]

-----------------------------------------------------------------------------
(* What the rest of the system does meanwhile.                             *)

\* T09 decides a new analysis and is applied; T10 explains it later.
Reprioritise ==
    /\ urgency.decision < MaxDecision
    /\ \E p \in {"tinggi", "sedang", "rendah"} :
          urgency' = [urgency EXCEPT !.priority = p, !.decision = @ + 1, !.reasoned = FALSE]
    /\ UNCHANGED <<preference, events, blurbs, mailSide, alert>>

ExplainPriority ==
    /\ ~urgency.reasoned
    /\ urgency' = [urgency EXCEPT !.reasoned = TRUE]
    /\ UNCHANGED <<preference, events, blurbs, mailSide, alert>>

\* T05 writes the title and the summary that getAlertContentReadiness asks for.
WriteContent ==
    /\ ~urgency.ready
    /\ urgency' = [urgency EXCEPT !.ready = TRUE]
    /\ UNCHANGED <<preference, events, blurbs, mailSide, alert>>

\* PUT /alert-preference
ChangePreference ==
    /\ \E p \in Preference : preference' = p
    /\ UNCHANGED <<urgency, events, blurbs, mailSide, alert>>

-----------------------------------------------------------------------------
(* AlertEligibilityService.evaluate                                        *)

\* Nothing is written by an evaluation but the event.
Evaluating == UNCHANGED <<issueSide, blurbs, mailSide>>

ReadAlertIssue(k) ==
    /\ alert[k].at = "issue"
    /\ alert' = [alert EXCEPT ![k].at = "preference", ![k].urgency = urgency]
    /\ Evaluating /\ UNCHANGED events

ReadPreference(k) ==
    /\ alert[k].at = "preference"
    /\ alert' = [alert EXCEPT ![k].at = "decision", ![k].preference = preference]
    /\ Evaluating /\ UNCHANGED events

\* _selectChannel.  isMaterial is written nowhere, so that an update of an
\* urgent issue is always "material_update_unresolved".
Channel(d, priority, wanted) ==
    CASE priority = "tinggi" /\ d \in CreatedWith /\ wanted.direct -> "langsung"
      [] priority = "sedang" /\ wanted.digest                      -> "ringkasan"
      [] OTHER                                                     -> "none"

\* _validateCurrentPriority throws unless the decision is still the issue's.
SelectChannel(k) ==
    /\ alert[k].at = "decision"
    /\ LET channel == Channel(Of(k), alert[k].urgency.priority, alert[k].preference)
       IN  alert' = [alert EXCEPT ![k] =
              IF @.urgency.decision # urgency.decision THEN Over(k)
              ELSE [@ EXCEPT !.channel = channel, !.preference = NoPreference,
                             !.verdict = IF channel = "none" THEN "suppressed" ELSE "eligible",
                             !.at = IF channel = "none" THEN "create" ELSE "find"]]
    /\ Evaluating /\ UNCHANGED events

Target(k) == <<Of(k), alert[k].channel>>

\* A duplicate and the recipient's quiet hours, if this is one of them, make the
\* verdict "suppressed", under the very key.
FindEligible(k) ==
    /\ alert[k].at = "find"
    /\ \E quiet \in BOOLEAN :
          LET held == events[Target(k)] = "eligible" \/ quiet
          IN  alert' = [alert EXCEPT
                 ![k].verdict = IF held THEN "suppressed" ELSE "eligible",
                 ![k].at = IF ~held /\ alert[k].channel = "langsung" THEN "content" ELSE "create"]
    /\ Evaluating /\ UNCHANGED events

\* The reason is that of the decision that was validated.
CheckContent(k) ==
    /\ alert[k].at = "content"
    /\ \E explained \in {urgency.reasoned \/ alert[k].urgency.decision # urgency.decision,
                         urgency.reasoned /\ alert[k].urgency.decision = urgency.decision} :
          alert' = [alert EXCEPT
             ![k].verdict = IF urgency.ready /\ explained THEN "eligible" ELSE "suppressed",
             ![k].urgency = Settled, ![k].at = "create"]
    /\ Evaluating /\ UNCHANGED events

\* Mutant: the conflict updates the row.
Replaced(k) == alert[k].verdict
\* INSERT ... ON CONFLICT (dedupe_key): the row that is there stays as it is.
Inserted(k) == IF events[Target(k)] = "none" THEN alert[k].verdict ELSE events[Target(k)]

CreateEvent(k) ==
    /\ StepTo(k, "create", "over")
    /\ events' = [events EXCEPT ![Target(k)] = Inserted(k)]
    /\ Evaluating

Evaluate(k) ==
    \/ ReadAlertIssue(k) \/ ReadPreference(k) \/ SelectChannel(k) \/ FindEligible(k)
    \/ CheckContent(k) \/ CreateEvent(k)

-----------------------------------------------------------------------------
(* DirectAlertBlurbService.generate                                        *)

StartBlurb(k) ==
    /\ StepTo(k, "event", IF events[Direct(Of(k))] = "eligible" THEN "blurb" ELSE "over")
    /\ UNCHANGED <<issueSide, events, blurbs, mailSide>>

FindBlurb(k) ==
    /\ StepTo(k, "blurb", IF Of(k) \in blurbs THEN "over" ELSE "model")
    /\ UNCHANGED <<issueSide, events, blurbs, mailSide>>

\* _loadValidatedInput: the issue is still urgent, explained and complete.
Blurbable == urgency.priority = "tinggi" /\ urgency.reasoned /\ urgency.ready

WriteBlurb(k) ==
    /\ Blurbable
    /\ StepTo(k, "model", "create")
    /\ UNCHANGED <<issueSide, events, blurbs, mailSide>>

CreateBlurb(k) ==
    /\ StepTo(k, "create", "over")
    /\ blurbs' = blurbs \cup {Of(k)}
    /\ UNCHANGED <<issueSide, events, mailSide>>

\* The input is refused, the model or a statement fails, for a moment or for good.
BlurbThrows(k) ==
    /\ alert[k].at \in {"model", "create"}
    /\ alert' = [alert EXCEPT ![k].at = "block"]
    /\ UNCHANGED <<issueSide, events, blurbs, mailSide>>

\* markContentBlocked and markDeliveryBlocked: whatever the row says by now.
Block(k, status) ==
    /\ StepTo(k, "block", "over")
    /\ events' = [events EXCEPT ![Direct(Of(k))] = status]
    /\ UNCHANGED <<issueSide, blurbs, mailSide>>

Generate(k) ==
    \/ StartBlurb(k) \/ FindBlurb(k) \/ WriteBlurb(k) \/ CreateBlurb(k) \/ BlurbThrows(k)
    \/ Block(k, "content blocked")

-----------------------------------------------------------------------------
(* EmailDeliveryService.deliver                                            *)

Delivering == UNCHANGED <<issueSide, events, blurbs>>
Out(k) == alert[k].at \in {"insert", "send", "noted", "note", "mark", "missed", "miss", "fail", "sleep"}
Rivals(k) == {j \in Deliverers \ {k} : Of(j) = Of(k) /\ Out(j)}

StartDelivery(k) ==
    /\ StepTo(k, "event", IF events[Direct(Of(k))] = "eligible" THEN "prepare" ELSE "over")
    /\ Delivering /\ UNCHANGED mailSide

\* Mutant: the sentences are not among the required fields.
PreparedWithout(k) == urgency.priority = "tinggi" /\ urgency.ready
\* _prepare finds every field.  It does not ask for the reason.
Prepared(k) == urgency.priority = "tinggi" /\ urgency.ready /\ Of(k) \in blurbs

Prepare(k) ==
    /\ Prepared(k)
    /\ StepTo(k, "prepare", "row")
    /\ Delivering /\ UNCHANGED mailSide

\* A field is missing, or a read fails.
PrepareThrows(k) ==
    /\ StepTo(k, "prepare", "block")
    /\ Delivering /\ UNCHANGED mailSide

\* The loop starts behind the attempts of the row, and throws when they are used up.
SetOut(k, row) ==
    /\ alert' = [alert EXCEPT ![k] =
          IF row.attempts < MaxSends THEN [@ EXCEPT !.at = "send", !.attempt = row.attempts + 1]
          ELSE Over(k)]
    /\ overlaps' = [overlaps EXCEPT ![Of(k)] = @ + (IF Rivals(k) = {} THEN 0 ELSE 1)]

\* Mutant: what was sent is delivered again.
Unfinished(row) == TRUE
Unsent(row) == row.status # "sent"

FindDelivery(k) ==
    /\ alert[k].at = "row"
    /\ LET row == deliveries[Of(k)]
       IN  IF Unsent(row) /\ row.status # "none" THEN SetOut(k, row)
           ELSE /\ StepTo(k, "row", IF Unsent(row) THEN "insert" ELSE "over")
                /\ UNCHANGED overlaps
    /\ Delivering /\ UNCHANGED <<deliveries, mails, untold>>

\* INSERT ... ON CONFLICT DO NOTHING, and the row is read again.
InsertDelivery(k) ==
    /\ alert[k].at = "insert"
    /\ LET row == deliveries[Of(k)]
       IN  /\ deliveries' = [deliveries EXCEPT ![Of(k)].status = IF @ = "none" THEN "queued" ELSE @]
           /\ SetOut(k, row)
    /\ Delivering /\ UNCHANGED <<mails, untold>>

Accept(k) == mails' = [mails EXCEPT ![Of(k)] = @ + 1]
Untell(k) == untold' = [untold EXCEPT ![Of(k)] = @ + 1]
Missing(k, retry) == alert' = [alert EXCEPT ![k].at = "missed", ![k].retry = retry, ![k].read = 0]

Send(k) ==
    /\ StepTo(k, "send", "noted")
    /\ Accept(k)
    /\ Delivering /\ UNCHANGED <<deliveries, untold, overlaps>>

\* isRetryableProviderError: the connection broke, or the mail was refused.
SendThrows(k) ==
    /\ alert[k].at = "send"
    /\ \E retry \in BOOLEAN : Missing(k, retry)
    /\ Delivering /\ UNCHANGED mailSide

\* The server accepts the mail and the connection breaks before it says so.
AnswerLost(k) ==
    /\ alert[k].at = "send"
    /\ Accept(k) /\ Untell(k) /\ Missing(k, TRUE)
    /\ Delivering /\ UNCHANGED <<deliveries, overlaps>>

\* recordAttempt reads the attempts and writes them with its own.
ReadAttempts(k) ==
    /\ alert[k].at \in {"noted", "missed"}
    /\ alert' = [alert EXCEPT ![k].read = deliveries[Of(k)].attempts,
                             ![k].at = IF @ = "noted" THEN "note" ELSE "miss"]
    /\ Delivering /\ UNCHANGED mailSide

Record(k) == deliveries' = [deliveries EXCEPT ![Of(k)].attempts = alert[k].read + 1]
MarkAs(k, status) == deliveries' = [deliveries EXCEPT ![Of(k)].status = status]

NoteSent(k) ==
    /\ alert[k].at = "note"
    /\ alert' = [alert EXCEPT ![k].at = "mark", ![k].read = 0]
    /\ Record(k)
    /\ Delivering /\ UNCHANGED <<mails, untold, overlaps>>

MarkSent(k) ==
    /\ StepTo(k, "mark", "over")
    /\ MarkAs(k, "sent")
    /\ Delivering /\ UNCHANGED <<mails, untold, overlaps>>

\* A statement fails after the mail was accepted: the error, ECONNRESET or
\* another, is taken for one of the mail server.
NoteThrows(k) ==
    /\ alert[k].at \in {"noted", "note", "mark"}
    /\ Untell(k)
    /\ \E retry \in BOOLEAN : Missing(k, retry)
    /\ Delivering /\ UNCHANGED <<deliveries, mails, overlaps>>

\* Mutant: the last attempt is not the last.
AlwaysAgain(k) == alert[k].retry
\* Whether the loop goes round once more.
Again(k) == alert[k].retry /\ alert[k].attempt < MaxSends

NoteMissed(k) ==
    /\ alert[k].at = "miss"
    /\ alert' = [alert EXCEPT ![k].at = IF Again(k) THEN "sleep" ELSE "fail", ![k].read = 0,
                             ![k].retry = FALSE]
    /\ Record(k)
    /\ Delivering /\ UNCHANGED <<mails, untold, overlaps>>

\* Mutant: what could not be recorded is marked as sent.
Success == "sent"
Failure == "failed"

MarkFailed(k) ==
    /\ StepTo(k, "fail", "over")
    /\ MarkAs(k, Failure)
    /\ Delivering /\ UNCHANGED <<mails, untold, overlaps>>

Wake(k) ==
    /\ alert[k].at = "sleep"
    /\ alert' = [alert EXCEPT ![k].at = "send", ![k].attempt = @ + 1]
    /\ Delivering /\ UNCHANGED mailSide

Deliver(k) ==
    \/ StartDelivery(k) \/ Prepare(k) \/ PrepareThrows(k) \/ Block(k, "delivery blocked")
    \/ FindDelivery(k) \/ InsertDelivery(k)
    \/ Send(k) \/ SendThrows(k) \/ AnswerLost(k)
    \/ ReadAttempts(k) \/ NoteSent(k) \/ MarkSent(k) \/ NoteThrows(k)
    \/ NoteMissed(k) \/ MarkFailed(k) \/ Wake(k)

\* A statement throws out of the call, or its host dies.
CallDies(k) ==
    /\ alert[k].at \notin {"issue", "event", "over"}
    /\ alert' = [alert EXCEPT ![k] = Over(k)]
    /\ IF alert[k].at \in {"noted", "note", "mark"} THEN Untell(k) ELSE UNCHANGED untold
    /\ UNCHANGED <<issueSide, events, blurbs, deliveries, mails, overlaps>>

AlertNext ==
    \/ Reprioritise \/ ExplainPriority \/ WriteContent \/ ChangePreference
    \/ \E k \in Evaluations : Evaluate(k)
    \/ \E k \in Writers : Generate(k)
    \/ \E k \in Deliverers : Deliver(k)
    \/ \E k \in DOMAIN alert : CallDies(k)

AlertSpec == AlertInit /\ [][AlertNext]_alertVars

-----------------------------------------------------------------------------
(* A mail goes out for nothing but a direct event that was eligible once,  *)
(* of a development that came with its issue, with both sentences written. *)
MailWasEarned ==
    \A d \in Developments : mails[d] > 0 =>
        d \in CreatedWith /\ d \in blurbs /\ events[Direct(d)] \notin {"none", "suppressed"}

(* No recipient is mailed twice about one event, but for each time that a  *)
(* delivery set out while another was under way, and for each mail whose   *)
(* acceptance was lost: on the wire, with a statement, or with the host.   *)
SecondMailIsExplained ==
    \A d \in Developments : mails[d] <= 1 + overlaps[d] + untold[d]

(* A delivery that says sent was accepted by the mail server.              *)
SentWasMailed == \A d \in Developments : deliveries[d].status = "sent" => mails[d] > 0

(* The first row under a dedupe key decides for good: one that was         *)
(* suppressed, by quiet hours or for content that came a moment later, or  *)
(* blocked never becomes eligible, and no row is ever removed.             *)
FirstVerdictStays ==
    [][\A k \in EventKeys : events[k] # "none" =>
          events'[k] = events[k] \/ events'[k] \in {"content blocked", "delivery blocked"}]_alertVars

(* The safety of alerts: a mail was earned, a second one is explained, and *)
(* one that counts as sent went out.                                       *)
AlertSafe == AlertTypeOK /\ MailWasEarned /\ SecondMailIsExplained /\ SentWasMailed
=============================================================================

----------------------------- MODULE MCServices -----------------------------
(***************************************************************************)
(* The job queue, and the services behind the HTTP routes and the mail:    *)
(* company context and its upload, access, alerts.  They share no variable,*)
(* so one run checks them all: focus says which of them moves.             *)
(***************************************************************************)
EXTENDS MCJobQueue, CompanyContext, DraftUpload, Access, AlertDelivery

VARIABLE focus

\* Each user may be a member of one company or of the whole tenant.
SomeMembers == Users \X (Companies \cup {AllCompanies})
AnyKind == [c \in AccessCalls |-> {"use", "edit", "switch", "login", "lifecycle"}]

\* The runs of the queue, the calls on a context and the deliverers are the
\* same model values, so that one permutation serves them all.
ServicesSymmetry == Permutations(Runs \cup ContextCalls \cup Deliverers)

serviceVars == <<contextVars, uploadVars, accessVars, alertVars>>

\* A service that does not move starts in one state.  A draft starts empty.
ServicesInit ==
    /\ focus \in {"queue", "context", "upload", "access", "alerts"}
    /\ Init
    /\ ContextInit /\ draft.fields = Blank
    /\ UploadInit
    /\ focus # "upload" =>
          \A u \in UploadCalls : /\ upload[u].key = CHOOSE k \in UploadKeys : TRUE
                                 /\ upload[u].file = CHOOSE f \in Pdfs : TRUE
    /\ AccessInit /\ (focus # "access" => companyStatus = [c \in Companies |-> "active"])
    /\ AlertInit /\ (focus # "alerts" => preference = CHOOSE p \in Preference : TRUE)

\* One component moves in a behaviour, from its start to its end.
MovesOnly(component) == focus = component /\ UNCHANGED focus

\* Requests are over some day; the queue never rests.
Rest == focus # "queue" /\ UNCHANGED <<focus, vars, serviceVars>>

ServicesNext ==
    \/ MovesOnly("queue") /\ Next /\ UNCHANGED serviceVars
    \/ MovesOnly("context") /\ ContextNext /\ UNCHANGED <<vars, uploadVars, accessVars, alertVars>>
    \/ MovesOnly("upload") /\ UploadNext /\ UNCHANGED <<vars, contextVars, accessVars, alertVars>>
    \/ MovesOnly("access") /\ AccessNext /\ UNCHANGED <<vars, contextVars, uploadVars, alertVars>>
    \/ MovesOnly("alerts") /\ AlertNext /\ UNCHANGED <<vars, contextVars, uploadVars, accessVars>>
    \/ Rest

ServicesSpec == ServicesInit /\ [][ServicesNext]_<<focus, vars, serviceVars>>

-----------------------------------------------------------------------------
(* What was drafted for a client, and what was made effective of it, is    *)
(* safe, from the PDF to the context the tasks read.                       *)
DraftsSafe == UploadSafe /\ ContextSafe

(* What was decided stands: no version of a context is rewritten or comes  *)
(* back, no alert that was refused is let through later, and a membership  *)
(* is changed only as it was shown, and only by admins of its company.     *)
DecisionsStand ==
    /\ VersionsAreHistory
    /\ FirstVerdictStays
    /\ EditsWhatWasShown
    /\ AdminsStayInside
=============================================================================

--------------------------- MODULE CompanyContext ---------------------------
(***************************************************************************)
(* The company context of one company: a draft that people edit, submit    *)
(* and approve, the numbered versions that approval or a direct PUT        *)
(* activates, and the management identity drafted for each version.        *)
(*                                                                         *)
(* Every call is a process that stops at each of its statements in the     *)
(* database: the stores have no transaction, only unique indexes and one   *)
(* compare-and-set, so calls interleave, fail and die between statements.  *)
(***************************************************************************)
EXTENDS Naturals, Sequences, FiniteSets

CONSTANTS ContextCalls,     \* the HTTP calls that may be under way
          RequiredFields,   \* fields a person must confirm with a value
          ReviewFields,     \* fields a person must at least have looked at
          Contents,         \* the values a field may have
          MaxRevision,      \* bound: revisions of the draft
          MaxVersion        \* bound: versions of the context

NoContent == "no content"
Fields == RequiredFields \cup ReviewFields

ASSUME ContextAssumption ==
    /\ RequiredFields \cap ReviewFields = {}
    /\ NoContent \notin Contents
    /\ MaxRevision \in Nat \ {0} /\ MaxVersion \in Nat \ {0}

VARIABLES draft,      \* the draft: status, revision, fields, field_review
          versions,   \* the rows of company_contexts, by version
          identity,   \* the rows of management_identities, by version
          call        \* where each call is

contextVars == <<draft, versions, identity, call>>

FieldValues == [Fields -> Contents \cup {NoContent}]
ReviewStatus == {"missing", "ai_proposed", "user_confirmed", "reviewed_none_disclosed"}
Reviews == [Fields -> ReviewStatus]
Editable == {"draft", "in_review"}

Draft == [status : Editable \cup {"approved"}, revision : 1 .. MaxRevision + 1,
          fields : FieldValues, review : Reviews]
VersionRow == [status : {"effective", "archived"}, source : {"ai_draft", "manual"},
            fields : FieldValues, review : Reviews]
Identity == [status : {"missing", "pending", "ready", "failed"}, stored : BOOLEAN]

-----------------------------------------------------------------------------
(* Review and completeness.                                                *)

InitialReview(f) == [x \in Fields |-> IF f[x] = NoContent THEN "missing" ELSE "ai_proposed"]

ManualStatus(f, x) ==
    IF f[x] # NoContent THEN "user_confirmed"
    ELSE IF x \in ReviewFields THEN "reviewed_none_disclosed" ELSE "missing"

ManualReview(f) == [x \in Fields |-> ManualStatus(f, x)]

\* What a patch of these fields may make of the others: nothing.
MergedFields(fields, patched) == {f \in FieldValues : \A x \in Fields \ patched : f[x] = fields[x]}

\* A patch without field_review, the only kind the route sends, confirms its fields.
MergedReview(r, f, patched) == [x \in Fields |-> IF x \in patched THEN ManualStatus(f, x) ELSE r[x]]

Complete(f, r) ==
    /\ \A x \in RequiredFields : f[x] # NoContent /\ r[x] = "user_confirmed"
    /\ \A x \in ReviewFields : r[x] \in {"user_confirmed", "reviewed_none_disclosed"}

Effective == {v \in DOMAIN versions : versions[v].status = "effective"}

-----------------------------------------------------------------------------
NoCall == [op |-> "none", at |-> "idle"]
Blank == [x \in Fields |-> NoContent]

\* What a call carries: the fields and review it will write, the version it
\* activates or serves, and the revision its second read of the draft found.
Doing(op, at, f, r, v) ==
    [op |-> op, at |-> at, fields |-> f, review |-> r, version |-> v, revision |-> 0]

Call == {NoCall} \cup
        [op : {"edit", "submit", "approve", "put", "clear", "retry"},
         at : {"max", "archive", "insert", "reread", "write", "clear", "identity", "model"},
         fields : FieldValues, review : Reviews,
         version : 0 .. MaxVersion, revision : 0 .. MaxRevision]

ContextTypeOK ==
    /\ draft \in Draft
    /\ versions \in Seq(VersionRow) /\ Len(versions) <= MaxVersion
    /\ identity \in [1 .. MaxVersion -> Identity]
    /\ call \in [ContextCalls -> Call]

MoveTo(c, at) == call' = [call EXCEPT ![c].at = at]
EndCall(c) == call' = [call EXCEPT ![c] = NoCall]
Become(c, doing) == call' = [call EXCEPT ![c] = doing]
Start(c, doing) == call[c] = NoCall /\ Become(c, doing)
CallAt(c, at) == call[c].at = at

ContextInit ==
    /\ \E f \in FieldValues :
          draft = [status |-> "draft", revision |-> 1, fields |-> f, review |-> InitialReview(f)]
    /\ versions = <<>>
    /\ identity = [v \in 1 .. MaxVersion |-> [status |-> "missing", stored |-> FALSE]]
    /\ call = [c \in ContextCalls |-> NoCall]

\* editDraft checks, and merges the patch, against its first read of the draft.
BeginEdit(c) ==
    /\ draft.status \in Editable
    /\ \E patched \in SUBSET Fields \ {{}} : \E f \in MergedFields(draft.fields, patched) :
          Start(c, Doing("edit", "reread", f, MergedReview(draft.review, f, patched), 0))
    /\ UNCHANGED <<draft, versions, identity>>

BeginSubmit(c) ==
    /\ draft.status = "draft"
    /\ Start(c, Doing("submit", "reread", Blank, InitialReview(Blank), 0))
    /\ UNCHANGED <<draft, versions, identity>>

\* Mutant: the draft is marked before its content is activated.
MarkFirst(c) ==
    /\ draft.status \in Editable
    /\ Complete(draft.fields, draft.review)
    /\ Start(c, Doing("approve", "reread", draft.fields, draft.review, 1))
    /\ UNCHANGED <<draft, versions, identity>>

BeginApprove(c) ==
    /\ draft.status \in Editable
    /\ Complete(draft.fields, draft.review)
    /\ Start(c, Doing("approve", "max", draft.fields, draft.review, 0))
    /\ UNCHANGED <<draft, versions, identity>>

\* replaceEffectiveContext; the caller names the version after the one it has
\* just read, as If-Match asks.
BeginPut(c) ==
    /\ Len(versions) < MaxVersion
    /\ \E f \in FieldValues :
          /\ Complete(f, ManualReview(f))
          /\ Start(c, Doing("put", "max", f, ManualReview(f), Len(versions) + 1))
    /\ UNCHANGED <<draft, versions, identity>>

BeginClear(c) ==
    /\ Effective # {}
    /\ Start(c, Doing("clear", "clear", Blank, InitialReview(Blank), 0))
    /\ UNCHANGED <<draft, versions, identity>>

BeginRetryIdentity(c) ==
    /\ \E v \in Effective :
          Start(c, Doing("retry", "identity", Blank, InitialReview(Blank), v))
    /\ UNCHANGED <<draft, versions, identity>>

-----------------------------------------------------------------------------
(* effectiveContextStore.activate: three statements.                       *)

SelectMax(c) ==
    /\ CallAt(c, "max")
    /\ LET next == Len(versions) + 1
       IN  IF next > MaxVersion \/ (call[c].op = "put" /\ call[c].version # next)
           THEN EndCall(c)
           ELSE call' = [call EXCEPT ![c].at = "archive", ![c].version = next]
    /\ UNCHANGED <<draft, versions, identity>>

\* Mutant: the effective row is deleted.
DeleteEffective == SelectSeq(versions, LAMBDA row : row.status = "archived")
ArchiveAll == [v \in DOMAIN versions |-> [versions[v] EXCEPT !.status = "archived"]]

Archive(c) ==
    /\ CallAt(c, "archive")
    /\ versions' = ArchiveAll
    /\ MoveTo(c, "insert")
    /\ UNCHANGED <<draft, identity>>

\* Mutant: the table has no unique indexes.
Unindexed(v) == TRUE
\* The unique indexes on the version and on the effective row of a company.
InsertAllowed(v) == v = Len(versions) + 1 /\ Effective = {}

\* Mutant: what is activated is read anew, without being checked anew.
ActivatedNow(c) ==
    [status |-> "effective", fields |-> draft.fields, review |-> draft.review,
     source |-> IF call[c].op = "approve" THEN "ai_draft" ELSE "manual"]
Activated(c) ==
    [status |-> "effective", fields |-> call[c].fields, review |-> call[c].review,
     source |-> IF call[c].op = "approve" THEN "ai_draft" ELSE "manual"]

Insert(c) ==
    /\ CallAt(c, "insert")
    /\ IF InsertAllowed(call[c].version)
       THEN /\ versions' = Append(versions, Activated(c))
            /\ Become(c, Doing(call[c].op, IF call[c].op = "approve" THEN "reread" ELSE "identity",
                               Blank, InitialReview(Blank), call[c].version))
       ELSE versions' = versions /\ EndCall(c)
    /\ UNCHANGED <<draft, identity>>

ClearEffective(c) ==
    /\ CallAt(c, "clear")
    /\ versions' = ArchiveAll
    /\ EndCall(c)
    /\ UNCHANGED <<draft, identity>>

-----------------------------------------------------------------------------
(* draftStore.update: reads the row again, and writes it if its revision   *)
(* has not changed since that second read.                                 *)

Reread(c) ==
    /\ CallAt(c, "reread") /\ draft.revision <= MaxRevision
    /\ call' = [call EXCEPT ![c].at = "write", ![c].revision = draft.revision]
    /\ UNCHANGED <<draft, versions, identity>>

Updated(c) ==
    CASE call[c].op = "edit"    -> [draft EXCEPT !.status = "draft",
                                                 !.fields = call[c].fields, !.review = call[c].review]
      [] call[c].op = "submit"  -> [draft EXCEPT !.status = "in_review"]
      [] call[c].op = "approve" -> [draft EXCEPT !.status = "approved"]

WriteDraft(c) ==
    /\ CallAt(c, "write")
    /\ draft' = IF draft.revision = call[c].revision
                THEN [Updated(c) EXCEPT !.revision = @ + 1] ELSE draft
    /\ IF call[c].op = "approve"
       THEN Become(c, Doing("approve", "identity", Blank, InitialReview(Blank), call[c].version))
       ELSE EndCall(c)
    /\ UNCHANGED <<versions, identity>>

-----------------------------------------------------------------------------
(* ManagementIdentityService.draftAndPersist. The upsert of the tables     *)
(* writes an empty object where there is no identity, so a new draft wipes *)
(* the identity that was ready.                                            *)

\* Mutant: the stored identity stays while another is drafted.
KeepStored(v, status) ==
    identity' = [identity EXCEPT ![v] = [status |-> status, stored |-> @.stored \/ status = "ready"]]
Upsert(v, status) == identity' = [identity EXCEPT ![v] = [status |-> status, stored |-> status = "ready"]]

IdentityPending(c) ==
    /\ CallAt(c, "identity")
    /\ Upsert(call[c].version, "pending")
    /\ MoveTo(c, "model")
    /\ UNCHANGED <<draft, versions>>

IdentityDrafted(c) ==
    /\ CallAt(c, "model")
    /\ \E status \in {"ready", "failed"} : Upsert(call[c].version, status)
    /\ EndCall(c)
    /\ UNCHANGED <<draft, versions>>

\* The host dies, or a statement fails: nothing undoes the earlier ones.
CallFails(c) ==
    /\ call[c] # NoCall
    /\ EndCall(c)
    /\ UNCHANGED <<draft, versions, identity>>

ContextNext ==
    \E c \in ContextCalls :
        \/ BeginEdit(c) \/ BeginSubmit(c) \/ BeginApprove(c)
        \/ BeginPut(c) \/ BeginClear(c) \/ BeginRetryIdentity(c)
        \/ SelectMax(c) \/ Archive(c) \/ Insert(c) \/ ClearEffective(c)
        \/ Reread(c) \/ WriteDraft(c)
        \/ IdentityPending(c) \/ IdentityDrafted(c) \/ CallFails(c)

ContextSpec == ContextInit /\ [][ContextNext]_contextVars

-----------------------------------------------------------------------------
(* Two approvals and a PUT that all read the same highest version archive  *)
(* one another's row: never are two versions effective at once, and the    *)
(* one that is effective is the newest.                                    *)
NewestIsEffective == \A v \in Effective : v = Len(versions)

(* Nothing reaches the analysis tasks that no person has looked at: every  *)
(* version that was ever effective has all required fields confirmed, even *)
(* if the draft was edited while it was being approved.                    *)
ActiveIsReviewed == \A v \in DOMAIN versions : Complete(versions[v].fields, versions[v].review)

(* A draft is marked approved only when its content has been activated:    *)
(* a crash or a failed statement leaves it open, never approved in vain.   *)
ApprovedWasActivated ==
    draft.status = "approved" => \E v \in DOMAIN versions : versions[v].source = "ai_draft"

(* An identity belongs to a version that was activated, and is there to    *)
(* read exactly while its row says ready, however many retries overlap.    *)
IdentityOfVersion ==
    \A v \in 1 .. MaxVersion :
        /\ identity[v].status # "missing" => v \in DOMAIN versions
        /\ identity[v].stored <=> identity[v].status = "ready"

(* Versions are history: an activation adds a row and may archive others,  *)
(* but rewrites none, and an archived version never comes back.            *)
VersionsAreHistory ==
    [][\A v \in DOMAIN versions :
          /\ v \in DOMAIN versions'
          /\ versions'[v] \in {versions[v], [versions[v] EXCEPT !.status = "archived"]}]_contextVars

(* The safety of the company context: however edits, approvals, PUTs,      *)
(* clears and retries of the identity interleave, fail or die, what the    *)
(* analysis tasks read is the newest version and was reviewed by a person, *)
(* an approved draft was activated, and each identity belongs to its       *)
(* version.                                                                *)
ContextSafe ==
    /\ ContextTypeOK /\ NewestIsEffective /\ ActiveIsReviewed
    /\ ApprovedWasActivated /\ IdentityOfVersion
=============================================================================

----------------------------- MODULE DraftUpload -----------------------------
(***************************************************************************)
(* Drafting a company context from an uploaded PDF: the upload request is  *)
(* looked up and reserved under its idempotency key, the text is           *)
(* extracted, task T01 drafts the context, and the answer is kept.         *)
(*                                                                         *)
(* A call stops at each of its statements; the rows of the key and of the  *)
(* drafts are written apart.                                               *)
(***************************************************************************)
EXTENDS Naturals, FiniteSets

CONSTANTS UploadCalls,    \* calls of POST /company-context/draft/pdf
          UploadKeys,     \* idempotency keys, with the tenant, company and actor
          Pdfs,           \* uploaded files, told apart by their digest
          ReadablePdfs,   \* those from which enough text can be extracted
          SourcePdfs      \* those whose text T01 accepts as a source

NoCallYet == "nobody"
NoPdf == "no file"

ASSUME UploadAssumption ==
    /\ SourcePdfs \subseteq ReadablePdfs /\ ReadablePdfs \subseteq Pdfs
    /\ NoCallYet \notin UploadCalls /\ NoPdf \notin Pdfs

VARIABLES request,   \* company_context_upload_requests: one row for each key
          drafted,   \* the calls whose draft is in company_context_drafts
          upload     \* where each call is

uploadVars == <<request, drafted, upload>>

NoRequest == [status |-> "none", file |-> NoPdf, answer |-> NoCallYet]

\* The response that is kept for a key names the draft of one call.
Request == {NoRequest} \cup
    [status : {"pending", "completed", "failed"}, file : Pdfs, answer : UploadCalls \cup {NoCallYet}]

Upload == [at : {"lookup", "reserve", "extract", "draft", "complete", "fail", "answered", "refused"},
           key : UploadKeys, file : Pdfs, late : BOOLEAN, answer : UploadCalls \cup {NoCallYet}]

UploadTypeOK ==
    /\ request \in [UploadKeys -> Request]
    /\ drafted \subseteq UploadCalls
    /\ upload \in [UploadCalls -> Upload]

UploadInit ==
    /\ request = [k \in UploadKeys |-> NoRequest]
    /\ drafted = {}
    /\ upload \in [UploadCalls -> [at : {"lookup"}, key : UploadKeys, file : Pdfs,
                                   late : {FALSE}, answer : {NoCallYet}]]

RowOf(u) == request[upload[u].key]
Step(u, from, to) == upload[u].at = from /\ upload' = [upload EXCEPT ![u].at = to]
WriteRow(u, row) == request' = [request EXCEPT ![upload[u].key] = row]

\* Mutant: a key whose upload failed may be used again.
FailedIsFree(u) ==
    IF RowOf(u).status \in {"none", "failed"} THEN "reserve"
    ELSE IF RowOf(u).file = upload[u].file /\ RowOf(u).status = "completed" THEN "answered"
    ELSE "refused"
\* The key is free, was answered for this very file, or refuses the call.
Verdict(u) ==
    IF RowOf(u) = NoRequest THEN "reserve"
    ELSE IF RowOf(u).file = upload[u].file /\ RowOf(u).status = "completed" THEN "answered"
    ELSE "refused"

Lookup(u) ==
    /\ upload[u].at = "lookup"
    /\ upload' = [upload EXCEPT ![u].at = Verdict(u), ![u].late = RowOf(u) # NoRequest,
                                ![u].answer = RowOf(u).answer]
    /\ UNCHANGED <<request, drafted>>

\* INSERT ... ON CONFLICT DO NOTHING; the route does not look at what it returns.
Reserve(u) ==
    /\ Step(u, "reserve", "extract")
    /\ IF RowOf(u) = NoRequest
       THEN WriteRow(u, [status |-> "pending", file |-> upload[u].file, answer |-> NoCallYet])
       ELSE request' = request
    /\ UNCHANGED drafted

\* extractPdfSource throws for a file that is no PDF, or has too little text.
Extract(u) ==
    /\ Step(u, "extract", IF upload[u].file \in ReadablePdfs THEN "draft" ELSE "fail")
    /\ UNCHANGED <<request, drafted>>

\* sanitizeSources passes its text.
Sanitized(f) == f \in SourcePdfs

\* The model's output is valid, and the draft is inserted.
CreateDraft(u) ==
    /\ Sanitized(upload[u].file)
    /\ Step(u, "draft", "complete")
    /\ drafted' = drafted \cup {u}
    /\ UNCHANGED request

\* The text is refused, the model fails or its output is invalid, or the write
\* of the answer fails.
UploadThrows(u) ==
    /\ upload[u].at \in {"draft", "complete"}
    /\ upload' = [upload EXCEPT ![u].at = "fail"]
    /\ UNCHANGED <<request, drafted>>

\* Mutant: what is kept under the key names no draft.
KeepNothing(u) ==
    /\ upload[u].at = "complete"
    /\ WriteRow(u, [RowOf(u) EXCEPT !.status = "completed"])
    /\ upload' = [upload EXCEPT ![u].at = "answered", ![u].answer = u]
    /\ UNCHANGED drafted

CompleteUpload(u) ==
    /\ upload[u].at = "complete"
    /\ WriteRow(u, [RowOf(u) EXCEPT !.status = "completed", !.answer = u])
    /\ upload' = [upload EXCEPT ![u].at = "answered", ![u].answer = u]
    /\ UNCHANGED drafted

\* Mutant: a key that was never reserved gets a failed row.
FailUnreserved(u) ==
    /\ Step(u, "fail", "refused")
    /\ WriteRow(u, [NoRequest EXCEPT !.status = "failed"])
    /\ UNCHANGED drafted

FailUpload(u) ==
    /\ Step(u, "fail", "refused")
    /\ WriteRow(u, [RowOf(u) EXCEPT !.status = "failed"])
    /\ UNCHANGED drafted

\* The host dies: the key stays as it is.
UploadDies(u) ==
    /\ upload[u].at \notin {"lookup", "answered", "refused"}
    /\ upload' = [upload EXCEPT ![u].at = "refused"]
    /\ UNCHANGED <<request, drafted>>

UploadNext ==
    \E u \in UploadCalls :
        \/ Lookup(u) \/ Reserve(u) \/ Extract(u) \/ CreateDraft(u) \/ UploadThrows(u)
        \/ CompleteUpload(u) \/ FailUpload(u) \/ UploadDies(u)

UploadSpec == UploadInit /\ [][UploadNext]_uploadVars

-----------------------------------------------------------------------------
(* Two uploads under one key may both pass the lookup and both draft; but  *)
(* a call that finds the key taken, by a call that is running, has failed  *)
(* or died, never drafts a second context.                                 *)
TakenKeyDraftsNothing == \A u \in UploadCalls : upload[u].late => u \notin drafted

(* Whatever a client is answered, first or on repeating its key, is a      *)
(* draft that was made under that key.                                     *)
AnswerIsADraft ==
    \A u \in UploadCalls :
        upload[u].at = "answered" =>
            /\ upload[u].answer \in drafted
            /\ upload[upload[u].answer].key = upload[u].key

(* The safety of an upload: one key drafts for one file, and its answer is *)
(* a draft that exists, whatever calls fail or die under it.               *)
UploadSafe == UploadTypeOK /\ TakenKeyDraftsNothing /\ AnswerIsADraft
=============================================================================

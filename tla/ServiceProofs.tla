---------------------------- MODULE ServiceProofs ----------------------------
(***************************************************************************)
(* What the services behind the routes and the mail promise for any number *)
(* of calls, keys, versions, members and mails: the upload of a PDF, the   *)
(* company context, access, and the delivery of alerts.                    *)
(***************************************************************************)
EXTENDS MCServices, FiniteSetTheorems, TLAPS

-----------------------------------------------------------------------------
(* The upload of a PDF *)

\* A call is late only to be answered or refused, without a draft; it drafts
\* before it completes, and never before it looked its key up.
UploadHolds(u) ==
  /\ upload[u].late => upload[u].at \in {"answered", "refused"} /\ u \notin drafted
  /\ upload[u].at = "lookup" => u \notin drafted
  /\ upload[u].at = "complete" => u \in drafted
  /\ upload[u].at \in {"extract", "draft", "complete", "fail"} => RowOf(u) # NoRequest
  /\ upload[u].at = "answered" => /\ upload[u].answer \in drafted
                                  /\ upload[upload[u].answer].key = upload[u].key

\* What is kept under a key as its answer is a draft made under that key.
KeptIsADraft ==
  \A k \in UploadKeys :
    request[k].status = "completed" => /\ request[k].answer \in drafted
                                       /\ upload[request[k].answer].key = k

UploadInv == UploadTypeOK /\ KeptIsADraft /\ \A u \in UploadCalls : UploadHolds(u)

\* Everything but the call that moves stays as it is, and so do what calls have
\* drafted and the rows that say completed.
LEMMA UploadMoves ==
  ASSUME UploadInv, NEW u \in UploadCalls, UploadTypeOK', KeptIsADraft', UploadHolds(u)',
         \A v \in UploadCalls \ {u} : upload'[v] = upload[v],
         upload'[u].key = upload[u].key,
         \A v \in UploadCalls \ {u} : v \in drafted' <=> v \in drafted,
         drafted \subseteq drafted',
         \A k \in UploadKeys : request[k] # NoRequest => request'[k] # NoRequest
  PROVE  UploadInv'
<1>. SUFFICES ASSUME NEW v \in UploadCalls, v # u
              PROVE  UploadHolds(v)'
  BY DEF UploadInv
<1>. DEFINE a == upload[v].answer
<1>1. upload'[v] = upload[v] /\ UploadHolds(v) /\ upload[v] \in Upload
  BY DEF UploadInv, UploadTypeOK
<1>2. upload[v].at \in {"extract", "draft", "complete", "fail"} => RowOf(v)' # NoRequest
  BY <1>1 DEF UploadHolds, RowOf, Upload
<1>3. upload[v].at = "answered" => a \in drafted' /\ upload'[a].key = upload[v].key
  <2>. SUFFICES ASSUME upload[v].at = "answered"
                PROVE  a \in drafted' /\ upload'[a].key = upload[v].key
    OBVIOUS
  <2>1. a \in drafted /\ upload[a].key = upload[v].key /\ a \in UploadCalls
    BY <1>1 DEF UploadHolds, UploadInv, UploadTypeOK
  <2>. QED
    BY <2>1
<1>. QED
  BY <1>1, <1>2, <1>3 DEF UploadHolds

LEMMA UploadStart == UploadInit => UploadInv
<1>. SUFFICES ASSUME UploadInit
              PROVE  UploadInv
  OBVIOUS
<1>1. UploadTypeOK
  BY DEF UploadInit, UploadTypeOK, Request, Upload
<1>2. KeptIsADraft
  BY DEF UploadInit, KeptIsADraft, NoRequest
<1>3. ASSUME NEW u \in UploadCalls
      PROVE  UploadHolds(u)
  BY <1>3 DEF UploadInit, UploadHolds
<1>. QED
  BY <1>1, <1>2, <1>3 DEF UploadInv

\* A row is one of its type, and one that is there names a file.
LEMMA RowsOfKeys ==
  ASSUME UploadTypeOK, NEW u \in UploadCalls
  PROVE  /\ upload[u].key \in UploadKeys /\ RowOf(u) \in Request /\ upload[u] \in Upload
         /\ RowOf(u) # NoRequest =>
              RowOf(u) \in [status : {"pending", "completed", "failed"}, file : Pdfs,
                            answer : UploadCalls \cup {NoCallYet}]
<1>1. upload[u].key \in UploadKeys /\ upload[u] \in Upload
  BY DEF UploadTypeOK, Upload
<1>2. RowOf(u) \in Request
  BY <1>1 DEF UploadTypeOK, RowOf
<1>. QED
  BY <1>1, <1>2 DEF Request

LEMMA LookupHolds ==
  ASSUME UploadInv, NEW u \in UploadCalls, Lookup(u)
  PROVE  UploadInv'
<1>1. /\ upload[u].key \in UploadKeys /\ RowOf(u) \in Request /\ upload[u] \in Upload
      /\ request' = request /\ drafted' = drafted /\ upload[u].at = "lookup"
  BY RowsOfKeys DEF UploadInv, Lookup
<1>2. RowOf(u).answer \in UploadCalls \cup {NoCallYet}
  BY <1>1 DEF Request, NoRequest
<1>3. /\ upload' = [upload EXCEPT ![u] = [@ EXCEPT !.at = Verdict(u), !.late = (RowOf(u) # NoRequest),
                                                   !.answer = RowOf(u).answer]]
      /\ Verdict(u) \in {"reserve", "answered", "refused"}
  BY DEF Lookup, Verdict, UploadInv, UploadTypeOK
<1>4. UploadTypeOK'
  <2>1. upload'[u] \in Upload
    BY <1>1, <1>2, <1>3 DEF UploadInv, UploadTypeOK, Upload
  <2>. QED
    BY <1>1, <1>3, <2>1 DEF UploadInv, UploadTypeOK
<1>5. KeptIsADraft'
  BY <1>1, <1>3 DEF UploadInv, UploadTypeOK, KeptIsADraft, Request, NoRequest
<1>6. UploadHolds(u)'
  BY <1>1, <1>2, <1>3 DEF UploadInv, UploadHolds, KeptIsADraft, UploadTypeOK, Upload, Verdict, RowOf, NoRequest
<1>. QED
  BY <1>1, <1>3, <1>4, <1>5, <1>6, UploadMoves DEF UploadInv, UploadTypeOK

\* A call of which nothing but its place changes keeps the types and the answers.
LEMMA StepsOn ==
  ASSUME UploadInv, NEW u \in UploadCalls, NEW to \in {"extract", "draft", "complete", "fail", "refused"},
         upload' = [upload EXCEPT ![u].at = to],
         request' \in [UploadKeys -> Request], drafted' \subseteq UploadCalls,
         drafted \subseteq drafted',
         \A v \in UploadCalls \ {u} : v \in drafted' <=> v \in drafted,
         \A k \in UploadKeys : request[k] # NoRequest => request'[k] # NoRequest,
         \A k \in UploadKeys : request'[k].status = "completed" =>
           request[k].status = "completed" /\ request'[k].answer = request[k].answer,
         \* by where it goes
         upload[u].late => upload[u].at \in {"answered", "refused"} /\ to = "refused" /\ u \notin drafted',
         to = "complete" => u \in drafted',
         to # "refused" => request'[upload[u].key] # NoRequest
  PROVE  UploadInv'
<1>1. upload[u] \in Upload /\ upload[u].key \in UploadKeys
  BY RowsOfKeys DEF UploadInv
<1>2. upload'[u] = [upload[u] EXCEPT !.at = to]
  BY DEF UploadInv, UploadTypeOK
<1>3. UploadTypeOK'
  <2>1. upload'[u] \in Upload
    BY <1>1, <1>2 DEF Upload
  <2>. QED
    BY <2>1 DEF UploadInv, UploadTypeOK
<1>4. KeptIsADraft'
  <2>. SUFFICES ASSUME NEW k \in UploadKeys, request'[k].status = "completed"
                PROVE  request'[k].answer \in drafted' /\ upload'[request'[k].answer].key = k
    BY DEF KeptIsADraft
  <2>. DEFINE a == request[k].answer
  <2>1. a \in drafted /\ upload[a].key = k /\ request'[k].answer = a /\ a \in UploadCalls
    BY DEF UploadInv, KeptIsADraft, UploadTypeOK
  <2>. QED
    BY <2>1, <1>1 DEF UploadInv, UploadTypeOK, Upload
<1>5. UploadHolds(u)'
  BY <1>1, <1>2 DEF UploadHolds, RowOf, UploadInv, Upload
<1>. QED
  BY <1>1, <1>2, <1>3, <1>4, <1>5, UploadMoves DEF UploadInv, UploadTypeOK, Upload

LEMMA ReserveHolds ==
  ASSUME UploadInv, NEW u \in UploadCalls, Reserve(u)
  PROVE  UploadInv'
<1>. DEFINE fresh == [status |-> "pending", file |-> upload[u].file, answer |-> NoCallYet]
<1>1. /\ upload[u].at = "reserve" /\ upload' = [upload EXCEPT ![u].at = "extract"] /\ drafted' = drafted
      /\ upload[u] \in Upload /\ upload[u].key \in UploadKeys /\ UploadHolds(u)
  BY RowsOfKeys DEF Reserve, Step, UploadInv
<1>2. fresh \in Request /\ fresh # NoRequest /\ fresh.status # "completed"
  BY <1>1, UploadAssumption DEF Request, Upload, NoRequest
<1>3. \/ RowOf(u) = NoRequest /\ request' = [request EXCEPT ![upload[u].key] = fresh]
      \/ RowOf(u) # NoRequest /\ request' = request
  BY DEF Reserve, WriteRow
<1>. HIDE DEF fresh
<1>4. /\ request' \in [UploadKeys -> Request]
      /\ \A k \in UploadKeys : request[k] # NoRequest => request'[k] # NoRequest
      /\ \A k \in UploadKeys : request'[k].status = "completed" => request'[k] = request[k]
      /\ request'[upload[u].key] # NoRequest
  BY <1>1, <1>2, <1>3 DEF UploadInv, UploadTypeOK, RowOf
<1>5. ~upload[u].late
  BY <1>1 DEF UploadHolds, Upload
<1>6. drafted' \subseteq UploadCalls
  BY <1>1 DEF UploadInv, UploadTypeOK
<1>. QED
  BY <1>1, <1>4, <1>5, <1>6, StepsOn

\* What a call that holds a row does without writing to it.
LEMMA ExtractHolds ==
  ASSUME UploadInv, NEW u \in UploadCalls, Extract(u) \/ UploadThrows(u) \/ UploadDies(u)
  PROVE  UploadInv'
<1>. PICK to \in {"draft", "fail", "refused"} :
        /\ upload' = [upload EXCEPT ![u].at = to]
        /\ to # "refused" => upload[u].at \in {"extract", "draft", "complete"}
        /\ upload[u].at \notin {"answered", "lookup"} /\ request' = request /\ drafted' = drafted
  BY DEF Extract, UploadThrows, UploadDies, Step
<1>. UploadHolds(u)
  BY DEF UploadInv
<1>. QED
  BY StepsOn DEF UploadInv, UploadTypeOK, UploadHolds, RowOf

LEMMA CreateDraftHolds ==
  ASSUME UploadInv, NEW u \in UploadCalls, CreateDraft(u)
  PROVE  UploadInv'
<1>1. /\ upload[u].at = "draft" /\ upload' = [upload EXCEPT ![u].at = "complete"]
      /\ request' = request /\ drafted' = drafted \cup {u} /\ UploadHolds(u)
  BY DEF CreateDraft, Step, UploadInv
<1>2. ~upload[u].late
  BY <1>1, RowsOfKeys DEF UploadHolds, Upload, UploadInv
<1>3. /\ drafted' \subseteq UploadCalls /\ request' \in [UploadKeys -> Request]
      /\ request[upload[u].key] # NoRequest
  BY <1>1 DEF UploadInv, UploadTypeOK, UploadHolds, RowOf
<1>. QED
  BY <1>1, <1>2, <1>3, StepsOn

LEMMA FailUploadHolds ==
  ASSUME UploadInv, NEW u \in UploadCalls, FailUpload(u)
  PROVE  UploadInv'
<1>. DEFINE entry == [RowOf(u) EXCEPT !.status = "failed"]
<1>1. /\ upload[u].at = "fail" /\ upload' = [upload EXCEPT ![u].at = "refused"]
      /\ request' = [request EXCEPT ![upload[u].key] = entry] /\ drafted' = drafted /\ UploadHolds(u)
      /\ upload[u].key \in UploadKeys /\ RowOf(u) # NoRequest
  BY RowsOfKeys DEF FailUpload, Step, UploadInv, WriteRow, UploadHolds
<1>2. entry \in Request /\ entry # NoRequest /\ entry.status # "completed"
  BY <1>1, RowsOfKeys DEF Request, NoRequest, UploadInv
<1>. HIDE DEF entry
<1>3. /\ request' \in [UploadKeys -> Request]
      /\ \A k \in UploadKeys : request[k] # NoRequest => request'[k] # NoRequest
      /\ \A k \in UploadKeys : request'[k].status = "completed" => request'[k] = request[k]
  BY <1>1, <1>2 DEF UploadInv, UploadTypeOK, RowOf
<1>. QED
  BY <1>1, <1>3, StepsOn DEF UploadInv, UploadTypeOK, UploadHolds

LEMMA CompleteUploadHolds ==
  ASSUME UploadInv, NEW u \in UploadCalls, CompleteUpload(u)
  PROVE  UploadInv'
<1>. DEFINE entry == [RowOf(u) EXCEPT !.status = "completed", !.answer = u]
            mine == upload[u].key
<1>1. /\ upload[u].at = "complete" /\ drafted' = drafted /\ UploadHolds(u)
      /\ upload' = [upload EXCEPT ![u] = [@ EXCEPT !.at = "answered", !.answer = u]]
      /\ request' = [request EXCEPT ![mine] = entry]
      /\ mine \in UploadKeys /\ RowOf(u) # NoRequest /\ u \in drafted /\ upload[u] \in Upload
  <2>1. mine \in UploadKeys /\ upload[u] \in Upload /\ UploadHolds(u) /\ upload[u].at = "complete"
    BY RowsOfKeys DEF UploadInv, CompleteUpload
  <2>2. upload' = [upload EXCEPT ![u] = [@ EXCEPT !.at = "answered", !.answer = u]]
    BY DEF CompleteUpload, UploadInv, UploadTypeOK
  <2>. QED
    BY <2>1, <2>2 DEF CompleteUpload, WriteRow, UploadHolds
<1>2. entry \in Request /\ entry # NoRequest /\ entry.answer = u
  BY <1>1, RowsOfKeys DEF Request, NoRequest, UploadInv
<1>. HIDE DEF entry, mine
<1>3. upload' \in [UploadCalls -> Upload] /\ \A v \in UploadCalls : upload'[v].key = upload[v].key
  BY <1>1 DEF UploadInv, UploadTypeOK, Upload
<1>4. UploadTypeOK'
  BY <1>1, <1>2, <1>3 DEF UploadInv, UploadTypeOK
<1>5. KeptIsADraft'
  <2>. SUFFICES ASSUME NEW k \in UploadKeys, request'[k].status = "completed"
                PROVE  request'[k].answer \in drafted' /\ upload'[request'[k].answer].key = k
    BY DEF KeptIsADraft
  <2>1. CASE k = mine
    BY <1>1, <1>2, <1>3, <2>1 DEF mine, UploadInv, UploadTypeOK
  <2>2. CASE k # mine
    <3>1. request'[k] = request[k]
      BY <1>1, <2>2 DEF UploadInv, UploadTypeOK
    <3>2. request[k].answer \in drafted /\ upload[request[k].answer].key = k /\ request[k].answer \in UploadCalls
      BY <3>1 DEF UploadInv, KeptIsADraft, UploadTypeOK
    <3>. QED
      BY <3>1, <3>2, <1>1, <1>3
  <2>. QED
    BY <2>1, <2>2
<1>6. UploadHolds(u)'
  BY <1>1, <1>3 DEF UploadHolds, UploadInv, UploadTypeOK, Upload
<1>7. \A k \in UploadKeys : request[k] # NoRequest => request'[k] # NoRequest
  BY <1>1, <1>2 DEF UploadInv, UploadTypeOK
<1>8. \A v \in UploadCalls \ {u} : upload'[v] = upload[v]
  BY <1>1 DEF UploadInv, UploadTypeOK
<1>. QED
  BY <1>1, <1>3, <1>4, <1>5, <1>6, <1>7, <1>8, UploadMoves

(* A call that finds its key taken never drafts a second context, and what *)
(* a client is answered, first or on repeating the key, is a draft made    *)
(* under that key, whatever number of calls race, fail or die under it     *)
(* (routes/company-context.js, upload-request store).                      *)
THEOREM UploadIsSafe == UploadSpec => []UploadSafe
<1>1. UploadInv /\ [UploadNext]_uploadVars => UploadInv'
  <2>. SUFFICES ASSUME UploadInv, [UploadNext]_uploadVars
                PROVE  UploadInv'
    OBVIOUS
  <2>1. ASSUME UploadNext
        PROVE  UploadInv'
    BY <2>1, LookupHolds, ReserveHolds, ExtractHolds, CreateDraftHolds, CompleteUploadHolds,
       FailUploadHolds DEF UploadNext
  <2>2. CASE UNCHANGED uploadVars
    BY <2>2 DEF uploadVars, UploadInv, UploadTypeOK, KeptIsADraft, UploadHolds, RowOf
  <2>. QED
    BY <2>1, <2>2
<1>2. UploadInv => UploadSafe
  BY DEF UploadInv, UploadHolds, UploadSafe, TakenKeyDraftsNothing, AnswerIsADraft
<1>. QED
  BY UploadStart, <1>1, <1>2, PTL DEF UploadSpec

-----------------------------------------------------------------------------
(* The company context *)

\* What a call carries: content that was complete when the call began, the
\* version it is about to add, or one that is there.
CallHolds(c) ==
  /\ call[c].at \in {"max", "archive", "insert"} => Complete(call[c].fields, call[c].review)
  /\ call[c].at \in {"archive", "insert"} => call[c].version > 0
  /\ call[c].at \in {"identity", "model"} => call[c].version \in DOMAIN versions
  /\ call[c].at \in {"reread", "write"} => call[c].op \in {"edit", "submit", "approve"}
  /\ call[c].at \in {"reread", "write", "identity", "model"} /\ call[c].op = "approve" =>
       /\ call[c].version \in DOMAIN versions
       /\ \E v \in DOMAIN versions : versions[v].source = "ai_draft"

ContextInv == ContextSafe /\ \A c \in ContextCalls : CallHolds(c)

\* A call under way carries values of their types.
LEMMA Carried ==
  ASSUME ContextTypeOK, NEW c \in ContextCalls, call[c] # NoCall
  PROVE  /\ call[c] \in [op : {"edit", "submit", "approve", "put", "clear", "retry"},
                         at : {"max", "archive", "insert", "reread", "write", "clear", "identity", "model"},
                         fields : FieldValues, review : Reviews,
                         version : 0 .. MaxVersion, revision : 0 .. MaxRevision]
BY DEF ContextTypeOK, Call

\* What is written when nothing is carried.
LEMMA BlankCarried ==
  /\ Blank \in FieldValues /\ \A f \in FieldValues : InitialReview(f) \in Reviews /\ ManualReview(f) \in Reviews
  /\ InitialReview(Blank) \in Reviews
<1>1. Blank \in FieldValues
  BY DEF Blank, FieldValues
<1>2. ASSUME NEW f \in FieldValues
      PROVE  InitialReview(f) \in Reviews /\ ManualReview(f) \in Reviews
  BY DEF InitialReview, ManualReview, ManualStatus, Reviews, ReviewStatus
<1>. QED
  BY <1>1, <1>2

LEMMA ContextStart == ContextInit => ContextInv
<1>. SUFFICES ASSUME ContextInit
              PROVE  ContextInv
  OBVIOUS
<1>1. draft \in Draft /\ draft.status # "approved"
  <2>1. PICK f \in FieldValues :
          draft = [status |-> "draft", revision |-> 1, fields |-> f, review |-> InitialReview(f)]
    BY DEF ContextInit
  <2>2. InitialReview(f) \in Reviews
    BY BlankCarried
  <2>3. 1 \in 1 .. MaxRevision + 1
    BY ContextAssumption
  <2>. QED
    BY <2>1, <2>2, <2>3 DEF Draft, Editable
<1>2. versions \in Seq(VersionRow) /\ Len(versions) = 0 /\ DOMAIN versions = {}
  BY DEF ContextInit
<1>3. identity \in [1 .. MaxVersion -> Identity] /\ call \in [ContextCalls -> Call]
  BY DEF ContextInit, Identity, Call
<1>4. ContextTypeOK
  BY <1>1, <1>2, <1>3, ContextAssumption DEF ContextTypeOK
<1>5. ContextSafe
  BY <1>1, <1>2, <1>4 DEF ContextSafe, NewestIsEffective, Effective, ActiveIsReviewed, ApprovedWasActivated,
     IdentityOfVersion, ContextInit
<1>6. ASSUME NEW c \in ContextCalls
      PROVE  CallHolds(c)
  BY <1>6 DEF ContextInit, NoCall, CallHolds
<1>. QED
  BY <1>5, <1>6 DEF ContextInv

\* A call moves, and no version is lost, nor the source of one changed.
LEMMA ContextMoves ==
  ASSUME ContextInv, ContextSafe', NEW c \in ContextCalls, CallHolds(c)',
         \A d \in ContextCalls \ {c} : call'[d] = call[d],
         \A v \in DOMAIN versions : v \in DOMAIN versions' /\ versions'[v].source = versions[v].source
  PROVE  ContextInv'
<1>. SUFFICES ASSUME NEW d \in ContextCalls, d # c
              PROVE  CallHolds(d)'
  BY DEF ContextInv
<1>1. call'[d] = call[d] /\ CallHolds(d)
  BY DEF ContextInv
<1>. QED
  BY <1>1 DEF CallHolds

\* A call that moves and writes to no table.
LEMMA ContextReads ==
  ASSUME ContextInv, NEW c \in ContextCalls, NEW to \in Call,
         call' = [call EXCEPT ![c] = to], UNCHANGED <<draft, versions, identity>>,
         CallHolds(c)'
  PROVE  ContextInv'
<1>1. call' \in [ContextCalls -> Call]
  BY DEF ContextInv, ContextSafe, ContextTypeOK
<1>2. ContextTypeOK'
  BY <1>1 DEF ContextInv, ContextSafe, ContextTypeOK
<1>3. ContextSafe'
  BY <1>2 DEF ContextInv, ContextSafe, NewestIsEffective, Effective, ActiveIsReviewed, ApprovedWasActivated,
     IdentityOfVersion
<1>. QED
  BY <1>3, ContextMoves DEF ContextInv, ContextSafe, ContextTypeOK

\* A call that begins is of its type.
LEMMA Beginning ==
  ASSUME NEW op \in {"edit", "submit", "approve", "put", "clear", "retry"},
         NEW at \in {"max", "reread", "clear", "identity"},
         NEW f \in FieldValues, NEW r \in Reviews, NEW v \in 0 .. MaxVersion
  PROVE  /\ Doing(op, at, f, r, v) \in Call
         /\ Doing(op, at, f, r, v).op = op /\ Doing(op, at, f, r, v).at = at
         /\ Doing(op, at, f, r, v).fields = f /\ Doing(op, at, f, r, v).review = r
         /\ Doing(op, at, f, r, v).version = v
<1>1. 0 \in 0 .. MaxRevision
  BY ContextAssumption
<1>. QED
  BY <1>1 DEF Doing, Call

LEMMA BeginsHold ==
  ASSUME ContextInv, NEW c \in ContextCalls,
         \/ BeginEdit(c) \/ BeginSubmit(c) \/ BeginApprove(c)
         \/ BeginPut(c) \/ BeginClear(c) \/ BeginRetryIdentity(c)
  PROVE  ContextInv'
<1>. DEFINE Fresh(to) == /\ to \in Call /\ call' = [call EXCEPT ![c] = to]
                         /\ to.at \in {"max", "reread", "clear", "identity"}
                         /\ to.at = "max" => Complete(to.fields, to.review)
                         /\ to.at = "identity" => to.version \in DOMAIN versions
                         /\ to.at \in {"reread", "identity"} => to.op # "approve"
                         /\ to.at = "reread" => to.op \in {"edit", "submit"}
<1>1. ContextTypeOK /\ draft \in Draft /\ 0 \in 0 .. MaxVersion /\ MaxVersion \in Nat
  BY ContextAssumption DEF ContextInv, ContextSafe, ContextTypeOK
<1>2. draft.fields \in FieldValues /\ draft.review \in Reviews
  BY <1>1 DEF Draft
<1>3. ASSUME BeginEdit(c)
      PROVE  \E to : Fresh(to)
  <2>0. PICK patched \in SUBSET Fields \ {{}} :
          \E f \in MergedFields(draft.fields, patched) :
            call' = [call EXCEPT ![c] = Doing("edit", "reread", f, MergedReview(draft.review, f, patched), 0)]
    BY <1>3 DEF BeginEdit, Start, Become
  <2>1. PICK f \in MergedFields(draft.fields, patched) :
          call' = [call EXCEPT ![c] = Doing("edit", "reread", f, MergedReview(draft.review, f, patched), 0)]
    BY <2>0
  <2>. DEFINE r == MergedReview(draft.review, f, patched)
  <2>2. f \in FieldValues /\ r \in Reviews
    BY <1>2 DEF MergedFields, MergedReview, ManualStatus, Reviews, ReviewStatus
  <2>. HIDE DEF r
  <2>3. Fresh(Doing("edit", "reread", f, r, 0))
    BY <2>1, <2>2, <1>1, Beginning DEF r
  <2>. QED
    BY <2>3
<1>4. ASSUME BeginSubmit(c)
      PROVE  \E to : Fresh(to)
  <2>. DEFINE r == InitialReview(Blank)
  <2>1. call' = [call EXCEPT ![c] = Doing("submit", "reread", Blank, r, 0)] /\ Blank \in FieldValues /\ r \in Reviews
    BY <1>4, BlankCarried DEF BeginSubmit, Start, Become
  <2>. HIDE DEF r
  <2>2. Fresh(Doing("submit", "reread", Blank, r, 0))
    BY <2>1, <1>1, Beginning
  <2>. QED
    BY <2>2
<1>5. ASSUME BeginApprove(c)
      PROVE  \E to : Fresh(to)
  <2>1. /\ call' = [call EXCEPT ![c] = Doing("approve", "max", draft.fields, draft.review, 0)]
        /\ Complete(draft.fields, draft.review)
    BY <1>5 DEF BeginApprove, Start, Become
  <2>2. Fresh(Doing("approve", "max", draft.fields, draft.review, 0))
    BY <2>1, <1>1, <1>2, Beginning
  <2>. QED
    BY <2>2
<1>6. ASSUME BeginPut(c)
      PROVE  \E to : Fresh(to)
  <2>1. PICK f \in FieldValues :
          /\ Complete(f, ManualReview(f))
          /\ call' = [call EXCEPT ![c] = Doing("put", "max", f, ManualReview(f), Len(versions) + 1)]
    BY <1>6 DEF BeginPut, Start, Become
  <2>. DEFINE r == ManualReview(f)
              v == Len(versions) + 1
  <2>2. r \in Reviews /\ v \in 0 .. MaxVersion
    BY <1>1, <1>6, BlankCarried DEF BeginPut, ContextTypeOK
  <2>. HIDE DEF r, v
  <2>3. Fresh(Doing("put", "max", f, r, v))
    BY <2>1, <2>2, Beginning DEF r, v
  <2>. QED
    BY <2>3
<1>7. ASSUME BeginClear(c)
      PROVE  \E to : Fresh(to)
  <2>. DEFINE r == InitialReview(Blank)
  <2>1. call' = [call EXCEPT ![c] = Doing("clear", "clear", Blank, r, 0)] /\ Blank \in FieldValues /\ r \in Reviews
    BY <1>7, BlankCarried DEF BeginClear, Start, Become
  <2>. HIDE DEF r
  <2>2. Fresh(Doing("clear", "clear", Blank, r, 0))
    BY <2>1, <1>1, Beginning
  <2>. QED
    BY <2>2
<1>8. ASSUME BeginRetryIdentity(c)
      PROVE  \E to : Fresh(to)
  <2>. DEFINE r == InitialReview(Blank)
  <2>1. PICK v \in Effective : call' = [call EXCEPT ![c] = Doing("retry", "identity", Blank, r, v)]
    BY <1>8 DEF BeginRetryIdentity, Start, Become
  <2>2. v \in DOMAIN versions /\ v \in 0 .. MaxVersion /\ Blank \in FieldValues /\ r \in Reviews
    BY <1>1, BlankCarried DEF Effective, ContextTypeOK
  <2>. HIDE DEF r
  <2>3. Fresh(Doing("retry", "identity", Blank, r, v))
    BY <2>1, <2>2, Beginning
  <2>. QED
    BY <2>3
<1>9. PICK to : Fresh(to)
  BY <1>3, <1>4, <1>5, <1>6, <1>7, <1>8
<1>10. UNCHANGED <<draft, versions, identity>>
  BY DEF BeginEdit, BeginSubmit, BeginApprove, BeginPut, BeginClear, BeginRetryIdentity
<1>11. call'[c] = to
  BY <1>1, <1>9 DEF ContextTypeOK
<1>12. CallHolds(c)'
  BY <1>9, <1>10, <1>11 DEF CallHolds
<1>. QED
  BY <1>9, <1>10, <1>12, ContextReads

LEMMA SelectMaxHolds ==
  ASSUME ContextInv, NEW c \in ContextCalls, SelectMax(c)
  PROVE  ContextInv'
<1>. DEFINE next == Len(versions) + 1
            to == [call[c] EXCEPT !.at = "archive", !.version = next]
<1>1. /\ ContextTypeOK /\ Len(versions) \in Nat /\ CallHolds(c) /\ call[c].at = "max" /\ call[c] # NoCall
      /\ UNCHANGED <<draft, versions, identity>>
  BY DEF ContextInv, ContextSafe, ContextTypeOK, SelectMax, CallAt, NoCall
<1>2. CASE call' = [call EXCEPT ![c] = NoCall]
  <2>1. CallHolds(c)'
    BY <1>1, <1>2 DEF CallHolds, NoCall, ContextTypeOK
  <2>. QED
    BY <1>1, <1>2, <2>1, ContextReads DEF Call
<1>3. CASE next <= MaxVersion /\ call' = [call EXCEPT ![c] = to]
  <2>1. next \in 0 .. MaxVersion /\ next > 0
    BY <1>1, <1>3, ContextAssumption
  <2>. HIDE DEF next
  <2>2. /\ to \in Call /\ to.at = "archive" /\ to.fields = call[c].fields /\ to.review = call[c].review
        /\ to.version > 0
    BY <1>1, <2>1, Carried DEF Call
  <2>. HIDE DEF to
  <2>3. call'[c] = to
    BY <1>1, <1>3 DEF ContextTypeOK
  <2>4. CallHolds(c)'
    BY <1>1, <2>2, <2>3 DEF CallHolds
  <2>. QED
    BY <1>1, <1>3, <2>2, <2>4, ContextReads
<1>. QED
  <2>1. \/ call' = [call EXCEPT ![c] = NoCall]
        \/ ~(next > MaxVersion) /\ call' = [call EXCEPT ![c] = to]
    BY <1>1 DEF SelectMax, EndCall, ContextTypeOK
  <2>2. ~(next > MaxVersion) => next <= MaxVersion
    BY <1>1, ContextAssumption
  <2>. QED
    BY <1>2, <1>3, <2>1, <2>2

\* What archiving all versions leaves of them.
LEMMA Archived ==
  ASSUME ContextTypeOK
  PROVE  /\ ArchiveAll \in Seq(VersionRow) /\ Len(ArchiveAll) = Len(versions)
         /\ DOMAIN ArchiveAll = DOMAIN versions
         /\ \A v \in DOMAIN versions : /\ ArchiveAll[v] = [versions[v] EXCEPT !.status = "archived"]
                                       /\ ArchiveAll[v].status = "archived"
                                       /\ ArchiveAll[v].source = versions[v].source
                                       /\ ArchiveAll[v].fields = versions[v].fields
                                       /\ ArchiveAll[v].review = versions[v].review
<1>. DEFINE n == Len(versions)
<1>1. n \in Nat /\ DOMAIN versions = 1 .. n /\ \A v \in 1 .. n : versions[v] \in VersionRow
  BY DEF ContextTypeOK
<1>2. \A v \in DOMAIN versions : /\ ArchiveAll[v] = [versions[v] EXCEPT !.status = "archived"]
                                 /\ ArchiveAll[v] \in VersionRow
                                 /\ ArchiveAll[v].status = "archived"
                                 /\ ArchiveAll[v].source = versions[v].source
                                 /\ ArchiveAll[v].fields = versions[v].fields
                                 /\ ArchiveAll[v].review = versions[v].review
  BY <1>1 DEF ArchiveAll, VersionRow
<1>3. ArchiveAll \in [1 .. n -> VersionRow]
  BY <1>1, <1>2 DEF ArchiveAll
<1>. HIDE DEF n
<1>4. ArchiveAll \in Seq(VersionRow) /\ Len(ArchiveAll) = n
  BY <1>1, <1>3
<1>. QED
  BY <1>1, <1>2, <1>4 DEF ArchiveAll, n

\* The versions are archived, and a call moves.
LEMMA ArchivingHolds ==
  ASSUME ContextInv, NEW c \in ContextCalls, NEW to \in Call,
         versions' = ArchiveAll, call' = [call EXCEPT ![c] = to], UNCHANGED <<draft, identity>>,
         to = NoCall \/ /\ to.at = "insert" /\ to.version > 0
                        /\ Complete(to.fields, to.review)
  PROVE  ContextInv'
<1>1. /\ ContextTypeOK /\ DOMAIN versions' = DOMAIN versions /\ Len(versions') = Len(versions)
      /\ versions' \in Seq(VersionRow)
      /\ \A v \in DOMAIN versions : /\ versions'[v].status = "archived"
                                    /\ versions'[v].source = versions[v].source
                                    /\ versions'[v].fields = versions[v].fields
                                    /\ versions'[v].review = versions[v].review
  BY Archived DEF ContextInv, ContextSafe
<1>2. ContextTypeOK'
  BY <1>1 DEF ContextTypeOK
<1>3. NewestIsEffective' /\ ActiveIsReviewed' /\ ApprovedWasActivated' /\ IdentityOfVersion'
  BY <1>1 DEF ContextInv, ContextSafe, NewestIsEffective, Effective, ActiveIsReviewed, ApprovedWasActivated,
     IdentityOfVersion
<1>4. call'[c] = to /\ \A d \in ContextCalls \ {c} : call'[d] = call[d]
  BY <1>1 DEF ContextTypeOK
<1>5. CallHolds(c)'
  BY <1>4 DEF CallHolds, NoCall
<1>. QED
  BY <1>1, <1>2, <1>3, <1>4, <1>5, ContextMoves DEF ContextSafe

LEMMA ArchiveHolds ==
  ASSUME ContextInv, NEW c \in ContextCalls, Archive(c) \/ ClearEffective(c)
  PROVE  ContextInv'
<1>1. ContextTypeOK /\ CallHolds(c)
  BY DEF ContextInv, ContextSafe
<1>2. CASE ClearEffective(c)
  BY <1>2, ArchivingHolds DEF ClearEffective, EndCall, Call
<1>3. CASE Archive(c)
  <2>. DEFINE to == [call[c] EXCEPT !.at = "insert"]
  <2>1. call[c].at = "archive" /\ call[c] # NoCall /\ call' = [call EXCEPT ![c] = to]
    BY <1>3 DEF Archive, CallAt, MoveTo, NoCall
  <2>2. to \in Call /\ to.at = "insert" /\ to.fields = call[c].fields /\ to.review = call[c].review
        /\ to.version = call[c].version
    BY <1>1, <2>1, Carried DEF Call
  <2>3. to.version > 0 /\ Complete(to.fields, to.review)
    BY <1>1, <2>1, <2>2 DEF CallHolds
  <2>. HIDE DEF to
  <2>. QED
    BY <1>3, <2>1, <2>2, <2>3, ArchivingHolds DEF Archive
<1>. QED
  BY <1>2, <1>3

\* The indexes let a version in only as the newest and the only effective one.
LEMMA InsertHolds ==
  ASSUME ContextInv, NEW c \in ContextCalls, Insert(c)
  PROVE  ContextInv'
<1>. DEFINE n == Len(versions)
            entry == Activated(c)
            then == IF call[c].op = "approve" THEN "reread" ELSE "identity"
            review == InitialReview(Blank)
            to == Doing(call[c].op, then, Blank, review, call[c].version)
<1>1. /\ ContextTypeOK /\ CallHolds(c) /\ call[c].at = "insert" /\ call[c] # NoCall
      /\ n \in Nat /\ versions \in Seq(VersionRow) /\ DOMAIN versions = 1 .. n
      /\ UNCHANGED <<draft, identity>>
  BY DEF ContextInv, ContextSafe, ContextTypeOK, Insert, CallAt, NoCall
<1>2. /\ call[c].fields \in FieldValues /\ call[c].review \in Reviews
      /\ call[c].op \in {"edit", "submit", "approve", "put", "clear", "retry"}
      /\ call[c].version \in 0 .. MaxVersion /\ Complete(call[c].fields, call[c].review)
  BY <1>1, Carried DEF CallHolds
<1>3. CASE InsertAllowed(call[c].version)
  <2>1. /\ versions' = Append(versions, entry) /\ call' = [call EXCEPT ![c] = to]
        /\ call[c].version = n + 1 /\ Effective = {}
    BY <1>1, <1>3 DEF Insert, Become, InsertAllowed
  <2>2. /\ entry \in VersionRow /\ entry.status = "effective" /\ Complete(entry.fields, entry.review)
        /\ call[c].op = "approve" => entry.source = "ai_draft"
    BY <1>2 DEF Activated, VersionRow
  <2>3. review \in Reviews /\ Blank \in FieldValues
    BY BlankCarried
  <2>. HIDE DEF review
  <2>4. then \in {"reread", "identity"}
    OBVIOUS
  <2>5. /\ to \in Call /\ to.op = call[c].op /\ to.at = then /\ to.version = n + 1
        /\ to.fields = Blank /\ to.review = review
    BY <1>2, <2>1, <2>3, <2>4, Beginning
  <2>. HIDE DEF entry, to, n
  <2>6. /\ versions' \in Seq(VersionRow) /\ Len(versions') = n + 1 /\ DOMAIN versions' = 1 .. n + 1
        /\ \A v \in 1 .. n : versions'[v] = versions[v]
        /\ versions'[n + 1] = entry
    BY <1>1, <2>1, <2>2 DEF n
  <2>7. n + 1 <= MaxVersion
    BY <1>1, <1>2, <2>1, ContextAssumption
  <2>8. ContextTypeOK'
    BY <1>1, <2>1, <2>5, <2>6, <2>7 DEF ContextTypeOK
  <2>9. NewestIsEffective'
    <3>. SUFFICES ASSUME NEW v \in 1 .. n + 1, versions'[v].status = "effective"
                  PROVE  v = n + 1
      BY <2>6 DEF NewestIsEffective, Effective
    <3>1. v \in 1 .. n => v \in Effective
      BY <1>1, <2>6 DEF Effective
    <3>. QED
      BY <1>1, <2>1, <3>1
  <2>10. \A v \in 1 .. n + 1 : v \in 1 .. n \/ v = n + 1
    BY <1>1
  <2>11. ActiveIsReviewed'
    <3>1. \A v \in 1 .. n : Complete(versions[v].fields, versions[v].review)
      BY <1>1 DEF ContextInv, ContextSafe, ActiveIsReviewed
    <3>. QED
      BY <2>2, <2>6, <2>10, <3>1 DEF ActiveIsReviewed
  <2>12. n + 1 \in DOMAIN versions' /\ \A v \in 1 .. n : v \in DOMAIN versions'
    BY <1>1, <2>6
  <2>13. ApprovedWasActivated' /\ IdentityOfVersion'
    BY <1>1, <2>6, <2>12 DEF ContextInv, ContextSafe, ApprovedWasActivated, IdentityOfVersion
  <2>14. call'[c] = to /\ \A d \in ContextCalls \ {c} : call'[d] = call[d]
    BY <1>1, <2>1 DEF ContextTypeOK
  <2>15. CallHolds(c)'
    BY <2>2, <2>5, <2>6, <2>12, <2>14 DEF CallHolds
  <2>16. \A v \in DOMAIN versions : v \in DOMAIN versions' /\ versions'[v].source = versions[v].source
    BY <1>1, <2>6, <2>12
  <2>. QED
    BY <2>8, <2>9, <2>11, <2>13, <2>14, <2>15, <2>16, ContextMoves DEF ContextSafe
<1>4. CASE ~InsertAllowed(call[c].version)
  <2>1. call' = [call EXCEPT ![c] = NoCall] /\ versions' = versions
    BY <1>4 DEF Insert, EndCall
  <2>2. CallHolds(c)'
    BY <1>1, <2>1 DEF CallHolds, NoCall, ContextTypeOK
  <2>. QED
    BY <1>1, <2>1, <2>2, ContextReads DEF Call
<1>. QED
  BY <1>3, <1>4

LEMMA RereadHolds ==
  ASSUME ContextInv, NEW c \in ContextCalls, Reread(c)
  PROVE  ContextInv'
<1>. DEFINE to == [call[c] EXCEPT !.at = "write", !.revision = draft.revision]
<1>1. /\ ContextTypeOK /\ CallHolds(c) /\ call[c].at = "reread" /\ call[c] # NoCall
      /\ UNCHANGED <<draft, versions, identity>> /\ draft.revision \in 1 .. MaxRevision + 1
      /\ draft.revision <= MaxRevision
  BY DEF ContextInv, ContextSafe, ContextTypeOK, Reread, CallAt, NoCall, Draft
<1>2. draft.revision \in 0 .. MaxRevision
  BY <1>1, ContextAssumption
<1>3. call' = [call EXCEPT ![c] = to]
  BY <1>1 DEF Reread, ContextTypeOK
<1>4. to \in Call /\ to.at = "write" /\ to.op = call[c].op /\ to.version = call[c].version
  BY <1>1, <1>2, Carried DEF Call
<1>. HIDE DEF to
<1>5. call'[c] = to
  BY <1>1, <1>3 DEF ContextTypeOK
<1>6. CallHolds(c)'
  BY <1>1, <1>4, <1>5 DEF CallHolds
<1>. QED
  BY <1>1, <1>3, <1>4, <1>6, ContextReads

\* The draft is written only at the revision that was read again, so that its
\* revision stays within its bound; approved it becomes only after its version.
LEMMA WriteDraftHolds ==
  ASSUME ContextInv, NEW c \in ContextCalls, WriteDraft(c)
  PROVE  ContextInv'
<1>. DEFINE review == InitialReview(Blank)
            served == Doing("approve", "identity", Blank, review, call[c].version)
            to == IF call[c].op = "approve" THEN served ELSE NoCall
<1>1. /\ ContextTypeOK /\ CallHolds(c) /\ call[c].at = "write" /\ call[c] # NoCall
      /\ UNCHANGED <<versions, identity>> /\ draft \in Draft
  BY DEF ContextInv, ContextSafe, ContextTypeOK, WriteDraft, CallAt, NoCall
<1>2. /\ call[c].fields \in FieldValues /\ call[c].review \in Reviews
      /\ call[c].op \in {"edit", "submit", "approve"}
      /\ call[c].version \in 0 .. MaxVersion /\ call[c].revision \in 0 .. MaxRevision
  BY <1>1, Carried DEF CallHolds
<1>3. /\ to \in Call /\ call' = [call EXCEPT ![c] = to]
      /\ to = NoCall \/ (to.op = "approve" /\ to.at = "identity" /\ to.version = call[c].version)
      /\ to # NoCall => call[c].op = "approve"
  <2>1. review \in Reviews /\ Blank \in FieldValues
    BY BlankCarried
  <2>. HIDE DEF review
  <2>2. served \in Call /\ served.op = "approve" /\ served.at = "identity" /\ served.version = call[c].version
    BY <1>2, <2>1, Beginning
  <2>3. call' = [call EXCEPT ![c] = to]
    BY <1>1 DEF WriteDraft, Become, EndCall, review
  <2>. HIDE DEF served
  <2>4. CASE call[c].op = "approve"
    BY <2>2, <2>3, <2>4
  <2>5. CASE call[c].op # "approve"
    BY <2>3, <2>5 DEF Call
  <2>. QED
    BY <2>4, <2>5
<1>. HIDE DEF to
<1>4. draft' \in Draft /\ (draft'.status = "approved" => draft.status = "approved" \/ call[c].op = "approve")
  <2>1. CASE draft.revision # call[c].revision
    BY <1>1, <2>1 DEF WriteDraft
  <2>2. CASE draft.revision = call[c].revision
    <3>. DEFINE u == Updated(c)
    <3>1. /\ u \in Draft /\ u.revision = draft.revision
          /\ u.status = "approved" => call[c].op = "approve"
      BY <1>1, <1>2 DEF Updated, Draft, Editable
    <3>2. draft' = [u EXCEPT !.revision = @ + 1]
      BY <2>2 DEF WriteDraft
    <3>3. u.revision + 1 \in 1 .. MaxRevision + 1
      BY <1>2, <2>2, <3>1, ContextAssumption
    <3>. HIDE DEF u
    <3>. QED
      BY <3>1, <3>2, <3>3 DEF Draft
  <2>. QED
    BY <2>1, <2>2
<1>5. ContextTypeOK'
  BY <1>1, <1>3, <1>4 DEF ContextTypeOK
<1>6. ApprovedWasActivated'
  BY <1>1, <1>4 DEF ContextInv, ContextSafe, ApprovedWasActivated, CallHolds
<1>7. NewestIsEffective' /\ ActiveIsReviewed' /\ IdentityOfVersion'
  BY <1>1 DEF ContextInv, ContextSafe, NewestIsEffective, Effective, ActiveIsReviewed, IdentityOfVersion
<1>8. call'[c] = to /\ \A d \in ContextCalls \ {c} : call'[d] = call[d]
  BY <1>1, <1>3 DEF ContextTypeOK
<1>9. CallHolds(c)'
  BY <1>1, <1>3, <1>8 DEF CallHolds, NoCall
<1>. QED
  BY <1>1, <1>5, <1>6, <1>7, <1>8, <1>9, ContextMoves DEF ContextSafe

LEMMA IdentityHolds ==
  ASSUME ContextInv, NEW c \in ContextCalls, IdentityPending(c) \/ IdentityDrafted(c)
  PROVE  ContextInv'
<1>. DEFINE v == call[c].version
            onward == [call[c] EXCEPT !.at = "model"]
<1>1. /\ ContextTypeOK /\ CallHolds(c) /\ call[c].at \in {"identity", "model"} /\ call[c] # NoCall
      /\ UNCHANGED <<draft, versions>>
  BY DEF ContextInv, ContextSafe, IdentityPending, IdentityDrafted, CallAt, NoCall
<1>2. v \in DOMAIN versions /\ v \in 1 .. MaxVersion
  BY <1>1, ContextAssumption DEF CallHolds, ContextTypeOK
<1>3. PICK status \in {"pending", "ready", "failed"} :
        identity' = [identity EXCEPT ![v] = [status |-> status, stored |-> status = "ready"]]
  BY DEF IdentityPending, IdentityDrafted, Upsert
<1>4. PICK to \in Call : /\ call' = [call EXCEPT ![c] = to]
                         /\ to = NoCall \/ /\ to.at = "model" /\ to.op = call[c].op /\ to.version = v
  <2>1. CASE IdentityPending(c)
    <3>1. call' = [call EXCEPT ![c] = onward]
      BY <2>1 DEF IdentityPending, MoveTo
    <3>2. onward \in Call /\ onward.at = "model" /\ onward.op = call[c].op /\ onward.version = v
      BY <1>1, Carried DEF Call
    <3>. HIDE DEF onward
    <3>. QED
      BY <3>1, <3>2
  <2>2. CASE IdentityDrafted(c)
    BY <2>2 DEF IdentityDrafted, EndCall, Call
  <2>. QED
    BY <2>1, <2>2
<1>5. ContextTypeOK'
  BY <1>1, <1>2, <1>3, <1>4 DEF ContextTypeOK, Identity
<1>6. IdentityOfVersion'
  BY <1>1, <1>2, <1>3 DEF ContextInv, ContextSafe, ContextTypeOK, IdentityOfVersion
<1>7. NewestIsEffective' /\ ActiveIsReviewed' /\ ApprovedWasActivated'
  BY <1>1 DEF ContextInv, ContextSafe, NewestIsEffective, Effective, ActiveIsReviewed, ApprovedWasActivated
<1>8. call'[c] = to /\ \A d \in ContextCalls \ {c} : call'[d] = call[d]
  BY <1>1, <1>4 DEF ContextTypeOK
<1>9. CallHolds(c)'
  BY <1>1, <1>4, <1>8 DEF CallHolds, NoCall
<1>. QED
  BY <1>1, <1>5, <1>6, <1>7, <1>8, <1>9, ContextMoves DEF ContextSafe

LEMMA CallFailsHolds ==
  ASSUME ContextInv, NEW c \in ContextCalls, CallFails(c)
  PROVE  ContextInv'
<1>1. CallHolds(c)'
  BY DEF CallFails, EndCall, CallHolds, NoCall, ContextInv, ContextSafe, ContextTypeOK
<1>. QED
  BY <1>1, ContextReads DEF CallFails, EndCall, Call

LEMMA ContextKept == ContextInv /\ [ContextNext]_contextVars => ContextInv'
<1>. SUFFICES ASSUME ContextInv, [ContextNext]_contextVars
              PROVE  ContextInv'
  OBVIOUS
<1>1. ASSUME ContextNext
      PROVE  ContextInv'
  BY <1>1, BeginsHold, SelectMaxHolds, ArchiveHolds, InsertHolds, RereadHolds, WriteDraftHolds,
     IdentityHolds, CallFailsHolds DEF ContextNext
<1>2. CASE UNCHANGED contextVars
  BY <1>2 DEF contextVars, ContextInv, ContextSafe, ContextTypeOK, NewestIsEffective, Effective,
     ActiveIsReviewed, ApprovedWasActivated, IdentityOfVersion, CallHolds
<1>. QED
  BY <1>1, <1>2

(* However edits, approvals, PUTs, clears and retries of the identity      *)
(* interleave, fail or die between their statements, the version that the  *)
(* analysis tasks read is the newest and was reviewed, an approved draft   *)
(* was activated, and each identity belongs to its version                 *)
(* (company-context.service.js and its stores).                            *)
THEOREM ContextIsSafe == ContextSpec => []ContextSafe
<1>1. ContextInv => ContextSafe
  BY DEF ContextInv
<1>. QED
  BY ContextStart, ContextKept, <1>1, PTL DEF ContextSpec

(* What is drafted for a client and what becomes effective of it is safe,  *)
(* from the uploaded PDF to the context the tasks read.                    *)
THEOREM DraftsAreSafe == UploadSpec /\ ContextSpec => []DraftsSafe
<1>1. UploadSafe /\ ContextSafe => DraftsSafe
  BY DEF DraftsSafe
<1>. QED
  BY UploadIsSafe, ContextIsSafe, <1>1, PTL

\* What a step may do to the versions that are there.
HistoryStep ==
  \A v \in DOMAIN versions : /\ v \in DOMAIN versions'
                             /\ versions'[v] \in {versions[v], [versions[v] EXCEPT !.status = "archived"]}

LEMMA HistoryKept == ContextTypeOK /\ [ContextNext]_contextVars => HistoryStep
<1>. SUFFICES ASSUME ContextTypeOK, [ContextNext]_contextVars
              PROVE  HistoryStep
  OBVIOUS
<1>1. CASE versions' = versions
  BY <1>1 DEF HistoryStep
<1>2. CASE versions' = ArchiveAll
  BY <1>2, Archived DEF HistoryStep
<1>3. ASSUME NEW entry, versions' = Append(versions, entry)
      PROVE  HistoryStep
  BY <1>3 DEF HistoryStep, ContextTypeOK
<1>4. \/ versions' = versions \/ versions' = ArchiveAll
      \/ \E c \in ContextCalls : versions' = Append(versions, Activated(c))
  BY DEF ContextNext, contextVars, BeginEdit, BeginSubmit, BeginApprove, BeginPut, BeginClear,
     BeginRetryIdentity, SelectMax, Archive, Insert, ClearEffective, Reread, WriteDraft, IdentityPending,
     IdentityDrafted, CallFails
<1>. QED
  BY <1>1, <1>2, <1>3, <1>4

(* An activation adds a version and may archive others, but rewrites none, *)
(* and an archived version never comes back (effective-context.store.js).  *)
THEOREM VersionsStayHistory == ContextSpec => VersionsAreHistory
<1>1. ContextInv => ContextTypeOK
  BY DEF ContextInv, ContextSafe
<1>2. ContextInv /\ [ContextNext]_contextVars =>
        [\A v \in DOMAIN versions :
           /\ v \in DOMAIN versions'
           /\ versions'[v] \in {versions[v], [versions[v] EXCEPT !.status = "archived"]}]_contextVars
  BY <1>1, HistoryKept DEF HistoryStep
<1>. QED
  BY ContextStart, ContextKept, <1>2, PTL DEF ContextSpec, VersionsAreHistory

-----------------------------------------------------------------------------
(* Access *)

\* A call under way has at each of its stages what the checks behind it have seen.
Entitled(e) ==
  /\ e.kind \in {"use", "edit", "switch"} /\ e.at \notin {"tenant", "company"} => e.tenantOpen
  /\ e.kind \in {"use", "edit"} /\ e.at \in {"row", "write", "allowed"} => e.held
  /\ e.kind \in {"use", "edit"} => e.at \notin {"company", "list"}
  /\ e.kind = "switch" =>
       /\ e.at # "company" => e.companyOpen
       /\ e.at = "allowed" => e.held
       /\ e.permission = "issue.read" /\ e.scope # AllCompanies
       /\ e.at \in {"company", "tenant", "member", "operator", "allowed"}
  /\ e.kind = "login" =>
       /\ e.at # "list" => e.held
       /\ e.at \in {"tenant", "allowed"} => e.companyOpen
       /\ e.at = "allowed" => e.tenantOpen
       /\ e.permission = "issue.read"
       /\ e.at \in {"list", "company", "tenant", "allowed"}
  /\ e.at = "operator" => e.scope # AllCompanies

\* The row that an administrator was shown is there, and has changed since if its
\* version has; a company admin whose row was found in the company was shown it there.
Shown(e, rows) ==
  e.kind = "edit" =>
    /\ e.row \in MemberRows /\ e.read \in Member /\ rows[e.row] \in Member
    /\ rows[e.row].version >= e.read.version
    /\ rows[e.row].version = e.read.version => rows[e.row] = e.read
    /\ e.at = "write" /\ e.permission = "company.users.manage" /\ rows[e.row].version = e.read.version =>
         e.read.company = e.scope

AccessInv ==
  AccessTypeOK /\ \A c \in AccessCalls : access[c] # Free => Entitled(access[c]) /\ Shown(access[c], members)

\* A later record of the same call: nothing but its history has grown.
Later(old, new) ==
  /\ new.kind = old.kind /\ new.at = old.at /\ new.user = old.user /\ new.scope = old.scope
  /\ new.permission = old.permission /\ new.row = old.row /\ new.read = old.read /\ new.seen = old.seen
  /\ old.tenantOpen => new.tenantOpen
  /\ old.companyOpen => new.companyOpen
  /\ old.held => new.held

\* ... which has seen what the tables say.
Saw(e, status, companies, rows) ==
  e.kind # "lifecycle" =>
    /\ status = "active" => e.tenantOpen
    /\ e.kind \in {"switch", "login"} /\ CompanyOpen(companies, e.scope) => e.companyOpen
    /\ Holds(rows, e.user, e.scope, e.permission) => e.held

\* No row goes away, and one that changes gets a higher version.
RowsLater(rows, new) ==
  \A id \in MemberRows :
    /\ rows[id] # NoMember => new[id] # NoMember /\ new[id].version >= rows[id].version
    /\ rows[id] # NoMember /\ new[id].version = rows[id].version => new[id] = rows[id]

AccessTables == [MemberRows -> Member \cup {NoMember}]

LEMMA FreeIsNotRunning == Free \notin Running /\ NoMember \notin Member
<1>1. Free \notin Running
  BY DEF Free, Running
<1>2. ASSUME NEW m \in Member
      PROVE  m # NoMember
  BY <1>2, AccessAssumption DEF Member, NoMember
<1>. QED
  BY <1>1, <1>2

\* What the history does to a call.
LEMMA Witnessed ==
  ASSUME NEW calls \in [AccessCalls -> Running \cup {Free}], NEW status, NEW companies, NEW rows,
         NEW c \in AccessCalls
  PROVE  LET new == Witness(calls, status, companies, rows)
         IN  /\ new \in [AccessCalls -> Running \cup {Free}]
             /\ calls[c] = Free => new[c] = Free
             /\ calls[c] # Free => new[c] \in Running /\ Later(calls[c], new[c])
                                   /\ Saw(new[c], status, companies, rows)
<1>. DEFINE new == Witness(calls, status, companies, rows)
<1>1. ASSUME NEW d \in AccessCalls
      PROVE  /\ calls[d] = Free => new[d] = Free
             /\ calls[d] # Free => new[d] \in Running /\ Later(calls[d], new[d])
                                   /\ Saw(new[d], status, companies, rows)
  <2>1. CASE calls[d] = Free
    BY <2>1 DEF Witness
  <2>2. CASE calls[d] # Free /\ calls[d].kind = "lifecycle"
    BY <2>2 DEF Witness, Later, Saw
  <2>3. CASE calls[d] # Free /\ calls[d].kind # "lifecycle"
    <3>. DEFINE e == calls[d]
                open == status = "active"
                reached == e.kind \in {"switch", "login"} /\ CompanyOpen(companies, e.scope)
                holds == Holds(rows, e.user, e.scope, e.permission)
    <3>1. e \in Running
      BY <2>3
    <3>2. new[d] = [e EXCEPT !.tenantOpen = @ \/ open, !.companyOpen = @ \/ reached, !.held = @ \/ holds]
      BY <2>3 DEF Witness
    <3>3. open \in BOOLEAN /\ reached \in BOOLEAN /\ holds \in BOOLEAN
      BY DEF Holds
    <3>. HIDE DEF e, open, reached, holds
    <3>4. /\ new[d] \in Running /\ Later(e, new[d])
          /\ open => new[d].tenantOpen
          /\ reached => new[d].companyOpen
          /\ holds => new[d].held
      BY <3>1, <3>2, <3>3 DEF Running, Later
    <3>5. Saw(new[d], status, companies, rows)
      BY <3>4 DEF Saw, Later, open, reached, holds
    <3>. QED
      BY <2>3, <3>4, <3>5 DEF e
  <2>. QED
    BY <2>1, <2>2, <2>3
<1>2. new \in [AccessCalls -> Running \cup {Free}]
  <2>1. \A d \in AccessCalls : new[d] \in Running \cup {Free}
    BY <1>1
  <2>2. new = [d \in AccessCalls |-> new[d]]
    BY DEF Witness
  <2>. HIDE DEF new
  <2>. QED
    BY <2>1, <2>2
<1>. QED
  BY <1>1, <1>2

\* What a call has seen stays seen, and what it was shown stays as it was or is
\* told by its version.
LEMMA StaysEntitled ==
  ASSUME NEW old, NEW new, Later(old, new), Entitled(old)
  PROVE  Entitled(new)
BY DEF Later, Entitled

LEMMA StaysShown ==
  ASSUME NEW old, NEW new, Later(old, new), NEW rows \in AccessTables, NEW after \in AccessTables,
         Shown(old, rows), RowsLater(rows, after)
  PROVE  Shown(new, after)
<1>. SUFFICES ASSUME new.kind = "edit"
              PROVE  Shown(new, after)
  BY DEF Shown
<1>. DEFINE was == rows[old.row]
            is == after[old.row]
<1>1. /\ old.row \in MemberRows /\ old.read \in Member /\ was \in Member
      /\ was.version >= old.read.version
      /\ was.version = old.read.version => was = old.read
      /\ old.at = "write" /\ old.permission = "company.users.manage" /\ was.version = old.read.version =>
           old.read.company = old.scope
  BY DEF Shown, Later
<1>2. was # NoMember
  BY <1>1, FreeIsNotRunning
<1>3. is # NoMember /\ is.version >= was.version /\ (is.version = was.version => is = was)
  BY <1>1, <1>2 DEF RowsLater
<1>4. is \in Member
  BY <1>1, <1>3 DEF AccessTables
<1>5. old.read.version \in Nat /\ was.version \in Nat /\ is.version \in Nat
  BY <1>1, <1>4, AccessAssumption DEF Member
<1>6. is.version >= old.read.version /\ (is.version = old.read.version => was.version = old.read.version)
  BY <1>1, <1>3, <1>5
<1>. HIDE DEF was, is
<1>7. /\ old.row \in MemberRows /\ old.read \in Member /\ is \in Member
      /\ is.version >= old.read.version
      /\ is.version = old.read.version => is = old.read
      /\ old.at = "write" /\ old.permission = "company.users.manage" /\ is.version = old.read.version =>
           old.read.company = old.scope
  BY <1>1, <1>3, <1>4, <1>6
<1>. QED
  BY <1>7 DEF Shown, Later, is

\* The tables become others, and the history of every call with them.
LEMMA TablesMove ==
  ASSUME AccessInv, NEW calls \in [AccessCalls -> Running \cup {Free}],
         NEW status \in TenantStatus, NEW companies \in [Companies -> TenantStatus], NEW rows \in AccessTables,
         RowsLater(members, rows),
         tenantStatus' = status, companyStatus' = companies, members' = rows,
         access' = Witness(calls, status, companies, rows),
         \A c \in AccessCalls : \/ calls[c] = access[c]
                                \/ calls[c] = Free
                                \/ \A new \in Running :
                                     Later(calls[c], new) /\ Saw(new, status, companies, rows) =>
                                       Entitled(new) /\ Shown(new, rows)
  PROVE  AccessInv'
<1>1. access' \in [AccessCalls -> Running \cup {Free}]
  <2>1. \A c \in AccessCalls : access'[c] \in Running \cup {Free}
    BY Witnessed
  <2>2. access' = [c \in AccessCalls |-> access'[c]]
    BY DEF Witness
  <2>. QED
    BY <2>1, <2>2
<1>2. AccessTypeOK'
  BY <1>1 DEF AccessTypeOK, AccessTables
<1>3. ASSUME NEW c \in AccessCalls, access'[c] # Free
      PROVE  Entitled(access'[c]) /\ Shown(access'[c], rows)
  <2>. DEFINE new == access'[c]
  <2>1. calls[c] # Free /\ new \in Running /\ Later(calls[c], new) /\ Saw(new, status, companies, rows)
    BY <1>3, Witnessed
  <2>2. CASE calls[c] = access[c]
    <3>1. Entitled(calls[c]) /\ Shown(calls[c], members) /\ members \in AccessTables
      BY <2>1, <2>2 DEF AccessInv, AccessTypeOK, AccessTables
    <3>. QED
      BY <2>1, <3>1, StaysEntitled, StaysShown
  <2>3. CASE \A n \in Running : Later(calls[c], n) /\ Saw(n, status, companies, rows) =>
                                  Entitled(n) /\ Shown(n, rows)
    BY <2>1, <2>3
  <2>. QED
    BY <2>1, <2>2, <2>3
<1>. QED
  BY <1>2, <1>3 DEF AccessInv

\* No row changes.
LEMMA RowsStay ==
  ASSUME AccessTypeOK
  PROVE  members \in AccessTables /\ RowsLater(members, members)
<1>1. \A id \in MemberRows : members[id] # NoMember => members[id].version \in Nat
  BY AccessAssumption DEF AccessTypeOK, Member
<1>. QED
  BY <1>1 DEF AccessTypeOK, AccessTables, RowsLater

\* A call moves, and the tables stay.
LEMMA CallMoves ==
  ASSUME AccessInv, NEW c \in AccessCalls, NEW to \in Running \cup {Free}, Reads(c, to),
         to # Free => \A new \in Running :
           Later(to, new) /\ Saw(new, tenantStatus, companyStatus, members) => Entitled(new) /\ Shown(new, members)
  PROVE  AccessInv'
<1>. DEFINE calls == [access EXCEPT ![c] = to]
<1>1. AccessTypeOK /\ members \in AccessTables /\ RowsLater(members, members)
  BY RowsStay DEF AccessInv
<1>2. /\ calls \in [AccessCalls -> Running \cup {Free}]
      /\ \A d \in AccessCalls : calls[d] = access[d] \/ (d = c /\ calls[d] = to)
  BY <1>1 DEF AccessTypeOK
<1>3. /\ tenantStatus' = tenantStatus /\ companyStatus' = companyStatus /\ members' = members
      /\ access' = Witness(calls, tenantStatus, companyStatus, members)
  BY DEF Reads, Moves
<1>4. tenantStatus \in TenantStatus /\ companyStatus \in [Companies -> TenantStatus]
  BY <1>1 DEF AccessTypeOK
<1>. HIDE DEF calls
<1>. QED
  BY <1>1, <1>2, <1>3, <1>4, TablesMove

\* A call that is refused or over.
LEMMA CallEnds ==
  ASSUME AccessInv, NEW c \in AccessCalls, Reads(c, Free)
  PROVE  AccessInv'
BY CallMoves

LEMMA AccessStart == AccessInit => AccessInv
<1>. SUFFICES ASSUME AccessInit
              PROVE  AccessInv
  OBVIOUS
<1>1. AccessTypeOK
  BY DEF AccessInit, AccessTypeOK, TenantStatus
<1>. QED
  BY <1>1 DEF AccessInit, AccessInv

\* A call under way, and what is known of it and of its row.
LEMMA Known ==
  ASSUME AccessInv, NEW c \in AccessCalls, access[c] # Free
  PROVE  access[c] \in Running /\ Entitled(access[c]) /\ Shown(access[c], members)
BY DEF AccessInv, AccessTypeOK

\* A call goes on to a stage at which nothing more is asked of its row than before.
LEMMA GoesOnTo ==
  ASSUME AccessInv, NEW c \in AccessCalls, access[c] # Free, NEW at \in AccessAt,
         at = "write" /\ access[c].permission = "company.users.manage" /\ access[c].kind = "edit" =>
           members[access[c].row].company = access[c].scope,
         Reads(c, Went(c, at)),
         \A new \in Running :
           /\ new.kind = access[c].kind /\ new.at = at /\ new.scope = access[c].scope
           /\ new.permission = access[c].permission
           /\ access[c].tenantOpen => new.tenantOpen
           /\ access[c].companyOpen => new.companyOpen
           /\ access[c].held => new.held
           /\ new.kind # "lifecycle" =>
                /\ tenantStatus = "active" => new.tenantOpen
                /\ new.kind \in {"switch", "login"} /\ CompanyOpen(companyStatus, new.scope) => new.companyOpen
                /\ Holds(members, access[c].user, new.scope, new.permission) => new.held
           => Entitled(new)
  PROVE  AccessInv'
<1>. DEFINE e == access[c]
            to == [e EXCEPT !.at = at]
<1>1. e \in Running /\ Entitled(e) /\ Shown(e, members)
  BY Known
<1>2. Reads(c, to)
  BY DEF Went, AccessAt
<1>3. /\ to \in Running /\ to.at = at /\ to.kind = e.kind /\ to.user = e.user /\ to.scope = e.scope
      /\ to.permission = e.permission /\ to.row = e.row /\ to.read = e.read
      /\ to.tenantOpen = e.tenantOpen /\ to.companyOpen = e.companyOpen /\ to.held = e.held
  BY <1>1 DEF Running
<1>4. ASSUME NEW new \in Running, Later(to, new), Saw(new, tenantStatus, companyStatus, members)
      PROVE  Entitled(new) /\ Shown(new, members)
  <2>. HIDE DEF to, e
  <2>1. Entitled(new)
    BY <1>3, <1>4 DEF Later, Saw, e
  <2>2. Shown(new, members)
    <3>. SUFFICES ASSUME new.kind = "edit"
                  PROVE  Shown(new, members)
      BY DEF Shown
    <3>1. new.row = e.row /\ new.read = e.read /\ new.scope = e.scope /\ e.kind = "edit" /\ new.at = at
          /\ new.permission = e.permission
      BY <1>3, <1>4 DEF Later
    <3>2. at = "write" /\ e.permission = "company.users.manage" => members[e.row].company = e.scope
      BY <3>1 DEF e
    <3>. QED
      BY <1>1, <3>1, <3>2 DEF Shown
  <2>. QED
    BY <2>1, <2>2
<1>. HIDE DEF to
<1>. QED
  BY <1>2, <1>3, <1>4, CallMoves

LEMMA BeginCallHolds ==
  ASSUME AccessInv, NEW c \in AccessCalls, BeginCall(c)
  PROVE  AccessInv'
<1>1. PICK kind \in CallKinds[c], u \in Users, scope \in Scope, p \in Permission,
           id \in MemberRows \cup {NoRowFound} :
        /\ kind = "edit" => p # "issue.read" /\ id # NoRowFound /\ members[id] # NoMember
        /\ kind # "edit" => id = NoRowFound
        /\ p = "company.users.manage" => scope # AllCompanies
        /\ kind \in {"switch", "login", "lifecycle"} => p = "issue.read"
        /\ kind \in {"switch"} => scope # AllCompanies
        /\ kind \in {"login", "lifecycle"} => scope = AllCompanies
        /\ Reads(c, [kind |-> kind, at |-> First[kind], user |-> u, scope |-> scope, permission |-> p,
                     row |-> id, read |-> IF id = NoRowFound THEN NoMember ELSE members[id],
                     seen |-> "pending",
                     tenantOpen |-> FALSE, companyOpen |-> FALSE, held |-> FALSE])
  BY DEF BeginCall
<1>. DEFINE read == IF id = NoRowFound THEN NoMember ELSE members[id]
            at == First[kind]
            to == [kind |-> kind, at |-> at, user |-> u, scope |-> scope, permission |-> p,
                   row |-> id, read |-> read, seen |-> "pending",
                   tenantOpen |-> FALSE, companyOpen |-> FALSE, held |-> FALSE]
<1>2. kind \in Kind
  BY AccessAssumption DEF Kind
<1>3. /\ at \in AccessAt
      /\ kind \in {"use", "edit"} => at = "tenant"
      /\ kind = "switch" => at = "company"
      /\ kind = "login" => at = "list"
      /\ at \notin {"operator", "write"}
  BY <1>2 DEF First, AccessAt, Kind
<1>4. members \in AccessTables /\ \A m \in Member : m.version \in Nat
  BY AccessAssumption DEF AccessInv, AccessTypeOK, AccessTables, Member
<1>5. /\ read \in Member \cup {NoMember}
      /\ kind = "edit" => id \in MemberRows /\ read = members[id] /\ read \in Member
  BY <1>1, <1>4 DEF AccessTables
<1>. HIDE DEF read, at
<1>6. to \in Running
  BY <1>2, <1>3, <1>5 DEF Running, TenantStatus
<1>7. ASSUME NEW new \in Running, Later(to, new)
      PROVE  Entitled(new) /\ Shown(new, members)
  <2>1. /\ new.kind = kind /\ new.at = at /\ new.scope = scope /\ new.permission = p
        /\ new.row = id /\ new.read = read
    BY <1>7 DEF Later
  <2>2. Entitled(new)
    BY <1>1, <1>2, <1>3, <2>1 DEF Entitled, Kind
  <2>3. Shown(new, members)
    BY <1>3, <1>4, <1>5, <2>1 DEF Shown
  <2>. QED
    BY <2>2, <2>3
<1>8. Reads(c, to)
  BY <1>1 DEF read, at
<1>. HIDE DEF to
<1>. QED
  BY <1>6, <1>7, <1>8, CallMoves

LEMMA EndRequestHolds ==
  ASSUME AccessInv, NEW c \in AccessCalls, EndRequest(c)
  PROVE  AccessInv'
BY DEF EndRequest, AccessInv, AccessTypeOK

LEMMA CheckTenantHolds ==
  ASSUME AccessInv, NEW c \in AccessCalls, CheckTenant(c)
  PROVE  AccessInv'
<1>1. /\ access[c] # Free /\ access[c].kind \in {"use", "edit", "switch", "login"} /\ access[c].at = "tenant"
      /\ access[c] \in Running /\ Entitled(access[c])
  BY Known DEF CheckTenant, GoesOn
<1>2. CASE tenantStatus # "active"
  BY <1>2, CallEnds DEF CheckTenant, Went
<1>3. CASE tenantStatus = "active" /\ access[c].kind = "login"
  <2>1. Reads(c, Went(c, "allowed"))
    BY <1>3 DEF CheckTenant
  <2>. QED
    BY <1>1, <1>3, <2>1, GoesOnTo DEF AccessAt, Entitled
<1>4. CASE tenantStatus = "active" /\ access[c].kind # "login"
  <2>1. Reads(c, Went(c, "member"))
    BY <1>4 DEF CheckTenant
  <2>. QED
    BY <1>1, <1>4, <2>1, GoesOnTo DEF AccessAt, Entitled
<1>. QED
  BY <1>2, <1>3, <1>4

LEMMA CheckCompanyHolds ==
  ASSUME AccessInv, NEW c \in AccessCalls, CheckCompany(c)
  PROVE  AccessInv'
<1>1. /\ access[c] # Free /\ access[c].kind = "switch" /\ access[c].at = "company"
      /\ access[c] \in Running /\ Entitled(access[c])
  BY Known DEF CheckCompany, GoesOn
<1>2. CASE companyStatus[access[c].scope] # "active"
  BY <1>2, CallEnds DEF CheckCompany, Went
<1>3. CASE companyStatus[access[c].scope] = "active"
  <2>1. Reads(c, Went(c, "tenant"))
    BY <1>3 DEF CheckCompany
  <2>. QED
    BY <1>1, <1>3, <2>1, GoesOnTo DEF AccessAt, Entitled, CompanyOpen
<1>. QED
  BY <1>2, <1>3

LEMMA CheckOwnCompanyHolds ==
  ASSUME AccessInv, NEW c \in AccessCalls, CheckOwnCompany(c)
  PROVE  AccessInv'
<1>1. /\ access[c] # Free /\ access[c].kind = "login" /\ access[c].at = "company"
      /\ access[c] \in Running /\ Entitled(access[c])
  BY Known DEF CheckOwnCompany, GoesOn
<1>2. CASE ~CompanyOpen(companyStatus, access[c].scope)
  BY <1>2, CallEnds DEF CheckOwnCompany, Went
<1>3. CASE CompanyOpen(companyStatus, access[c].scope)
  <2>1. Reads(c, Went(c, "tenant"))
    BY <1>3 DEF CheckOwnCompany
  <2>. QED
    BY <1>1, <1>3, <2>1, GoesOnTo DEF AccessAt, Entitled
<1>. QED
  BY <1>2, <1>3

\* Every permission of a role that may open a session is that of reading.
LEMMA EveryRoleReads ==
  ASSUME NEW role \in Roles
  PROVE  "issue.read" \in RolePermissions[role] /\ role \in {"tenant_admin", "company_admin", "analyst"}
<1>1. role \in {"tenant_admin", "company_admin", "analyst"}
  BY AccessAssumption
<1>. QED
  BY <1>1 DEF RolePermissions, Permission

\* Whoever is let past the check of the membership holds the permission at that moment.
LEMMA MayHolds ==
  ASSUME AccessInv, NEW c \in AccessCalls, access[c] # Free,
         access[c].kind \in {"use", "edit", "switch"},
         NEW id \in RowsOf(members, access[c].user), May(c, id),
         \/ members[id].company \in {access[c].scope, AllCompanies}
         \/ TenantOperator(members[id].role)
  PROVE  Holds(members, access[c].user, access[c].scope, access[c].permission)
<1>1. id \in MemberRows /\ members[id] \in Member
  BY DEF RowsOf, AccessInv, AccessTypeOK
<1>2. members[id].role \in Roles
  BY <1>1 DEF Member
<1>3. access[c].kind = "switch" => access[c].permission = "issue.read"
  BY Known DEF Entitled
<1>4. access[c].permission \in RolePermissions[members[id].role]
  BY <1>2, <1>3, EveryRoleReads DEF May
<1>. QED
  BY <1>4 DEF Holds, Grants

\* What may pass goes on; what may not is refused.
LEMMA Passes ==
  ASSUME AccessInv, NEW c \in AccessCalls, access[c] # Free,
         access[c].kind \in {"use", "edit", "switch"}, access[c].at \in {"member", "operator"},
         Holds(members, access[c].user, access[c].scope, access[c].permission),
         Reads(c, Went(c, Passed(c)))
  PROVE  AccessInv'
<1>1. access[c] \in Running /\ Entitled(access[c])
  BY Known
<1>2. CASE access[c].kind # "edit"
  BY <1>1, <1>2, GoesOnTo DEF Passed, AccessAt, Entitled
<1>3. CASE access[c].kind = "edit" /\ access[c].permission = "company.users.manage"
  BY <1>1, <1>3, GoesOnTo DEF Passed, AccessAt, Entitled
<1>4. CASE access[c].kind = "edit" /\ access[c].permission # "company.users.manage"
  BY <1>1, <1>4, GoesOnTo DEF Passed, AccessAt, Entitled
<1>. QED
  BY <1>2, <1>3, <1>4

LEMMA CheckMemberHolds ==
  ASSUME AccessInv, NEW c \in AccessCalls, CheckMember(c)
  PROVE  AccessInv'
<1>. DEFINE e == access[c]
            found == Resolved(e.user, e.scope)
<1>1. /\ e # Free /\ e.kind \in {"use", "edit", "switch"} /\ e.at = "member"
      /\ e \in Running /\ Entitled(e)
  BY Known DEF CheckMember, GoesOn
<1>2. CASE Reads(c, Went(c, "refused"))
  BY <1>2, CallEnds DEF Went
<1>3. CASE e.scope # AllCompanies /\ Reads(c, Went(c, "operator"))
  BY <1>1, <1>3, GoesOnTo DEF AccessAt, Entitled
<1>4. ASSUME NEW id \in found, May(c, id), Reads(c, Went(c, Passed(c)))
      PROVE  AccessInv'
  <2>1. id \in RowsOf(members, e.user) /\ members[id].company \in {e.scope, AllCompanies}
    BY <1>4 DEF Resolved
  <2>. QED
    BY <1>1, <1>4, <2>1, MayHolds, Passes
<1>5. \/ Reads(c, Went(c, "refused"))
      \/ e.scope # AllCompanies /\ Reads(c, Went(c, "operator"))
      \/ \E id \in found : May(c, id) /\ Reads(c, Went(c, Passed(c)))
  BY DEF CheckMember
<1>. QED
  BY <1>2, <1>3, <1>4, <1>5

LEMMA CheckOperatorHolds ==
  ASSUME AccessInv, NEW c \in AccessCalls, CheckOperator(c)
  PROVE  AccessInv'
<1>. DEFINE e == access[c]
            found == Operators(e.user)
<1>1. /\ e # Free /\ e.kind \in {"use", "edit", "switch"} /\ e.at = "operator"
      /\ e \in Running /\ Entitled(e)
  BY Known DEF CheckOperator, GoesOn
<1>2. CASE Reads(c, Went(c, "refused"))
  BY <1>2, CallEnds DEF Went
<1>3. ASSUME NEW id \in found, May(c, id), Reads(c, Went(c, Passed(c)))
      PROVE  AccessInv'
  <2>1. id \in RowsOf(members, e.user) /\ TenantOperator(members[id].role)
    BY <1>3 DEF Operators
  <2>. QED
    BY <1>1, <1>3, <2>1, MayHolds, Passes
<1>4. \/ Reads(c, Went(c, "refused"))
      \/ \E id \in found : May(c, id) /\ Reads(c, Went(c, Passed(c)))
  BY DEF CheckOperator
<1>. QED
  BY <1>2, <1>3, <1>4

LEMMA ListOwnHolds ==
  ASSUME AccessInv, NEW c \in AccessCalls, ListOwn(c)
  PROVE  AccessInv'
<1>. DEFINE e == access[c]
<1>1. e # Free /\ e.kind = "login" /\ e.at = "list" /\ e \in Running /\ Entitled(e)
  BY Known DEF ListOwn, GoesOn
<1>2. PICK id \in RowsOf(members, e.user) :
        Reads(c, [e EXCEPT !.at = "company", !.scope = members[id].company,
                           !.companyOpen = CompanyOpen(companyStatus, members[id].company), !.held = TRUE])
  BY DEF ListOwn
<1>. DEFINE company == members[id].company
            open == CompanyOpen(companyStatus, company)
            to == [e EXCEPT !.at = "company", !.scope = company, !.companyOpen = open, !.held = TRUE]
<1>3. company \in Scope
  BY DEF RowsOf, AccessInv, AccessTypeOK, Member
<1>4. open \in BOOLEAN
  BY DEF CompanyOpen
<1>. HIDE DEF company, open, e
<1>5. /\ to \in Running /\ to.at = "company" /\ to.kind = "login" /\ to.held
      /\ to.permission = e.permission
  BY <1>1, <1>3, <1>4 DEF Running, AccessAt
<1>6. Reads(c, to)
  BY <1>2 DEF company, open, e
<1>. HIDE DEF to
<1>7. ASSUME NEW new \in Running, Later(to, new)
      PROVE  Entitled(new) /\ Shown(new, members)
  BY <1>1, <1>5, <1>7 DEF Later, Entitled, Shown
<1>. QED
  BY <1>5, <1>6, <1>7, CallMoves

LEMMA RefusalsHold ==
  ASSUME AccessInv, NEW c \in AccessCalls, LoginUnscoped(c) \/ UpdateConflict(c)
  PROVE  AccessInv'
BY CallEnds DEF LoginUnscoped, UpdateConflict, Went

LEMMA CheckRowHolds ==
  ASSUME AccessInv, NEW c \in AccessCalls, CheckRow(c)
  PROVE  AccessInv'
<1>1. /\ access[c] # Free /\ access[c].kind = "edit" /\ access[c].at = "row"
      /\ access[c] \in Running /\ Entitled(access[c])
  BY Known DEF CheckRow, GoesOn
<1>2. CASE members[access[c].row].company # access[c].scope
  BY <1>2, CallEnds DEF CheckRow, Went
<1>3. CASE members[access[c].row].company = access[c].scope
  <2>1. Reads(c, Went(c, "write"))
    BY <1>3 DEF CheckRow
  <2>. QED
    BY <1>1, <1>3, <2>1, GoesOnTo DEF AccessAt, Entitled
<1>. QED
  BY <1>2, <1>3

LEMMA ReadTenantHolds ==
  ASSUME AccessInv, NEW c \in AccessCalls, ReadTenant(c)
  PROVE  AccessInv'
<1>. DEFINE e == access[c]
            to == [e EXCEPT !.at = "write", !.seen = tenantStatus]
<1>1. e # Free /\ e.kind = "lifecycle" /\ e \in Running /\ Reads(c, to)
  BY Known DEF ReadTenant, GoesOn
<1>2. to \in Running /\ to.at = "write" /\ to.kind = "lifecycle"
  BY <1>1 DEF Running, AccessAt, AccessInv, AccessTypeOK
<1>. HIDE DEF to
<1>3. ASSUME NEW new \in Running, Later(to, new)
      PROVE  Entitled(new) /\ Shown(new, members)
  BY <1>2, <1>3 DEF Later, Entitled, Shown
<1>. QED
  BY <1>1, <1>2, <1>3, CallMoves

\* A call that writes to a table is let in.
LEMMA WriterIsLetIn ==
  ASSUME AccessInv, NEW c \in AccessCalls, access[c] # Free, access[c].kind \in {"edit", "lifecycle"},
         access[c].at = "write", NEW status \in TenantStatus, NEW rows \in AccessTables,
         RowsLater(members, rows), Moves(c, Went(c, "allowed"), status, companyStatus, rows)
  PROVE  AccessInv'
<1>. DEFINE e == access[c]
            to == [e EXCEPT !.at = "allowed"]
            calls == [access EXCEPT ![c] = to]
<1>1. e \in Running /\ Entitled(e) /\ Shown(e, members) /\ AccessTypeOK /\ members \in AccessTables
  BY Known, RowsStay DEF AccessInv
<1>2. /\ to \in Running /\ to.at = "allowed" /\ to.kind = e.kind /\ to.row = e.row /\ to.read = e.read
      /\ to.tenantOpen = e.tenantOpen /\ to.held = e.held
  BY <1>1 DEF Running, AccessAt
<1>3. /\ tenantStatus' = status /\ companyStatus' = companyStatus /\ members' = rows
      /\ access' = Witness(calls, status, companyStatus, rows)
  BY DEF Moves, Went
<1>. HIDE DEF to
<1>4. Shown(to, members)
  BY <1>1, <1>2 DEF Shown
<1>5. ASSUME NEW new \in Running, Later(to, new)
      PROVE  Entitled(new) /\ Shown(new, rows)
  <2>1. Entitled(new)
    BY <1>1, <1>2, <1>5 DEF Later, Entitled
  <2>2. Shown(new, rows)
    BY <1>1, <1>4, <1>5, StaysShown
  <2>. QED
    BY <2>1, <2>2
<1>6. /\ calls \in [AccessCalls -> Running \cup {Free}]
      /\ \A d \in AccessCalls : calls[d] = access[d] \/ calls[d] = to
      /\ companyStatus \in [Companies -> TenantStatus]
  BY <1>1, <1>2 DEF AccessTypeOK
<1>. HIDE DEF calls
<1>. QED
  BY <1>3, <1>5, <1>6, TablesMove

LEMMA PatchTenantHolds ==
  ASSUME AccessInv, NEW c \in AccessCalls, PatchTenant(c)
  PROVE  AccessInv'
<1>1. access[c] # Free /\ access[c].kind = "lifecycle" /\ access[c].at = "write"
  BY DEF PatchTenant, GoesOn
<1>2. members \in AccessTables /\ RowsLater(members, members)
  BY RowsStay DEF AccessInv
<1>. QED
  BY <1>1, <1>2, WriterIsLetIn DEF PatchTenant

LEMMA UpdateMemberHolds ==
  ASSUME AccessInv, NEW c \in AccessCalls, UpdateMember(c)
  PROVE  AccessInv'
<1>. DEFINE id == access[c].row
<1>1. access[c] # Free /\ access[c].kind = "edit" /\ access[c].at = "write" /\ members[id].version < MaxMemberVersion
  BY DEF UpdateMember, GoesOn
<1>2. id \in MemberRows /\ members[id] \in Member /\ members \in AccessTables
  BY <1>1, Known, RowsStay DEF Shown, AccessInv
<1>3. PICK new \in Edited(c, members[id]) :
        Moves(c, Went(c, "allowed"), tenantStatus, companyStatus, [members EXCEPT ![id] = new])
  BY DEF UpdateMember
<1>. DEFINE rows == [members EXCEPT ![id] = new]
<1>4. /\ members[id].version \in Nat /\ members[id].version + 1 \in 1 .. MaxMemberVersion
      /\ members[id].company \in Scope /\ members[id].status \in MemberStatus
  BY <1>1, <1>2, AccessAssumption DEF Member
<1>5. access[c].scope \in Scope
  BY <1>1, Known DEF Running
<1>6. new.version = members[id].version + 1 /\ new \in Member
  <2>1. new \in [company : Scope, role : Roles, status : MemberStatus, version : {members[id].version + 1}]
    BY <1>3, <1>4, <1>5 DEF Edited, Scope, MemberStatus
  <2>. QED
    BY <1>4, <2>1 DEF Member
<1>7. rows \in AccessTables
  BY <1>2, <1>6 DEF AccessTables
<1>8. RowsLater(members, rows)
  <2>. SUFFICES ASSUME NEW r \in MemberRows, members[r] # NoMember
                PROVE  /\ rows[r] # NoMember /\ rows[r].version >= members[r].version
                       /\ rows[r].version = members[r].version => rows[r] = members[r]
    BY DEF RowsLater
  <2>1. members[r].version \in Nat
    BY <1>2, AccessAssumption DEF AccessTables, Member
  <2>2. CASE r = id
    BY <1>2, <1>4, <1>6, <2>2, FreeIsNotRunning DEF AccessTables
  <2>3. CASE r # id
    BY <1>2, <2>1, <2>3 DEF AccessTables
  <2>. QED
    BY <2>2, <2>3
<1>9. tenantStatus \in TenantStatus
  BY DEF AccessInv, AccessTypeOK
<1>. HIDE DEF rows
<1>. QED
  BY <1>1, <1>3, <1>7, <1>8, <1>9, WriterIsLetIn DEF rows

\* Tables that change without a call.
LEMMA TablesChange ==
  ASSUME AccessInv, NEW status \in TenantStatus, NEW companies \in [Companies -> TenantStatus],
         NEW rows \in AccessTables, RowsLater(members, rows),
         tenantStatus' = status, companyStatus' = companies, members' = rows,
         access' = Witness(access, status, companies, rows)
  PROVE  AccessInv'
<1>1. access \in [AccessCalls -> Running \cup {Free}]
  BY DEF AccessInv, AccessTypeOK
<1>. QED
  BY <1>1, TablesMove

LEMMA InviteHolds ==
  ASSUME AccessInv, NEW id \in MemberRows, Invite(id)
  PROVE  AccessInv'
<1>. DEFINE company == id[2]
            same == {other \in MemberRows : /\ other[1] = id[1] /\ members[other] # NoMember
                                            /\ members[other].company = company /\ company # AllCompanies}
            invited(role, version) == [company |-> company, role |-> role, status |-> "active",
                                       version |-> version]
            changed(role) == [other \in MemberRows |->
                                IF other \in same THEN invited(role, members[other].version + 1)
                                ELSE members[other]]
            added(role) == [members EXCEPT ![id] = invited(role, 1)]
<1>1. /\ AccessTypeOK /\ members \in AccessTables /\ RowsLater(members, members)
      /\ tenantStatus \in TenantStatus /\ companyStatus \in [Companies -> TenantStatus]
      /\ \A r \in MemberRows : members[r] # NoMember => members[r] \in Member
      /\ \A m \in Member : m.version \in Nat
  BY RowsStay, AccessAssumption DEF AccessInv, AccessTypeOK, AccessTables, Member
<1>2. company \in Scope
  BY AccessAssumption DEF Scope
<1>3. PICK role \in Roles :
        LET rows == IF same # {} THEN changed(role) ELSE added(role)
        IN  /\ \/ same # {} /\ \A other \in same : members[other].version < MaxMemberVersion
               \/ same = {} /\ members[id] = NoMember
            /\ members' = rows
            /\ access' = Witness(access, tenantStatus, companyStatus, rows)
            /\ UNCHANGED <<tenantStatus, companyStatus>>
  BY DEF Invite
<1>4. \A n \in 1 .. MaxMemberVersion : invited(role, n) \in Member /\ invited(role, n).version = n
  BY <1>2 DEF Member, MemberStatus
<1>5. CASE same # {}
  <2>. DEFINE rows == changed(role)
  <2>1. ASSUME NEW r \in MemberRows
        PROVE  /\ rows[r] \in Member \cup {NoMember}
               /\ members[r] # NoMember => rows[r] # NoMember /\ rows[r].version >= members[r].version
               /\ members[r] # NoMember /\ rows[r].version = members[r].version => rows[r] = members[r]
    <3>1. CASE r \notin same
      <4>1. rows[r] = members[r]
        BY <3>1
      <4>. HIDE DEF rows
      <4>. QED
        BY <1>1, <4>1 DEF AccessTables
    <3>2. CASE r \in same
      <4>. DEFINE n == members[r].version
      <4>1. n \in Nat /\ n < MaxMemberVersion
        BY <1>1, <1>3, <1>5, <3>2
      <4>2. n + 1 \in 1 .. MaxMemberVersion
        BY <4>1, AccessAssumption
      <4>3. rows[r] = invited(role, n + 1)
        BY <3>2
      <4>4. rows[r] \in Member /\ rows[r].version = n + 1
        BY <1>4, <4>2, <4>3
      <4>. HIDE DEF rows, n
      <4>5. rows[r] # NoMember /\ rows[r].version >= n /\ rows[r].version # n
        BY <4>1, <4>4, FreeIsNotRunning
      <4>. QED
        BY <4>4, <4>5 DEF n
    <3>. QED
      BY <3>1, <3>2
  <2>2. rows \in [MemberRows -> Member \cup {NoMember}]
    BY <2>1
  <2>3. members' = rows /\ access' = Witness(access, tenantStatus, companyStatus, rows)
        /\ UNCHANGED <<tenantStatus, companyStatus>>
    BY <1>3, <1>5
  <2>. HIDE DEF rows
  <2>4. RowsLater(members, rows)
    BY <2>1 DEF RowsLater
  <2>. QED
    BY <1>1, <2>2, <2>3, <2>4, TablesChange DEF AccessTables
<1>6. CASE same = {}
  <2>. DEFINE rows == added(role)
              row1 == invited(role, 1)
  <2>1. members[id] = NoMember /\ members' = rows /\ access' = Witness(access, tenantStatus, companyStatus, rows)
        /\ UNCHANGED <<tenantStatus, companyStatus>>
    BY <1>3, <1>6
  <2>2. row1 \in Member
    <3>1. 1 \in 1 .. MaxMemberVersion
      BY AccessAssumption
    <3>. QED
      BY <1>4, <3>1
  <2>. HIDE DEF row1
  <2>3. rows = [members EXCEPT ![id] = row1]
    BY DEF row1
  <2>. HIDE DEF rows
  <2>4. rows \in AccessTables /\ RowsLater(members, rows)
    BY <1>1, <2>1, <2>2, <2>3 DEF AccessTables, RowsLater
  <2>. QED
    BY <1>1, <2>1, <2>4, TablesChange
<1>. QED
  BY <1>5, <1>6

LEMMA LifecyclesHold ==
  ASSUME AccessInv, BulkLifecycle \/ \E company \in Companies : PatchCompany(company)
  PROVE  AccessInv'
<1>1. /\ members \in AccessTables /\ RowsLater(members, members)
      /\ tenantStatus \in TenantStatus /\ companyStatus \in [Companies -> TenantStatus]
  BY RowsStay DEF AccessInv, AccessTypeOK
<1>2. CASE BulkLifecycle
  BY <1>1, <1>2, TablesChange DEF BulkLifecycle, BulkUpdate
<1>3. ASSUME NEW company \in Companies, PatchCompany(company)
      PROVE  AccessInv'
  <2>1. PICK to \in {"active", "archived"} :
          /\ companyStatus' = [companyStatus EXCEPT ![company] = to]
          /\ access' = Witness(access, tenantStatus, companyStatus', members)
          /\ UNCHANGED <<tenantStatus, members>>
    BY <1>3 DEF PatchCompany
  <2>. DEFINE companies == [companyStatus EXCEPT ![company] = to]
  <2>2. companies \in [Companies -> TenantStatus]
    BY <1>1 DEF TenantStatus
  <2>. HIDE DEF companies
  <2>3. companyStatus' = companies /\ access' = Witness(access, tenantStatus, companies, members)
    BY <2>1 DEF companies
  <2>. QED
    BY <1>1, <2>1, <2>2, <2>3, TablesChange
<1>. QED
  BY <1>2, <1>3

LEMMA AccessKept == AccessInv /\ [AccessNext]_accessVars => AccessInv'
<1>. SUFFICES ASSUME AccessInv, [AccessNext]_accessVars
              PROVE  AccessInv'
  OBVIOUS
<1>1. ASSUME AccessNext
      PROVE  AccessInv'
  BY <1>1, BeginCallHolds, EndRequestHolds, CheckTenantHolds, CheckMemberHolds, CheckOperatorHolds,
     CheckCompanyHolds, ListOwnHolds, CheckOwnCompanyHolds, RefusalsHold, CheckRowHolds, UpdateMemberHolds,
     ReadTenantHolds, PatchTenantHolds, InviteHolds, LifecyclesHold DEF AccessNext
<1>2. CASE UNCHANGED accessVars
  BY <1>2 DEF accessVars, AccessInv, AccessTypeOK
<1>. QED
  BY <1>1, <1>2

(* Whatever the platform and the administrators change while a call is     *)
(* authorized, one query at a time, nobody is let in who was not entitled  *)
(* at some moment of the call (auth/authorization.js, auth-context.js).    *)
THEOREM AccessIsSafe == AccessSpec => []AccessSafe
<1>1. AccessInv => AccessSafe
  <2>. SUFFICES ASSUME AccessInv, NEW c \in AccessCalls, access[c] # Free, access[c].at = "allowed",
                       access[c].kind # "lifecycle"
                PROVE  /\ access[c].tenantOpen /\ access[c].held
                       /\ access[c].kind \in {"switch", "login"} => access[c].companyOpen
    BY DEF AccessInv, AccessSafe, AllowedWasEntitled
  <2>1. access[c] \in Running /\ Entitled(access[c])
    BY Known
  <2>. QED
    BY <2>1 DEF Entitled, Running, Kind
<1>. QED
  BY AccessStart, AccessKept, <1>1, PTL DEF AccessSpec

\* The row an update matches is the row its author was shown.
LEMMA UpdatesTheShown ==
  ASSUME AccessInv, NEW c \in AccessCalls, UpdateMember(c)
  PROVE  /\ members[access[c].row] = access[c].read
         /\ Inside(c) => members[access[c].row].company = access[c].scope
<1>1. /\ access[c] # Free /\ access[c].kind = "edit" /\ access[c].at = "write"
      /\ members[access[c].row].version = access[c].read.version
  BY DEF UpdateMember, GoesOn, Matching
<1>. QED
  BY <1>1, Known DEF Shown, Inside

(* A membership is changed only as its author was shown it (If-Match), not *)
(* a row that was changed, moved or invited again meanwhile                *)
(* (routes/memberships.js, auth/membership.store.js).                      *)
THEOREM EditsTheShown == AccessSpec => EditsWhatWasShown
<1>1. AccessInv /\ [AccessNext]_accessVars =>
        [\A c \in AccessCalls : UpdateMember(c) => members[access[c].row] = access[c].read]_accessVars
  BY UpdatesTheShown
<1>. QED
  BY AccessStart, AccessKept, <1>1, PTL DEF AccessSpec, EditsWhatWasShown

(* Whatever moves rows between companies at the same time, a company admin *)
(* changes rows of the company of the call only (requireCompanyMembership  *)
(* and the version of the row).                                            *)
THEOREM AdminsAreInside == AccessSpec => AdminsStayInside
<1>1. AccessInv /\ [AccessNext]_accessVars =>
        [\A c \in AccessCalls :
           UpdateMember(c) /\ Inside(c) => members[access[c].row].company = access[c].scope]_accessVars
  BY UpdatesTheShown
<1>. QED
  BY AccessStart, AccessKept, <1>1, PTL DEF AccessSpec, AdminsStayInside

-----------------------------------------------------------------------------
(* Alerts *)

\* The event of a development has been let through.
LetThrough(d) == events[Direct(d)] \notin {"none", "suppressed"}

Calls == Evaluations \cup Writers \cup Deliverers

AlertTypes ==
  /\ AlertTypeOK
  /\ \A k \in Evaluations : alert[k] \in Evaluation
  /\ \A k \in Writers : alert[k] \in Writer
  /\ \A k \in Deliverers : alert[k] \in Sender

\* What is direct came with the issue.
DirectIsNew == \A d \in Developments : events[Direct(d)] # "none" => d \in CreatedWith

EvaluationHolds(e) ==
  /\ e.channel = "langsung" => e.of \in CreatedWith
  /\ e.channel = "none" => e.verdict = "suppressed"
  /\ e.at \in {"find", "content"} => e.channel # "none"

WriterHolds(e) == e.at \notin {"event", "over"} => LetThrough(e.of)

\* A delivery that is about to insert the row, that has set out, and of these one
\* that holds no accepted mail.
Inserts(e) == e.at = "insert"
SetOff(e) == e.at \in {"send", "noted", "note", "mark", "missed", "miss", "fail", "sleep"}
Told(e) == e.at \in {"noted", "note", "mark"}
Pends(e) == SetOff(e) /\ ~Told(e)

SenderHolds(e) ==
  /\ e.at \notin {"event", "over"} => LetThrough(e.of)
  /\ e.at = "row" \/ Inserts(e) \/ SetOff(e) => e.of \in blurbs
  /\ Told(e) => mails[e.of] > 0
  /\ e.at = "sleep" => e.attempt < MaxSends

Inserting(f, d) == {k \in Deliverers : f[k].of = d /\ Inserts(f[k])}
OutFor(f, d) == {k \in Deliverers : f[k].of = d /\ SetOff(f[k])}
Pending(f, d) == {k \in Deliverers : f[k].of = d /\ Pends(f[k])}

\* The mails m of a development, its overlaps o and what is untold u, its row's
\* status, and the deliveries f: a mail that is still to come is explained already,
\* and so is one more as long as a delivery is about to insert the row; when nobody
\* is under way and the row does not say sent, the next one is; and nobody sets out
\* before the row is there.
Books(f, d, m, o, u, status) ==
  /\ m + Cardinality(Pending(f, d)) + (IF Inserting(f, d) = {} THEN 0 ELSE 1) <= 1 + o + u
  /\ status # "sent" /\ Inserting(f, d) = {} /\ OutFor(f, d) = {} => m <= o + u
  /\ status = "none" => m = 0 /\ OutFor(f, d) = {}

BooksBalance ==
  \A d \in Developments : Books(alert, d, mails[d], overlaps[d], untold[d], deliveries[d].status)

AlertInv ==
  /\ AlertTypes /\ DirectIsNew /\ MailWasEarned /\ SentWasMailed /\ BooksBalance
  /\ \A k \in Evaluations : EvaluationHolds(alert[k])
  /\ \A k \in Writers : WriterHolds(alert[k])
  /\ \A k \in Deliverers : SenderHolds(alert[k])

\* The books as one delivery e sees them: p others are pending, others are about to
\* insert (i), others have set out (a).
Ledger(e, p, i, a, m, o, u, status) ==
  /\ m + p + (IF Pends(e) THEN 1 ELSE 0) + (IF i \/ Inserts(e) THEN 1 ELSE 0) <= 1 + o + u
  /\ status # "sent" /\ ~i /\ ~a /\ ~Inserts(e) /\ ~SetOff(e) => m <= o + u
  /\ status = "none" => m = 0 /\ ~a /\ ~SetOff(e)

\* A delivery that goes on from `from` as `to` keeps the books of its development,
\* whatever its rivals are about.
Settles(from, to, rivals, m, o, u, status, m2, o2, u2, status2) ==
  \A p \in Nat, i, a \in BOOLEAN :
    /\ p > 0 => a
    /\ i \/ a <=> rivals # {}
    /\ Ledger(from, p, i, a, m, o, u, status)
    => Ledger(to, p, i, a, m2, o2, u2, status2)

\* Those that are pending, counted as delivery k and the others.
CountedApart(f, d, k) ==
  /\ Cardinality(Pending(f, d) \ {k}) \in Nat
  /\ Cardinality(Pending(f, d)) =
       Cardinality(Pending(f, d) \ {k}) + (IF Pends(f[k]) THEN 1 ELSE 0)
  /\ Cardinality(Pending(f, d) \ {k}) > 0 => OutFor(f, d) \ {k} # {}

LEMMA PendingOthers ==
  ASSUME NEW f, NEW d, NEW k \in Deliverers, f[k].of = d
  PROVE  CountedApart(f, d, k)
<1>. DEFINE all == Pending(f, d)
            rest == all \ {k}
<1>1. IsFiniteSet(all) /\ IsFiniteSet(rest)
  <2>1. all \in SUBSET Deliverers /\ rest \in SUBSET Deliverers /\ IsFiniteSet(Deliverers)
    BY AlertAssumption DEF Pending
  <2>. QED
    BY <2>1, FS_Subset
<1>2. k \in all <=> Pends(f[k])
  BY DEF Pending
<1>3. rest # {} => OutFor(f, d) \ {k} # {}
  BY DEF Pending, OutFor, Pends
<1>. HIDE DEF all
<1>4. Cardinality(rest) \in Nat /\ (Cardinality(rest) > 0 => rest # {})
  BY <1>1, FS_CardinalityType, FS_EmptySet
<1>5. CASE k \in all
  <2>1. Cardinality(rest) = Cardinality(all) - 1 /\ Cardinality(all) \in Nat
    BY <1>1, <1>5, FS_RemoveElement, FS_CardinalityType
  <2>. QED
    BY <1>2, <1>3, <1>4, <1>5, <2>1 DEF all, CountedApart
<1>6. CASE k \notin all
  <2>1. rest = all
    BY <1>6
  <2>. QED
    BY <1>2, <1>3, <1>4, <1>6, <2>1 DEF all, CountedApart
<1>. QED
  BY <1>5, <1>6 DEF CountedApart

\* When one delivery moves, the books balance if they do as this delivery sees them.
LEMMA BooksMove ==
  ASSUME NEW f, NEW g, NEW d, NEW k \in Deliverers, f[k].of = d, g[k].of = d,
         \A j \in Deliverers \ {k} : g[j] = f[j],
         NEW m \in Nat, NEW o \in Nat, NEW u \in Nat, NEW status, Books(f, d, m, o, u, status),
         NEW m2 \in Nat, NEW o2 \in Nat, NEW u2 \in Nat, NEW status2,
         NEW rivals, rivals = (Inserting(f, d) \cup OutFor(f, d)) \ {k},
         Settles(f[k], g[k], rivals, m, o, u, status, m2, o2, u2, status2)
  PROVE  Books(g, d, m2, o2, u2, status2)
<1>. DEFINE p == Cardinality(Pending(f, d) \ {k})
            i == Inserting(f, d) \ {k} # {}
            a == OutFor(f, d) \ {k} # {}
<1>1. /\ Inserting(f, d) = {} <=> ~i /\ ~Inserts(f[k])
      /\ OutFor(f, d) = {} <=> ~a /\ ~SetOff(f[k])
  BY DEF Inserting, OutFor
<1>2. /\ Inserting(g, d) \ {k} = Inserting(f, d) \ {k} /\ OutFor(g, d) \ {k} = OutFor(f, d) \ {k}
      /\ Pending(g, d) \ {k} = Pending(f, d) \ {k}
  BY DEF Inserting, OutFor, Pending
<1>3. /\ Inserting(g, d) = {} <=> Inserting(g, d) \ {k} = {} /\ ~Inserts(g[k])
      /\ OutFor(g, d) = {} <=> OutFor(g, d) \ {k} = {} /\ ~SetOff(g[k])
  BY DEF Inserting, OutFor
<1>4. /\ Inserting(g, d) = {} <=> ~i /\ ~Inserts(g[k])
      /\ OutFor(g, d) = {} <=> ~a /\ ~SetOff(g[k])
  BY <1>2, <1>3
<1>5. /\ p \in Nat /\ (p > 0 => a)
      /\ Cardinality(Pending(f, d)) = p + (IF Pends(f[k]) THEN 1 ELSE 0)
      /\ Cardinality(Pending(g, d)) = p + (IF Pends(g[k]) THEN 1 ELSE 0)
  <2>1. Cardinality(Pending(f, d)) = p + (IF Pends(f[k]) THEN 1 ELSE 0)
    BY PendingOthers DEF CountedApart
  <2>2. p \in Nat /\ (p > 0 => a)
    BY PendingOthers DEF CountedApart
  <2>3. Cardinality(Pending(g, d)) = Cardinality(Pending(g, d) \ {k}) + (IF Pends(g[k]) THEN 1 ELSE 0)
    <3>1. CountedApart(g, d, k)
      BY PendingOthers
    <3>. QED
      BY <3>1 DEF CountedApart
  <2>. QED
    BY <1>2, <2>1, <2>2, <2>3
<1>6. i \in BOOLEAN /\ a \in BOOLEAN /\ (i \/ a <=> rivals # {})
  OBVIOUS
<1>. HIDE DEF p, i, a
<1>7. Ledger(f[k], p, i, a, m, o, u, status)
  <2>1. m + Cardinality(Pending(f, d)) + (IF Inserting(f, d) = {} THEN 0 ELSE 1) =
          m + p + (IF Pends(f[k]) THEN 1 ELSE 0) + (IF i \/ Inserts(f[k]) THEN 1 ELSE 0)
    BY <1>1, <1>5
  <2>. QED
    BY <1>1, <2>1 DEF Books, Ledger
<1>8. Ledger(g[k], p, i, a, m2, o2, u2, status2)
  BY <1>5, <1>6, <1>7 DEF Settles
<1>9. m2 + Cardinality(Pending(g, d)) + (IF Inserting(g, d) = {} THEN 0 ELSE 1) =
        m2 + p + (IF Pends(g[k]) THEN 1 ELSE 0) + (IF i \/ Inserts(g[k]) THEN 1 ELSE 0)
  BY <1>4, <1>5
<1>. QED
  BY <1>4, <1>8, <1>9 DEF Books, Ledger

\* What a call is when it begins, and when it is over.
LEMMA CallForms ==
  ASSUME NEW d \in Developments
  PROVE  /\ \A k \in Evaluations : /\ AlertCall(k, d) \in Evaluation /\ AlertCall(k, d).of = d
                                   /\ AlertCall(k, d).at = "issue" /\ AlertCall(k, d).channel = "none"
                                   /\ AlertCall(k, d).verdict = "suppressed"
         /\ \A k \in Writers : AlertCall(k, d) = [at |-> "event", of |-> d]
         /\ \A k \in Deliverers : /\ AlertCall(k, d) \in Sender /\ AlertCall(k, d).of = d
                                  /\ AlertCall(k, d).at = "event"
<1>1. Settled \in Urgency
  BY AlertAssumption DEF Settled, Urgency
<1>2. ASSUME NEW k \in Evaluations
      PROVE  AlertCall(k, d) = [at |-> "issue", of |-> d, urgency |-> Settled, preference |-> NoPreference,
                                channel |-> "none", verdict |-> "suppressed"]
  BY AlertAssumption DEF AlertCall
<1>3. NoPreference \in Preference
  BY DEF NoPreference, Preference
<1>4. ASSUME NEW k \in Evaluations
      PROVE  AlertCall(k, d) \in Evaluation
  BY <1>1, <1>2, <1>3 DEF Evaluation, EventChannels
<1>5. ASSUME NEW k \in Writers
      PROVE  AlertCall(k, d) = [at |-> "event", of |-> d]
  BY AlertAssumption DEF AlertCall
<1>6. ASSUME NEW k \in Deliverers
      PROVE  AlertCall(k, d) = [at |-> "event", of |-> d, attempt |-> 0, read |-> 0, retry |-> FALSE]
  BY AlertAssumption DEF AlertCall
<1>7. 0 \in 0 .. MaxSends
  BY AlertAssumption
<1>8. ASSUME NEW k \in Deliverers
      PROVE  AlertCall(k, d) \in Sender /\ AlertCall(k, d).of = d /\ AlertCall(k, d).at = "event"
  <2>. DEFINE no == FALSE
              zero == 0
  <2>1. AlertCall(k, d) = [at |-> "event", of |-> d, attempt |-> zero, read |-> zero, retry |-> no]
    BY <1>6, <1>8
  <2>2. no \in BOOLEAN /\ zero \in Nat /\ zero \in 0 .. MaxSends
    BY <1>7
  <2>. HIDE DEF no, zero
  <2>. QED
    BY <2>1, <2>2 DEF Sender
<1>. QED
  BY <1>2, <1>4, <1>5, <1>8

LEMMA OverForms ==
  ASSUME AlertTypes
  PROVE  /\ \A k \in Calls : Of(k) \in Developments
         /\ \A k \in Evaluations : /\ Over(k) \in Evaluation /\ Over(k).of = Of(k)
                                   /\ Over(k).at = "issue" /\ Over(k).channel = "none"
                                   /\ Over(k).verdict = "suppressed"
         /\ \A k \in Writers : Over(k) = [at |-> "over", of |-> Of(k)]
         /\ \A k \in Deliverers : Over(k) \in Sender /\ Over(k).at = "over" /\ Over(k).of = Of(k)
<1>1. \A k \in Calls : Of(k) \in Developments
  BY DEF AlertTypes, Calls, Of, Evaluation, Writer, Sender
<1>2. ASSUME NEW k \in Evaluations
      PROVE  Over(k) = AlertCall(k, Of(k)) /\ Of(k) \in Developments
  BY <1>1 DEF Over, Calls
<1>3. ASSUME NEW k \in Writers
      PROVE  Over(k) = [at |-> "over", of |-> Of(k)]
  <2>1. k \notin Evaluations /\ Of(k) \in Developments
    BY <1>1, AlertAssumption DEF Calls
  <2>2. AlertCall(k, Of(k)) = [at |-> "event", of |-> Of(k)]
    BY <2>1, CallForms
  <2>3. Over(k) = [AlertCall(k, Of(k)) EXCEPT !.at = "over"]
    BY <2>1 DEF Over
  <2>. QED
    BY <2>2, <2>3
<1>4. ASSUME NEW k \in Deliverers
      PROVE  Over(k) \in Sender /\ Over(k).at = "over" /\ Over(k).of = Of(k)
  <2>1. k \notin Evaluations /\ Of(k) \in Developments
    BY <1>1, AlertAssumption DEF Calls
  <2>2. AlertCall(k, Of(k)) \in Sender /\ AlertCall(k, Of(k)).of = Of(k)
    BY <2>1, CallForms
  <2>3. Over(k) = [AlertCall(k, Of(k)) EXCEPT !.at = "over"]
    BY <2>1 DEF Over
  <2>. QED
    BY <2>2, <2>3 DEF Sender
<1>. QED
  BY <1>1, <1>2, <1>3, <1>4, CallForms

LEMMA AlertStart == AlertInit => AlertInv
<1>. SUFFICES ASSUME AlertInit
              PROVE  AlertInv
  OBVIOUS
<1>1. PICK of \in [Calls -> Developments] : alert = [k \in DOMAIN of |-> AlertCall(k, of[k])]
  BY DEF AlertInit, Calls
<1>2. \A k \in Calls : alert[k] = AlertCall(k, of[k]) /\ of[k] \in Developments
  BY <1>1
<1>3. /\ \A k \in Evaluations : /\ alert[k] \in Evaluation /\ alert[k].at = "issue"
                                /\ alert[k].channel = "none" /\ alert[k].verdict = "suppressed"
      /\ \A k \in Writers : alert[k] \in Writer /\ alert[k].at = "event"
      /\ \A k \in Deliverers : alert[k] \in Sender /\ alert[k].at = "event"
  <2>1. \A k \in Evaluations : /\ alert[k] \in Evaluation /\ alert[k].at = "issue"
                               /\ alert[k].channel = "none" /\ alert[k].verdict = "suppressed"
    BY <1>2, CallForms DEF Calls
  <2>2. \A k \in Writers : alert[k] \in Writer /\ alert[k].at = "event"
    BY <1>2, CallForms DEF Calls, Writer
  <2>3. \A k \in Deliverers : alert[k] \in Sender /\ alert[k].at = "event"
    BY <1>2, CallForms DEF Calls
  <2>. QED
    BY <2>1, <2>2, <2>3
<1>4. alert \in [Calls -> Evaluation \cup Writer \cup Sender]
  BY <1>1, <1>3 DEF Calls
<1>5. AlertTypeOK
  <2>1. Settled \in Urgency
    BY AlertAssumption DEF Settled, Urgency
  <2>2. events \in [EventKeys -> Event] /\ \A d \in Developments : events[<<d, "none">>] = "none"
    BY DEF AlertInit, EventKeys, EventChannels, Event
  <2>3. deliveries \in [Developments -> Delivery]
    BY DEF AlertInit, NoDelivery, Delivery
  <2>. QED
    BY <1>4, <2>1, <2>2, <2>3 DEF AlertInit, AlertTypeOK, Calls
<1>6. \A d \in Developments : events[Direct(d)] = "none"
  BY DEF AlertInit, Direct, EventKeys, EventChannels
<1>7. BooksBalance
  <2>. SUFFICES ASSUME NEW d \in Developments
                PROVE  Books(alert, d, 0, 0, 0, "none")
    BY DEF BooksBalance, AlertInit, NoDelivery
  <2>1. Inserting(alert, d) = {} /\ OutFor(alert, d) = {} /\ Pending(alert, d) = {}
    BY <1>3 DEF Inserting, OutFor, Pending, Inserts, SetOff, Pends
  <2>. QED
    BY <2>1, FS_EmptySet DEF Books
<1>8. MailWasEarned /\ SentWasMailed
  BY DEF AlertInit, MailWasEarned, SentWasMailed, NoDelivery
<1>9. /\ \A k \in Evaluations : EvaluationHolds(alert[k])
      /\ \A k \in Writers : WriterHolds(alert[k])
      /\ \A k \in Deliverers : SenderHolds(alert[k])
  BY <1>3 DEF EvaluationHolds, WriterHolds, SenderHolds, Inserts, SetOff, Told
<1>. QED
  BY <1>3, <1>5, <1>6, <1>7, <1>8, <1>9 DEF AlertInv, AlertTypes, DirectIsNew

\* No verdict is taken back.
Stand == \A d \in Developments : LetThrough(d) => LetThrough(d)'

\* Nothing of the deliveries moves: a call of another kind, or the issue, does.
LEMMA DeliveriesStay ==
  ASSUME AlertInv, AlertTypes', DirectIsNew', Stand, blurbs \subseteq blurbs', UNCHANGED mailSide,
         \A k \in Deliverers : alert'[k] = alert[k],
         \A k \in Evaluations : EvaluationHolds(alert'[k]),
         \A k \in Writers : WriterHolds(alert[k])' \/ alert'[k] = alert[k]
  PROVE  AlertInv'
<1>1. MailWasEarned'
  BY DEF AlertInv, MailWasEarned, Stand, LetThrough, mailSide, AlertTypes, AlertTypeOK
<1>2. SentWasMailed'
  BY DEF AlertInv, SentWasMailed, mailSide
<1>3. BooksBalance'
  <2>. SUFFICES ASSUME NEW d \in Developments
                PROVE  Books(alert', d, mails[d], overlaps[d], untold[d], deliveries[d].status)
    BY DEF BooksBalance, mailSide
  <2>1. Inserting(alert', d) = Inserting(alert, d) /\ OutFor(alert', d) = OutFor(alert, d)
        /\ Pending(alert', d) = Pending(alert, d)
    BY DEF Inserting, OutFor, Pending
  <2>. QED
    BY <2>1 DEF AlertInv, BooksBalance, Books
<1>4. ASSUME NEW k \in Deliverers
      PROVE  SenderHolds(alert[k])'
  <2>1. alert'[k] = alert[k] /\ SenderHolds(alert[k]) /\ alert[k].of \in Developments
    BY DEF AlertInv, AlertTypes, Sender
  <2>. QED
    BY <2>1 DEF SenderHolds, Stand, LetThrough, mailSide
<1>5. ASSUME NEW k \in Writers
      PROVE  WriterHolds(alert[k])'
  <2>1. WriterHolds(alert[k]) /\ alert[k].of \in Developments
    BY DEF AlertInv, AlertTypes, Writer
  <2>. QED
    BY <2>1 DEF WriterHolds, Stand, LetThrough
<1>. QED
  BY <1>1, <1>2, <1>3, <1>4, <1>5 DEF AlertInv

LEMMA IssueMovesOn ==
  ASSUME AlertInv, Reprioritise \/ ExplainPriority \/ WriteContent \/ ChangePreference
  PROVE  AlertInv'
<1>1. UNCHANGED <<events, blurbs, mailSide, alert>>
  BY DEF Reprioritise, ExplainPriority, WriteContent, ChangePreference
<1>2. urgency \in Urgency /\ preference \in Preference
  BY DEF AlertInv, AlertTypes, AlertTypeOK
<1>3. urgency' \in Urgency /\ preference' \in Preference
  <2>1. CASE Reprioritise
    <3>1. PICK p \in {"tinggi", "sedang", "rendah"} :
            urgency' = [urgency EXCEPT !.priority = p, !.decision = @ + 1, !.reasoned = FALSE]
      BY <2>1 DEF Reprioritise
    <3>2. urgency.decision + 1 \in 1 .. MaxDecision
      BY <1>2, <2>1, AlertAssumption DEF Reprioritise, Urgency
    <3>. QED
      BY <1>2, <2>1, <3>1, <3>2 DEF Reprioritise, Urgency
  <2>2. CASE ExplainPriority \/ WriteContent
    BY <1>2, <2>2 DEF ExplainPriority, WriteContent, Urgency
  <2>3. CASE ChangePreference
    BY <1>2, <2>3 DEF ChangePreference
  <2>. QED
    BY <2>1, <2>2, <2>3
<1>4. AlertTypes'
  BY <1>1, <1>3 DEF AlertInv, AlertTypes, AlertTypeOK, mailSide
<1>. QED
  BY <1>1, <1>4, DeliveriesStay DEF AlertInv, DirectIsNew, Stand, LetThrough

\* One evaluation moves, and with it at most an event.
LEMMA EvaluationMoves ==
  ASSUME AlertInv, NEW k \in Evaluations, NEW to \in Evaluation, EvaluationHolds(to),
         alert' = [alert EXCEPT ![k] = to], Evaluating,
         events' \in [EventKeys -> Event], DirectIsNew', Stand,
         \A d \in Developments : events'[<<d, "none">>] \in {"none", "suppressed"}
  PROVE  AlertInv'
<1>1. k \in Calls /\ k \notin Writers /\ k \notin Deliverers
  BY AlertAssumption DEF Calls
<1>2. alert \in [Calls -> Evaluation \cup Writer \cup Sender]
  BY DEF AlertInv, AlertTypes, AlertTypeOK, Calls
<1>3. /\ alert' \in [Calls -> Evaluation \cup Writer \cup Sender]
      /\ alert'[k] = to /\ \A j \in Calls \ {k} : alert'[j] = alert[j]
  BY <1>1, <1>2
<1>4. AlertTypes'
  <2>1. AlertTypeOK'
    BY <1>3 DEF AlertInv, AlertTypes, AlertTypeOK, Calls, Evaluating, issueSide, mailSide
  <2>2. /\ \A j \in Evaluations : alert'[j] \in Evaluation
        /\ \A j \in Writers : alert'[j] \in Writer
        /\ \A j \in Deliverers : alert'[j] \in Sender
    BY <1>1, <1>3 DEF AlertInv, AlertTypes, Calls
  <2>. QED
    BY <2>1, <2>2 DEF AlertTypes
<1>5. /\ \A j \in Deliverers : alert'[j] = alert[j]
      /\ \A j \in Writers : alert'[j] = alert[j]
      /\ \A j \in Evaluations : EvaluationHolds(alert'[j])
  BY <1>1, <1>3 DEF AlertInv, Calls
<1>. QED
  BY <1>4, <1>5, DeliveriesStay DEF Evaluating

\* ... which stays.
LEMMA EvaluationGoesOn ==
  ASSUME AlertInv, NEW k \in Evaluations, NEW to \in Evaluation, EvaluationHolds(to),
         alert' = [alert EXCEPT ![k] = to], Evaluating, UNCHANGED events
  PROVE  AlertInv'
BY EvaluationMoves DEF AlertInv, AlertTypes, AlertTypeOK, DirectIsNew, Stand, LetThrough

LEMMA ReadsForEvaluation ==
  ASSUME AlertInv, NEW k \in Evaluations, ReadAlertIssue(k) \/ ReadPreference(k)
  PROVE  AlertInv'
<1>1. alert[k] \in Evaluation /\ EvaluationHolds(alert[k]) /\ urgency \in Urgency /\ preference \in Preference
      /\ alert \in [Calls -> Evaluation \cup Writer \cup Sender] /\ k \in Calls
  BY DEF AlertInv, AlertTypes, AlertTypeOK, Calls
<1>2. CASE ReadAlertIssue(k)
  <2>. DEFINE to == [alert[k] EXCEPT !.at = "preference", !.urgency = urgency]
  <2>1. to \in Evaluation /\ EvaluationHolds(to)
    BY <1>1 DEF Evaluation, EvaluationHolds
  <2>2. alert' = [alert EXCEPT ![k] = to]
    BY <1>1, <1>2 DEF ReadAlertIssue
  <2>. HIDE DEF to
  <2>. QED
    BY <1>2, <2>1, <2>2, EvaluationGoesOn DEF ReadAlertIssue
<1>3. CASE ReadPreference(k)
  <2>. DEFINE to == [alert[k] EXCEPT !.at = "decision", !.preference = preference]
  <2>1. to \in Evaluation /\ EvaluationHolds(to)
    BY <1>1 DEF Evaluation, EvaluationHolds
  <2>2. alert' = [alert EXCEPT ![k] = to]
    BY <1>1, <1>3 DEF ReadPreference
  <2>. HIDE DEF to
  <2>. QED
    BY <1>3, <2>1, <2>2, EvaluationGoesOn DEF ReadPreference
<1>. QED
  BY <1>2, <1>3

LEMMA SelectChannelHolds ==
  ASSUME AlertInv, NEW k \in Evaluations, SelectChannel(k)
  PROVE  AlertInv'
<1>. DEFINE e == alert[k]
            channel == Channel(Of(k), e.urgency.priority, e.preference)
            verdict == IF channel = "none" THEN "suppressed" ELSE "eligible"
            at == IF channel = "none" THEN "create" ELSE "find"
            to == [e EXCEPT !.channel = channel, !.preference = NoPreference, !.verdict = verdict, !.at = at]
<1>1. /\ e \in Evaluation /\ EvaluationHolds(e) /\ k \in Calls
      /\ alert \in [Calls -> Evaluation \cup Writer \cup Sender] /\ AlertTypes
  BY DEF AlertInv, AlertTypes, AlertTypeOK, Calls
<1>2. CASE e.urgency.decision # urgency.decision
  <2>1. alert' = [alert EXCEPT ![k] = Over(k)]
    BY <1>1, <1>2 DEF SelectChannel
  <2>2. Over(k) \in Evaluation /\ EvaluationHolds(Over(k))
    BY <1>1, OverForms DEF EvaluationHolds
  <2>. QED
    BY <2>1, <2>2, EvaluationGoesOn DEF SelectChannel
<1>3. CASE ~(e.urgency.decision # urgency.decision)
  <2>1. alert' = [alert EXCEPT ![k] = to]
    BY <1>1, <1>3 DEF SelectChannel
  <2>2. channel \in EventChannels /\ (channel = "langsung" => e.of \in CreatedWith)
    BY DEF Channel, EventChannels, Of
  <2>3. NoPreference \in Preference
    BY DEF NoPreference, Preference
  <2>. HIDE DEF channel
  <2>4. /\ verdict \in {"suppressed", "eligible"} /\ at \in {"create", "find"}
        /\ channel = "none" => verdict = "suppressed" /\ at = "create"
    OBVIOUS
  <2>. HIDE DEF verdict, at
  <2>5. to \in Evaluation /\ EvaluationHolds(to)
    BY <1>1, <2>2, <2>3, <2>4 DEF Evaluation, EvaluationHolds
  <2>. HIDE DEF to
  <2>. QED
    BY <2>1, <2>5, EvaluationGoesOn DEF SelectChannel
<1>. QED
  BY <1>2, <1>3

LEMMA FindEligibleHolds ==
  ASSUME AlertInv, NEW k \in Evaluations, FindEligible(k)
  PROVE  AlertInv'
<1>. DEFINE e == alert[k]
<1>1. PICK quiet \in BOOLEAN :
        LET held == events[Target(k)] = "eligible" \/ quiet
        IN  alert' = [alert EXCEPT
               ![k].verdict = IF held THEN "suppressed" ELSE "eligible",
               ![k].at = IF ~held /\ alert[k].channel = "langsung" THEN "content" ELSE "create"]
  BY DEF FindEligible
<1>. DEFINE held == events[Target(k)] = "eligible" \/ quiet
            verdict == IF held THEN "suppressed" ELSE "eligible"
            at == IF ~held /\ alert[k].channel = "langsung" THEN "content" ELSE "create"
            to == [e EXCEPT !.verdict = verdict, !.at = at]
<1>2. /\ e \in Evaluation /\ EvaluationHolds(e) /\ e.at = "find" /\ k \in Calls
      /\ alert \in [Calls -> Evaluation \cup Writer \cup Sender]
  BY DEF AlertInv, AlertTypes, AlertTypeOK, Calls, FindEligible
<1>3. alert' = [alert EXCEPT ![k] = to]
  BY <1>1, <1>2
<1>4. verdict \in {"suppressed", "eligible"} /\ at \in {"content", "create"}
  OBVIOUS
<1>. HIDE DEF verdict, at
<1>5. to \in Evaluation /\ EvaluationHolds(to)
  BY <1>2, <1>4 DEF Evaluation, EvaluationHolds
<1>. HIDE DEF to
<1>. QED
  BY <1>3, <1>5, EvaluationGoesOn DEF FindEligible

LEMMA CheckContentHolds ==
  ASSUME AlertInv, NEW k \in Evaluations, CheckContent(k)
  PROVE  AlertInv'
<1>. DEFINE e == alert[k]
<1>1. PICK explained \in {urgency.reasoned \/ alert[k].urgency.decision # urgency.decision,
                          urgency.reasoned /\ alert[k].urgency.decision = urgency.decision} :
        alert' = [alert EXCEPT
           ![k].verdict = IF urgency.ready /\ explained THEN "eligible" ELSE "suppressed",
           ![k].urgency = Settled, ![k].at = "create"]
  BY DEF CheckContent
<1>. DEFINE verdict == IF urgency.ready /\ explained THEN "eligible" ELSE "suppressed"
            to == [e EXCEPT !.verdict = verdict, !.urgency = Settled, !.at = "create"]
<1>2. /\ e \in Evaluation /\ EvaluationHolds(e) /\ e.at = "content" /\ k \in Calls
      /\ alert \in [Calls -> Evaluation \cup Writer \cup Sender]
  BY DEF AlertInv, AlertTypes, AlertTypeOK, Calls, CheckContent
<1>3. alert' = [alert EXCEPT ![k] = to]
  BY <1>1, <1>2
<1>4. verdict \in {"suppressed", "eligible"}
  OBVIOUS
<1>5. Settled \in Urgency
  BY AlertAssumption DEF Settled, Urgency
<1>. HIDE DEF verdict
<1>6. to \in Evaluation /\ EvaluationHolds(to)
  BY <1>2, <1>4, <1>5 DEF Evaluation, EvaluationHolds
<1>. HIDE DEF to
<1>. QED
  BY <1>3, <1>6, EvaluationGoesOn DEF CheckContent

LEMMA CreateEventHolds ==
  ASSUME AlertInv, NEW k \in Evaluations, CreateEvent(k)
  PROVE  AlertInv'
<1>. DEFINE e == alert[k]
            key == Target(k)
            new == Inserted(k)
<1>1. /\ e \in Evaluation /\ EvaluationHolds(e) /\ AlertTypes /\ events \in [EventKeys -> Event]
      /\ \A d \in Developments : events[<<d, "none">>] \in {"none", "suppressed"}
  BY DEF AlertInv, AlertTypes, AlertTypeOK
<1>2. alert' = [alert EXCEPT ![k] = Over(k)] /\ events' = [events EXCEPT ![key] = new] /\ Evaluating
  BY DEF CreateEvent, StepTo
<1>3. Over(k) \in Evaluation /\ EvaluationHolds(Over(k))
  BY <1>1, OverForms DEF EvaluationHolds
<1>4. /\ key = <<e.of, e.channel>> /\ e.of \in Developments /\ e.channel \in EventChannels
      /\ key \in EventKeys /\ e.verdict \in {"suppressed", "eligible"}
  BY <1>1 DEF Target, Of, EventKeys, Evaluation
<1>5. /\ events[key] # "none" => new = events[key]
      /\ events[key] = "none" => new = e.verdict
      /\ new \in Event
  BY <1>1, <1>4 DEF Inserted, Event
<1>. HIDE DEF key, new, e
<1>6. events' \in [EventKeys -> Event] /\ \A x \in EventKeys : x # key => events'[x] = events[x]
  BY <1>1, <1>2, <1>5
<1>7. events'[key] = new
  BY <1>1, <1>2, <1>4
<1>8. ASSUME NEW d \in Developments
      PROVE  /\ events'[<<d, "none">>] \in {"none", "suppressed"}
             /\ events'[Direct(d)] # "none" => d \in CreatedWith
             /\ LetThrough(d) => LetThrough(d)'
  <2>1. <<d, "none">> \in EventKeys /\ Direct(d) \in EventKeys /\ Direct(d) = <<d, "langsung">>
    BY DEF EventKeys, EventChannels, Direct
  <2>2. events'[<<d, "none">>] \in {"none", "suppressed"}
    <3>1. CASE key = <<d, "none">>
      BY <1>1, <1>4, <1>5, <1>7, <3>1 DEF EvaluationHolds
    <3>2. CASE key # <<d, "none">>
      BY <1>1, <1>6, <2>1, <3>2
    <3>. QED
      BY <3>1, <3>2
  <2>3. CASE key = Direct(d)
    <3>1. d \in CreatedWith
      BY <1>1, <1>4, <2>1, <2>3 DEF EvaluationHolds
    <3>2. LetThrough(d) => LetThrough(d)'
      BY <1>5, <1>7, <2>3 DEF LetThrough, Direct
    <3>. QED
      BY <2>2, <3>1, <3>2
  <2>4. CASE key # Direct(d)
    <3>1. events'[Direct(d)] = events[Direct(d)]
      BY <1>6, <2>1, <2>4
    <3>. QED
      BY <2>2, <3>1 DEF LetThrough, Direct, AlertInv, DirectIsNew
  <2>. QED
    BY <2>3, <2>4
<1>9. DirectIsNew' /\ Stand
  BY <1>8 DEF DirectIsNew, Stand, Direct
<1>. QED
  BY <1>2, <1>3, <1>6, <1>8, <1>9, EvaluationMoves

LEMMA EvaluateHolds ==
  ASSUME AlertInv, NEW k \in Evaluations, Evaluate(k)
  PROVE  AlertInv'
BY ReadsForEvaluation, SelectChannelHolds, FindEligibleHolds, CheckContentHolds, CreateEventHolds DEF Evaluate

\* One writer moves.
LEMMA WriterMoves ==
  ASSUME AlertInv, NEW k \in Writers, NEW to \in Writer, to.of = Of(k),
         to.at \in {"event", "over"} \/ LetThrough(Of(k)),
         alert' = [alert EXCEPT ![k] = to], UNCHANGED <<issueSide, mailSide>>,
         events' \in [EventKeys -> Event], DirectIsNew', Stand,
         \A d \in Developments : events'[<<d, "none">>] \in {"none", "suppressed"},
         blurbs \subseteq blurbs', blurbs' \subseteq Developments
  PROVE  AlertInv'
<1>1. k \in Calls /\ k \notin Evaluations /\ k \notin Deliverers
  BY AlertAssumption DEF Calls
<1>2. alert \in [Calls -> Evaluation \cup Writer \cup Sender]
  BY DEF AlertInv, AlertTypes, AlertTypeOK, Calls
<1>3. /\ alert' \in [Calls -> Evaluation \cup Writer \cup Sender]
      /\ alert'[k] = to /\ \A j \in Calls \ {k} : alert'[j] = alert[j]
  BY <1>1, <1>2
<1>4. AlertTypes'
  <2>1. AlertTypeOK'
    BY <1>3 DEF AlertInv, AlertTypes, AlertTypeOK, Calls, issueSide, mailSide
  <2>2. /\ \A j \in Evaluations : alert'[j] \in Evaluation
        /\ \A j \in Writers : alert'[j] \in Writer
        /\ \A j \in Deliverers : alert'[j] \in Sender
    BY <1>1, <1>3 DEF AlertInv, AlertTypes, Calls
  <2>. QED
    BY <2>1, <2>2 DEF AlertTypes
<1>5. Of(k) \in Developments
  BY <1>1, OverForms DEF AlertInv
<1>6. WriterHolds(alert[k])'
  BY <1>3, <1>5 DEF WriterHolds, Stand, LetThrough
<1>7. /\ \A j \in Deliverers : alert'[j] = alert[j]
      /\ \A j \in Evaluations : EvaluationHolds(alert'[j])
      /\ \A j \in Writers : WriterHolds(alert[j])' \/ alert'[j] = alert[j]
  BY <1>1, <1>3, <1>6 DEF AlertInv, Calls
<1>. QED
  BY <1>4, <1>7, DeliveriesStay

\* ... without a word to the event.
LEMMA WriterGoesOn ==
  ASSUME AlertInv, NEW k \in Writers, NEW to \in Writer, to.of = Of(k),
         to.at \in {"event", "over"} \/ LetThrough(Of(k)),
         alert' = [alert EXCEPT ![k] = to], UNCHANGED <<issueSide, events, mailSide>>,
         blurbs \subseteq blurbs', blurbs' \subseteq Developments
  PROVE  AlertInv'
BY WriterMoves DEF AlertInv, AlertTypes, AlertTypeOK, DirectIsNew, Stand, LetThrough

\* Blocking an event that was let through.
LEMMA BlockedStands ==
  ASSUME AlertInv, NEW d \in Developments, LetThrough(d), NEW status \in {"content blocked", "delivery blocked"},
         events' = [events EXCEPT ![Direct(d)] = status]
  PROVE  /\ events' \in [EventKeys -> Event] /\ DirectIsNew' /\ Stand
         /\ \A x \in Developments : events'[<<x, "none">>] \in {"none", "suppressed"}
<1>1. /\ events \in [EventKeys -> Event] /\ DirectIsNew
      /\ \A x \in Developments : events[<<x, "none">>] \in {"none", "suppressed"}
  BY DEF AlertInv, AlertTypes, AlertTypeOK
<1>2. \A x \in Developments : /\ <<x, "none">> \in EventKeys /\ Direct(x) \in EventKeys
                              /\ Direct(x) = <<x, "langsung">> /\ Direct(d) # <<x, "none">>
                              /\ x # d => Direct(x) # Direct(d)
  BY DEF EventKeys, EventChannels, Direct
<1>3. events' \in [EventKeys -> Event]
  BY <1>1 DEF Event
<1>4. \A x \in Developments : /\ events'[<<x, "none">>] = events[<<x, "none">>]
                              /\ x # d => events'[Direct(x)] = events[Direct(x)]
                              /\ events'[Direct(d)] = status
  BY <1>1, <1>2
<1>5. d \in CreatedWith
  BY <1>1 DEF LetThrough, DirectIsNew
<1>6. DirectIsNew'
  <2>. SUFFICES ASSUME NEW x \in Developments, events'[Direct(x)] # "none"
                PROVE  x \in CreatedWith
    BY DEF DirectIsNew, Direct
  <2>. QED
    BY <1>1, <1>4, <1>5 DEF DirectIsNew
<1>7. Stand
  <2>. SUFFICES ASSUME NEW x \in Developments, LetThrough(x)
                PROVE  events'[Direct(x)] \notin {"none", "suppressed"}
    BY DEF Stand, LetThrough, Direct
  <2>. QED
    BY <1>4 DEF LetThrough
<1>. QED
  BY <1>1, <1>3, <1>4, <1>6, <1>7

LEMMA GenerateHolds ==
  ASSUME AlertInv, NEW k \in Writers, Generate(k)
  PROVE  AlertInv'
<1>1. /\ alert[k] \in Writer /\ WriterHolds(alert[k]) /\ k \in Calls /\ Of(k) = alert[k].of
      /\ Of(k) \in Developments /\ blurbs \subseteq Developments
      /\ Over(k) = [at |-> "over", of |-> Of(k)]
  BY OverForms DEF AlertInv, AlertTypes, AlertTypeOK, Calls, Of
<1>2. Over(k) \in Writer
  BY <1>1 DEF Writer
<1>3. ASSUME NEW at \in {"event", "blurb", "model", "create", "block"}
      PROVE  [alert[k] EXCEPT !.at = at] \in Writer /\ [alert[k] EXCEPT !.at = at].of = Of(k)
             /\ [alert[k] EXCEPT !.at = at].at = at
  BY <1>1 DEF Writer
<1>4. CASE StartBlurb(k)
  <2>1. CASE events[Direct(Of(k))] = "eligible"
    <3>1. alert' = [alert EXCEPT ![k] = [alert[k] EXCEPT !.at = "blurb"]] /\ LetThrough(Of(k))
      BY <1>4, <2>1 DEF StartBlurb, StepTo, LetThrough
    <3>. QED
      BY <1>1, <1>3, <1>4, <3>1, WriterGoesOn DEF StartBlurb
  <2>2. CASE events[Direct(Of(k))] # "eligible"
    <3>1. alert' = [alert EXCEPT ![k] = Over(k)]
      BY <1>4, <2>2 DEF StartBlurb, StepTo
    <3>. QED
      BY <1>1, <1>2, <1>4, <3>1, WriterGoesOn DEF StartBlurb
  <2>. QED
    BY <2>1, <2>2
<1>5. CASE FindBlurb(k)
  <2>1. alert[k].at = "blurb" /\ LetThrough(Of(k))
    BY <1>1, <1>5 DEF FindBlurb, StepTo, WriterHolds
  <2>2. \/ alert' = [alert EXCEPT ![k] = Over(k)]
        \/ alert' = [alert EXCEPT ![k] = [alert[k] EXCEPT !.at = "model"]]
    BY <1>5 DEF FindBlurb, StepTo
  <2>3. UNCHANGED <<issueSide, events, blurbs, mailSide>>
    BY <1>5 DEF FindBlurb
  <2>4. CASE alert' = [alert EXCEPT ![k] = Over(k)]
    BY <1>1, <1>2, <2>3, <2>4, WriterGoesOn
  <2>5. CASE alert' = [alert EXCEPT ![k] = [alert[k] EXCEPT !.at = "model"]]
    BY <1>1, <1>3, <2>1, <2>3, <2>5, WriterGoesOn
  <2>. QED
    BY <2>2, <2>4, <2>5
<1>6. CASE WriteBlurb(k)
  <2>1. /\ alert[k].at = "model" /\ LetThrough(Of(k))
        /\ alert' = [alert EXCEPT ![k] = [alert[k] EXCEPT !.at = "create"]]
    BY <1>1, <1>6 DEF WriteBlurb, StepTo, WriterHolds
  <2>. QED
    BY <1>1, <1>3, <1>6, <2>1, WriterGoesOn DEF WriteBlurb
<1>7. CASE CreateBlurb(k)
  <2>1. alert' = [alert EXCEPT ![k] = Over(k)] /\ blurbs' = blurbs \cup {Of(k)}
    BY <1>7 DEF CreateBlurb, StepTo
  <2>. QED
    BY <1>1, <1>2, <1>7, <2>1, WriterGoesOn DEF CreateBlurb
<1>8. CASE BlurbThrows(k)
  <2>1. /\ alert[k].at \in {"model", "create"} /\ LetThrough(Of(k))
        /\ alert' = [alert EXCEPT ![k] = [alert[k] EXCEPT !.at = "block"]]
    BY <1>1, <1>8 DEF BlurbThrows, WriterHolds
  <2>. QED
    BY <1>1, <1>3, <1>8, <2>1, WriterGoesOn DEF BlurbThrows
<1>9. CASE Block(k, "content blocked")
  <2>1. alert' = [alert EXCEPT ![k] = Over(k)] /\ alert[k].at = "block" /\ LetThrough(Of(k))
    BY <1>1, <1>9 DEF Block, StepTo, WriterHolds
  <2>2. events' = [events EXCEPT ![Direct(Of(k))] = "content blocked"] /\ UNCHANGED <<issueSide, blurbs, mailSide>>
    BY <1>9 DEF Block
  <2>. QED
    BY <1>1, <1>2, <2>1, <2>2, BlockedStands, WriterMoves
<1>. QED
  BY <1>4, <1>5, <1>6, <1>7, <1>8, <1>9 DEF Generate

\* One delivery moves: what it needs is there, its mails were sent in time, and the
\* books balance for it whatever its rivals are about.
LEMMA SenderMoves ==
  ASSUME AlertInv, NEW k \in Deliverers, NEW to \in Sender, to.of = Of(k),
         NEW entry \in Delivery, NEW m \in Nat, NEW o \in Nat, NEW u \in Nat,
         alert' = [alert EXCEPT ![k] = to], deliveries' = [deliveries EXCEPT ![Of(k)] = entry],
         mails' = [mails EXCEPT ![Of(k)] = m], overlaps' = [overlaps EXCEPT ![Of(k)] = o],
         untold' = [untold EXCEPT ![Of(k)] = u], UNCHANGED <<issueSide, blurbs>>,
         events' \in [EventKeys -> Event], DirectIsNew', Stand,
         \A d \in Developments : events'[<<d, "none">>] \in {"none", "suppressed"},
         m >= mails[Of(k)], m > 0 => mails[Of(k)] > 0 \/ alert[k].at = "send",
         entry.status = "sent" => m > 0,
         to.at \in {"event", "over"} \/ LetThrough(Of(k)),
         to.at = "row" \/ Inserts(to) \/ SetOff(to) => Of(k) \in blurbs,
         Told(to) => m > 0, to.at = "sleep" => to.attempt < MaxSends,
         Settles(alert[k], to, Rivals(k), mails[Of(k)], overlaps[Of(k)], untold[Of(k)],
                 deliveries[Of(k)].status, m, o, u, entry.status)
  PROVE  AlertInv'
<1>. DEFINE d == Of(k)
<1>1. k \in Calls /\ k \notin Evaluations /\ k \notin Writers
  BY AlertAssumption DEF Calls
<1>2. /\ alert \in [Calls -> Evaluation \cup Writer \cup Sender] /\ AlertTypes
      /\ deliveries \in [Developments -> Delivery] /\ mails \in [Developments -> Nat]
      /\ overlaps \in [Developments -> Nat] /\ untold \in [Developments -> Nat]
  BY DEF AlertInv, AlertTypes, AlertTypeOK, Calls
<1>3. /\ alert' \in [Calls -> Evaluation \cup Writer \cup Sender]
      /\ alert'[k] = to /\ \A j \in Calls \ {k} : alert'[j] = alert[j]
  BY <1>1, <1>2
<1>4. d \in Developments /\ alert[k].of = d /\ SenderHolds(alert[k])
  BY <1>1, <1>2, OverForms DEF Of, AlertInv
<1>5. /\ deliveries' \in [Developments -> Delivery] /\ mails' \in [Developments -> Nat]
      /\ overlaps' \in [Developments -> Nat] /\ untold' \in [Developments -> Nat]
  BY <1>2, <1>4
<1>6. /\ deliveries'[d] = entry /\ mails'[d] = m /\ overlaps'[d] = o /\ untold'[d] = u
      /\ \A x \in Developments \ {d} : /\ deliveries'[x] = deliveries[x] /\ mails'[x] = mails[x]
                                       /\ overlaps'[x] = overlaps[x] /\ untold'[x] = untold[x]
  BY <1>2, <1>4
<1>7. AlertTypes'
  <2>1. AlertTypeOK'
    BY <1>2, <1>3, <1>5 DEF AlertTypes, AlertTypeOK, Calls, issueSide
  <2>2. /\ \A j \in Evaluations : alert'[j] \in Evaluation
        /\ \A j \in Writers : alert'[j] \in Writer
        /\ \A j \in Deliverers : alert'[j] \in Sender
    BY <1>1, <1>2, <1>3 DEF AlertTypes, Calls
  <2>. QED
    BY <2>1, <2>2 DEF AlertTypes
<1>. HIDE DEF d
<1>8. ASSUME NEW x \in Developments
      PROVE  mails'[x] > 0 => mails[x] > 0 \/ (x = d /\ alert[k].at = "send")
  BY <1>6, <1>8 DEF d
<1>9. MailWasEarned'
  <2>. SUFFICES ASSUME NEW x \in Developments, mails'[x] > 0
                PROVE  x \in CreatedWith /\ x \in blurbs /\ LetThrough(x)'
    BY DEF MailWasEarned, LetThrough
  <2>1. CASE mails[x] > 0
    BY <2>1 DEF AlertInv, MailWasEarned, LetThrough, Stand
  <2>2. CASE x = d /\ alert[k].at = "send"
    <3>1. LetThrough(x) /\ x \in blurbs
      BY <1>4, <2>2 DEF SenderHolds, SetOff
    <3>2. x \in CreatedWith
      BY <3>1 DEF AlertInv, DirectIsNew, LetThrough
    <3>. QED
      BY <3>1, <3>2 DEF Stand
  <2>. QED
    BY <1>8, <2>1, <2>2
<1>10. SentWasMailed'
  BY <1>6 DEF SentWasMailed, AlertInv
<1>11. BooksBalance'
  <2>. SUFFICES ASSUME NEW x \in Developments
                PROVE  Books(alert', x, mails'[x], overlaps'[x], untold'[x], deliveries'[x].status)
    BY DEF BooksBalance
  <2>1. Books(alert, x, mails[x], overlaps[x], untold[x], deliveries[x].status)
    BY DEF AlertInv, BooksBalance
  <2>2. CASE x # d
    <3>1. Inserting(alert', x) = Inserting(alert, x) /\ OutFor(alert', x) = OutFor(alert, x)
          /\ Pending(alert', x) = Pending(alert, x)
      BY <1>3, <1>4, <2>2 DEF Inserting, OutFor, Pending, Calls, d
    <3>. QED
      BY <1>6, <2>1, <2>2, <3>1 DEF Books
  <2>3. CASE x = d
    <3>1. Rivals(k) = (Inserting(alert, d) \cup OutFor(alert, d)) \ {k}
      BY DEF Rivals, Out, Of, Inserting, OutFor, Inserts, SetOff, d
    <3>2. /\ alert[k].of = d /\ alert'[k].of = d /\ alert'[k] = to
          /\ \A j \in Deliverers \ {k} : alert'[j] = alert[j]
      BY <1>3, <1>4 DEF d, Calls
    <3>3. /\ mails[d] \in Nat /\ overlaps[d] \in Nat /\ untold[d] \in Nat
          /\ Books(alert, d, mails[d], overlaps[d], untold[d], deliveries[d].status)
      BY <1>2, <1>4, <2>1, <2>3
    <3>4. Settles(alert[k], alert'[k], Rivals(k), mails[d], overlaps[d], untold[d], deliveries[d].status,
                  m, o, u, entry.status)
      BY <3>2 DEF d
    <3>5. Books(alert', d, m, o, u, entry.status)
      BY <3>1, <3>2, <3>3, <3>4, BooksMove
    <3>. QED
      BY <1>6, <2>3, <3>5
  <2>. QED
    BY <2>2, <2>3
<1>12. ASSUME NEW j \in Deliverers
       PROVE  SenderHolds(alert[j])'
  <2>1. CASE j = k
    <3>1. LetThrough(d) => events'[Direct(d)] \notin {"none", "suppressed"}
      BY <1>4 DEF Stand, LetThrough, Direct
    <3>2. to.at \notin {"event", "over"} => events'[Direct(d)] \notin {"none", "suppressed"}
      BY <3>1 DEF d
    <3>3. blurbs' = blurbs /\ alert'[j] = to /\ to.of = d
      BY <1>3, <2>1 DEF d
    <3>. QED
      BY <1>6, <3>2, <3>3 DEF SenderHolds, d, LetThrough, Direct
  <2>2. CASE j # k
    <3>1. alert'[j] = alert[j] /\ SenderHolds(alert[j]) /\ alert[j].of \in Developments
      BY <1>2, <1>3, <2>2 DEF AlertInv, AlertTypes, Sender, Calls
    <3>2. mails[alert[j].of] > 0 => mails'[alert[j].of] > 0
      BY <1>2, <1>6, <3>1 DEF d
    <3>. QED
      BY <3>1, <3>2 DEF SenderHolds, Stand, LetThrough
  <2>. QED
    BY <2>1, <2>2
<1>13. ASSUME NEW j \in Writers
       PROVE  WriterHolds(alert[j])'
  <2>1. alert'[j] = alert[j] /\ WriterHolds(alert[j]) /\ alert[j].of \in Developments
    BY <1>1, <1>3 DEF AlertInv, AlertTypes, Writer, Calls
  <2>. QED
    BY <2>1 DEF WriterHolds, Stand, LetThrough
<1>14. \A j \in Evaluations : EvaluationHolds(alert'[j])
  BY <1>1, <1>3 DEF AlertInv, Calls
<1>. QED
  BY <1>7, <1>9, <1>10, <1>11, <1>12, <1>13, <1>14 DEF AlertInv

\* ... without a word to the event.
LEMMA SenderActs ==
  ASSUME AlertInv, NEW k \in Deliverers, NEW to \in Sender, to.of = Of(k),
         NEW entry \in Delivery, NEW m \in Nat, NEW o \in Nat, NEW u \in Nat,
         alert' = [alert EXCEPT ![k] = to], deliveries' = [deliveries EXCEPT ![Of(k)] = entry],
         mails' = [mails EXCEPT ![Of(k)] = m], overlaps' = [overlaps EXCEPT ![Of(k)] = o],
         untold' = [untold EXCEPT ![Of(k)] = u], Delivering,
         m >= mails[Of(k)], m > 0 => mails[Of(k)] > 0 \/ alert[k].at = "send",
         entry.status = "sent" => m > 0,
         to.at \in {"event", "over"} \/ LetThrough(Of(k)),
         to.at = "row" \/ Inserts(to) \/ SetOff(to) => Of(k) \in blurbs,
         Told(to) => m > 0, to.at = "sleep" => to.attempt < MaxSends,
         Settles(alert[k], to, Rivals(k), mails[Of(k)], overlaps[Of(k)], untold[Of(k)],
                 deliveries[Of(k)].status, m, o, u, entry.status)
  PROVE  AlertInv'
<1>1. /\ events' \in [EventKeys -> Event] /\ DirectIsNew' /\ Stand
      /\ \A d \in Developments : events'[<<d, "none">>] \in {"none", "suppressed"}
  BY DEF AlertInv, AlertTypes, AlertTypeOK, DirectIsNew, Stand, LetThrough, Delivering
<1>2. UNCHANGED <<issueSide, blurbs>>
  BY DEF Delivering
<1>. QED
  BY <1>1, <1>2, SenderMoves

\* What is known of a delivery and its development.
LEMMA SenderFacts ==
  ASSUME AlertInv, NEW k \in Deliverers
  PROVE  /\ alert[k] \in Sender /\ alert[k].of = Of(k) /\ Of(k) \in Developments
         /\ deliveries[Of(k)] \in Delivery /\ mails[Of(k)] \in Nat /\ overlaps[Of(k)] \in Nat
         /\ untold[Of(k)] \in Nat /\ (deliveries[Of(k)].status = "sent" => mails[Of(k)] > 0)
         /\ alert[k].at \notin {"event", "over"} => LetThrough(Of(k))
         /\ alert[k].at = "row" \/ Inserts(alert[k]) \/ SetOff(alert[k]) => Of(k) \in blurbs
         /\ Told(alert[k]) => mails[Of(k)] > 0
         /\ alert[k].at = "sleep" => alert[k].attempt < MaxSends
         /\ Over(k) \in Sender /\ Over(k).at = "over" /\ Over(k).of = Of(k)
<1>1. k \in Calls /\ Of(k) = alert[k].of
  BY DEF Calls, Of
<1>2. alert[k] \in Sender /\ Of(k) \in Developments /\ SenderHolds(alert[k])
  BY <1>1, OverForms DEF AlertInv, AlertTypes
<1>3. Over(k) \in Sender /\ Over(k).at = "over" /\ Over(k).of = Of(k)
  BY OverForms DEF AlertInv
<1>4. /\ deliveries[Of(k)] \in Delivery /\ mails[Of(k)] \in Nat /\ overlaps[Of(k)] \in Nat
      /\ untold[Of(k)] \in Nat /\ (deliveries[Of(k)].status = "sent" => mails[Of(k)] > 0)
  BY <1>2 DEF AlertInv, AlertTypes, AlertTypeOK, SentWasMailed
<1>. QED
  BY <1>1, <1>2, <1>3, <1>4 DEF SenderHolds

\* ... and with nothing to book.
LEMMA SenderGoesOn ==
  ASSUME AlertInv, NEW k \in Deliverers, NEW to \in Sender, to.of = Of(k),
         alert' = [alert EXCEPT ![k] = to], Delivering, UNCHANGED mailSide,
         to.at \in {"event", "over"} \/ LetThrough(Of(k)),
         to.at = "row" \/ Inserts(to) \/ SetOff(to) => Of(k) \in blurbs,
         Told(to) => mails[Of(k)] > 0, to.at = "sleep" => to.attempt < MaxSends,
         Settles(alert[k], to, Rivals(k), mails[Of(k)], overlaps[Of(k)], untold[Of(k)],
                 deliveries[Of(k)].status, mails[Of(k)], overlaps[Of(k)], untold[Of(k)],
                 deliveries[Of(k)].status)
  PROVE  AlertInv'
<1>1. /\ deliveries' = [deliveries EXCEPT ![Of(k)] = deliveries[Of(k)]]
      /\ mails' = [mails EXCEPT ![Of(k)] = mails[Of(k)]]
      /\ overlaps' = [overlaps EXCEPT ![Of(k)] = overlaps[Of(k)]]
      /\ untold' = [untold EXCEPT ![Of(k)] = untold[Of(k)]]
  <2>1. /\ deliveries \in [Developments -> Delivery] /\ mails \in [Developments -> Nat]
        /\ overlaps \in [Developments -> Nat] /\ untold \in [Developments -> Nat]
    BY DEF AlertInv, AlertTypes, AlertTypeOK
  <2>. QED
    BY <2>1 DEF mailSide
<1>. DEFINE entry == deliveries[Of(k)]
            m == mails[Of(k)]
            o == overlaps[Of(k)]
            u == untold[Of(k)]
<1>2. entry \in Delivery /\ m \in Nat /\ o \in Nat /\ u \in Nat /\ (entry.status = "sent" => m > 0)
  BY SenderFacts
<1>3. m >= mails[Of(k)] /\ (m > 0 => mails[Of(k)] > 0)
  BY <1>2
<1>. QED
  BY <1>1, <1>2, <1>3, SenderActs

\* A step on the way to the loop, or out of the call before it, books nothing.
LEMMA BeforeTheLoop ==
  ASSUME NEW from, NEW to, NEW rivals, NEW m, NEW o, NEW u, NEW status,
         ~Inserts(from), ~Inserts(to), ~SetOff(from), ~SetOff(to)
  PROVE  Settles(from, to, rivals, m, o, u, status, m, o, u, status)
<1>1. ~Pends(from) /\ ~Pends(to)
  BY DEF Pends
<1>. QED
  BY <1>1 DEF Settles, Ledger

\* A step from one place in the loop to another.
LEMMA WithinTheLoop ==
  ASSUME NEW from, NEW to, NEW rivals, NEW m, NEW o, NEW u, NEW status,
         \/ Pends(from) /\ Pends(to)
         \/ Told(from) /\ Told(to)
  PROVE  Settles(from, to, rivals, m, o, u, status, m, o, u, status)
<1>1. /\ Pends(from) <=> Pends(to)
      /\ ~Inserts(from) /\ ~Inserts(to) /\ SetOff(from) /\ SetOff(to)
  BY DEF Pends, Inserts, SetOff, Told
<1>. QED
  BY <1>1 DEF Settles, Ledger

LEMMA PreparingHolds ==
  ASSUME AlertInv, NEW k \in Deliverers,
         StartDelivery(k) \/ Prepare(k) \/ PrepareThrows(k) \/ Block(k, "delivery blocked")
  PROVE  AlertInv'
<1>. DEFINE e == alert[k]
<1>1. /\ e \in Sender /\ e.of = Of(k) /\ Of(k) \in Developments
      /\ deliveries[Of(k)] \in Delivery /\ mails[Of(k)] \in Nat /\ overlaps[Of(k)] \in Nat
      /\ untold[Of(k)] \in Nat /\ (deliveries[Of(k)].status = "sent" => mails[Of(k)] > 0)
      /\ e.at \notin {"event", "over"} => LetThrough(Of(k))
      /\ Over(k) \in Sender /\ Over(k).at = "over" /\ Over(k).of = Of(k)
  BY SenderFacts
<1>2. ASSUME NEW at \in {"prepare", "block", "row"}
      PROVE  [e EXCEPT !.at = at] \in Sender /\ [e EXCEPT !.at = at].of = Of(k)
             /\ [e EXCEPT !.at = at].at = at
  BY <1>1 DEF Sender
<1>3. ASSUME NEW to \in Sender, to.of = Of(k), to.at \in {"prepare", "block", "row", "over"},
             e.at \in {"event", "prepare", "block", "row"},
             to.at = "over" \/ LetThrough(Of(k)), to.at = "row" => Of(k) \in blurbs,
             alert' = [alert EXCEPT ![k] = to], Delivering, UNCHANGED mailSide
      PROVE  AlertInv'
  <2>1. Settles(e, to, Rivals(k), mails[Of(k)], overlaps[Of(k)], untold[Of(k)],
                deliveries[Of(k)].status, mails[Of(k)], overlaps[Of(k)], untold[Of(k)],
                deliveries[Of(k)].status)
    <3>1. ~Inserts(e) /\ ~Inserts(to) /\ ~SetOff(e) /\ ~SetOff(to)
      BY <1>3 DEF Inserts, SetOff
    <3>. HIDE DEF e
    <3>. QED
      BY <3>1, BeforeTheLoop
  <2>2. ~Inserts(to) /\ ~SetOff(to) /\ ~Told(to) /\ to.at # "sleep"
    BY <1>3 DEF Inserts, SetOff, Told
  <2>. QED
    BY <1>3, <2>1, <2>2, SenderGoesOn
<1>4. CASE StartDelivery(k)
  <2>1. CASE events[Direct(Of(k))] = "eligible"
    <3>1. alert' = [alert EXCEPT ![k] = [e EXCEPT !.at = "prepare"]] /\ LetThrough(Of(k)) /\ e.at = "event"
      BY <1>4, <2>1 DEF StartDelivery, StepTo, LetThrough
    <3>. QED
      BY <1>1, <1>2, <1>3, <1>4, <3>1 DEF StartDelivery
  <2>2. CASE events[Direct(Of(k))] # "eligible"
    <3>1. alert' = [alert EXCEPT ![k] = Over(k)] /\ e.at = "event"
      BY <1>4, <2>2 DEF StartDelivery, StepTo
    <3>. QED
      BY <1>1, <1>3, <1>4, <3>1 DEF StartDelivery
  <2>. QED
    BY <2>1, <2>2
<1>5. CASE Prepare(k)
  <2>1. alert' = [alert EXCEPT ![k] = [e EXCEPT !.at = "row"]] /\ e.at = "prepare" /\ Of(k) \in blurbs
    BY <1>5 DEF Prepare, StepTo, Prepared
  <2>. QED
    BY <1>1, <1>2, <1>3, <1>5, <2>1 DEF Prepare
<1>6. CASE PrepareThrows(k)
  <2>1. alert' = [alert EXCEPT ![k] = [e EXCEPT !.at = "block"]] /\ e.at = "prepare"
    BY <1>6 DEF PrepareThrows, StepTo
  <2>. QED
    BY <1>1, <1>2, <1>3, <1>6, <2>1 DEF PrepareThrows
<1>7. CASE Block(k, "delivery blocked")
  <2>. DEFINE to == Over(k)
              entry == deliveries[Of(k)]
              m == mails[Of(k)]
              o == overlaps[Of(k)]
              u == untold[Of(k)]
  <2>1. alert' = [alert EXCEPT ![k] = to] /\ e.at = "block" /\ LetThrough(Of(k))
    BY <1>1, <1>7 DEF Block, StepTo
  <2>2. /\ events' = [events EXCEPT ![Direct(Of(k))] = "delivery blocked"]
        /\ UNCHANGED <<issueSide, blurbs>> /\ UNCHANGED mailSide
    BY <1>7 DEF Block
  <2>3. /\ events' \in [EventKeys -> Event] /\ DirectIsNew' /\ Stand
        /\ \A x \in Developments : events'[<<x, "none">>] \in {"none", "suppressed"}
    BY <1>1, <2>1, <2>2, BlockedStands
  <2>4. /\ deliveries' = [deliveries EXCEPT ![Of(k)] = entry] /\ mails' = [mails EXCEPT ![Of(k)] = m]
        /\ overlaps' = [overlaps EXCEPT ![Of(k)] = o] /\ untold' = [untold EXCEPT ![Of(k)] = u]
    <3>1. /\ deliveries \in [Developments -> Delivery] /\ mails \in [Developments -> Nat]
          /\ overlaps \in [Developments -> Nat] /\ untold \in [Developments -> Nat]
      BY DEF AlertInv, AlertTypes, AlertTypeOK
    <3>. QED
      BY <2>2, <3>1 DEF mailSide
  <2>5. Settles(e, to, Rivals(k), mails[Of(k)], overlaps[Of(k)], untold[Of(k)],
                deliveries[Of(k)].status, m, o, u, entry.status)
    <3>1. ~Inserts(e) /\ ~Inserts(to) /\ ~SetOff(e) /\ ~SetOff(to)
      BY <1>1, <2>1 DEF Inserts, SetOff
    <3>. HIDE DEF e, to
    <3>. QED
      BY <3>1, BeforeTheLoop
  <2>6. ~Inserts(to) /\ ~SetOff(to) /\ ~Told(to) /\ to.at = "over"
    BY <1>1 DEF Inserts, SetOff, Told
  <2>7. /\ entry \in Delivery /\ m \in Nat /\ o \in Nat /\ u \in Nat /\ to \in Sender /\ to.of = Of(k)
        /\ (entry.status = "sent" => m > 0)
    BY <1>1
  <2>8. m >= mails[Of(k)] /\ (m > 0 => mails[Of(k)] > 0)
    <3>1. m \in Nat /\ m = mails[Of(k)]
      BY <2>7
    <3>. HIDE DEF m
    <3>. QED
      BY ONLY <3>1
  <2>. HIDE DEF to, entry, m, o, u
  <2>. QED
    BY <2>1, <2>2, <2>3, <2>4, <2>5, <2>6, <2>7, <2>8, SenderMoves
<1>. QED
  BY <1>4, <1>5, <1>6, <1>7

\* A delivery sets out: its mail is the first that is to come, or an overlap explains it.
LEMMA SetsOut ==
  ASSUME NEW from, NEW to, NEW rivals, NEW m \in Nat, NEW o \in Nat, NEW u \in Nat,
         NEW status, NEW status2, NEW o2 \in Nat, o2 = o + (IF rivals = {} THEN 0 ELSE 1),
         \/ ~Inserts(from) /\ ~SetOff(from) /\ status \notin {"none", "sent"} /\ status2 = status
         \/ Inserts(from) /\ ~SetOff(from) /\ status2 # "none" /\ (status = "sent" => status2 = "sent"),
         ~Inserts(to), SetOff(to) => Pends(to)
  PROVE  Settles(from, to, rivals, m, o, u, status, m, o2, u, status2)
<1>. SUFFICES ASSUME NEW p \in Nat, NEW i \in BOOLEAN, NEW a \in BOOLEAN,
                     p > 0 => a, i \/ a <=> rivals # {}, Ledger(from, p, i, a, m, o, u, status)
              PROVE  Ledger(to, p, i, a, m, o2, u, status2)
  BY DEF Settles
<1>1. ~Pends(from) /\ (Pends(to) <=> SetOff(to))
  BY DEF Pends
<1>2. status2 # "none"
  OBVIOUS
<1>3. CASE rivals = {}
  <2>1. ~i /\ ~a /\ p = 0 /\ o2 = o
    BY <1>3
  <2>2. CASE Inserts(from)
    <3>1. m + 1 <= 1 + o + u
      BY <1>1, <2>1, <2>2 DEF Ledger
    <3>. QED
      BY <1>1, <1>2, <2>1, <3>1 DEF Ledger
  <2>3. CASE ~Inserts(from)
    <3>1. m <= o + u
      BY <1>1, <2>1, <2>3 DEF Ledger
    <3>. QED
      BY <1>1, <1>2, <2>1, <3>1 DEF Ledger
  <2>. QED
    BY <2>2, <2>3
<1>4. CASE rivals # {}
  <2>1. o2 = o + 1 /\ (i \/ a)
    BY <1>4
  <2>2. m + p + (IF i THEN 1 ELSE 0) <= 1 + o + u
    BY <1>1 DEF Ledger
  <2>. QED
    BY <1>1, <1>2, <2>1, <2>2 DEF Ledger
<1>. QED
  BY <1>3, <1>4

\* A delivery that found no row is about to insert it.
LEMMA AboutToInsert ==
  ASSUME NEW from, NEW to, NEW rivals, NEW m \in Nat, NEW o \in Nat, NEW u \in Nat,
         ~Inserts(from), ~SetOff(from), Inserts(to), ~SetOff(to)
  PROVE  Settles(from, to, rivals, m, o, u, "none", m, o, u, "none")
<1>. DEFINE none == "none"
<1>. SUFFICES ASSUME NEW p \in Nat, NEW i \in BOOLEAN, NEW a \in BOOLEAN,
                     p > 0 => a, i \/ a <=> rivals # {}, Ledger(from, p, i, a, m, o, u, none)
              PROVE  Ledger(to, p, i, a, m, o, u, none)
  BY DEF Settles
<1>1. ~Pends(from) /\ ~Pends(to)
  BY DEF Pends
<1>2. m = 0 /\ ~a /\ p = 0
  BY DEF Ledger
<1>. QED
  BY <1>1, <1>2 DEF Ledger

\* A mail comes that was pending, or one that was told of turns out to be untold.
LEMMA MailComes ==
  ASSUME NEW from, NEW to, NEW rivals, NEW m \in Nat, NEW u \in Nat, NEW m2 \in Nat, NEW u2 \in Nat,
         NEW o \in Nat, NEW status,
         \/ Pends(from) /\ Told(to) /\ m2 = m + 1 /\ u2 = u
         \/ Pends(from) /\ Pends(to) /\ m2 = m + 1 /\ u2 = u + 1
         \/ Told(from) /\ Pends(to) /\ m2 = m /\ u2 = u + 1
  PROVE  Settles(from, to, rivals, m, o, u, status, m2, o, u2, status)
<1>. SUFFICES ASSUME NEW p \in Nat, NEW i \in BOOLEAN, NEW a \in BOOLEAN,
                     Ledger(from, p, i, a, m, o, u, status)
              PROVE  Ledger(to, p, i, a, m2, o, u2, status)
  BY DEF Settles
<1>1. /\ SetOff(from) /\ SetOff(to) /\ ~Inserts(from) /\ ~Inserts(to)
      /\ Pends(from) <=> ~Told(from)
      /\ Pends(to) <=> ~Told(to)
  BY DEF Pends, Told, SetOff, Inserts
<1>2. status # "none"
  BY <1>1 DEF Ledger
<1>3. m2 + (IF Pends(to) THEN 1 ELSE 0) + u <= m + (IF Pends(from) THEN 1 ELSE 0) + u2
  BY <1>1
<1>4. m + p + (IF Pends(from) THEN 1 ELSE 0) + (IF i THEN 1 ELSE 0) <= 1 + o + u
  BY <1>1 DEF Ledger
<1>5. m2 + p + (IF Pends(to) THEN 1 ELSE 0) + (IF i THEN 1 ELSE 0) <= 1 + o + u2
  BY <1>3, <1>4
<1>. QED
  BY <1>1, <1>2, <1>5 DEF Ledger

\* A delivery leaves: the mail the row was never told of is untold, unless the row says sent.
LEMMA Leaves ==
  ASSUME NEW from, NEW to, NEW rivals, NEW m \in Nat, NEW o \in Nat, NEW u \in Nat, NEW u2 \in Nat,
         NEW status, NEW status2, ~Inserts(to), ~SetOff(to),
         \/ Told(from) /\ u2 = u + 1 /\ status2 = status
         \/ Told(from) /\ u2 = u /\ status2 = "sent"
         \/ Pends(from) /\ u2 = u /\ status2 \notin {"none", "sent"}
         \/ ~Told(from) /\ u2 = u /\ status2 = status
  PROVE  Settles(from, to, rivals, m, o, u, status, m, o, u2, status2)
<1>. SUFFICES ASSUME NEW p \in Nat, NEW i \in BOOLEAN, NEW a \in BOOLEAN,
                     p > 0 => a, Ledger(from, p, i, a, m, o, u, status)
              PROVE  Ledger(to, p, i, a, m, o, u2, status2)
  BY DEF Settles
<1>1. ~Pends(to) /\ (Told(from) => SetOff(from) /\ ~Pends(from) /\ ~Inserts(from))
      /\ (Pends(from) => SetOff(from) /\ ~Inserts(from)) /\ (SetOff(from) => Pends(from) \/ Told(from))
  BY DEF Pends, Told, SetOff, Inserts
<1>2. u2 \in {u, u + 1}
  OBVIOUS
<1>3. status2 = "none" => m = 0 /\ ~a
  BY <1>1 DEF Ledger
<1>4. m + p + (IF Pends(from) THEN 1 ELSE 0) + (IF i \/ Inserts(from) THEN 1 ELSE 0) <= 1 + o + u
  BY DEF Ledger
<1>5. m + p + (IF i THEN 1 ELSE 0) <= 1 + o + u2
  BY <1>2, <1>4
<1>6. status2 # "sent" /\ ~i /\ ~a => m <= o + u2
  <2>1. CASE Told(from) /\ u2 = u + 1
    BY <1>4, <2>1
  <2>2. CASE Pends(from) \/ Inserts(from)
    BY <1>2, <1>4, <2>2
  <2>3. CASE ~Told(from) /\ ~Pends(from) /\ ~Inserts(from)
    BY <1>1, <2>3 DEF Ledger
  <2>. QED
    BY <1>1, <2>1, <2>2, <2>3
<1>. QED
  BY <1>1, <1>3, <1>5, <1>6 DEF Ledger

\* Where a delivery goes that sets out, and how its overlaps are counted.
LEMMA SetOutForms ==
  ASSUME AlertInv, NEW k \in Deliverers, NEW entry \in Delivery, SetOut(k, entry)
  PROVE  \E to \in Sender, o \in Nat :
           /\ to.of = Of(k) /\ to.at \in {"send", "over"} /\ alert' = [alert EXCEPT ![k] = to]
           /\ o = overlaps[Of(k)] + (IF Rivals(k) = {} THEN 0 ELSE 1)
           /\ overlaps' = [overlaps EXCEPT ![Of(k)] = o]
<1>. DEFINE e == alert[k]
            o == overlaps[Of(k)] + (IF Rivals(k) = {} THEN 0 ELSE 1)
<1>1. /\ e \in Sender /\ e.of = Of(k) /\ Of(k) \in Developments /\ overlaps[Of(k)] \in Nat
      /\ Over(k) \in Sender /\ Over(k).at = "over" /\ Over(k).of = Of(k)
  BY SenderFacts
<1>2. o \in Nat /\ overlaps' = [overlaps EXCEPT ![Of(k)] = o]
  <2>1. o \in Nat
    BY <1>1
  <2>2. overlaps' = [overlaps EXCEPT ![Of(k)] = o]
    BY DEF SetOut
  <2>. QED
    BY <2>1, <2>2
<1>. HIDE DEF o
<1>3. CASE entry.attempts < MaxSends
  <2>. DEFINE n == entry.attempts + 1
              to == [e EXCEPT !.at = "send", !.attempt = n]
  <2>1. n \in 0 .. MaxSends
    BY <1>3, AlertAssumption DEF Delivery
  <2>2. alert' = [alert EXCEPT ![k] = to]
    BY <1>3 DEF SetOut
  <2>. HIDE DEF n
  <2>3. to \in Sender /\ to.of = Of(k) /\ to.at = "send"
    BY <1>1, <2>1 DEF Sender
  <2>. QED
    BY <1>2, <2>2, <2>3 DEF o
<1>4. CASE ~(entry.attempts < MaxSends)
  <2>1. alert' = [alert EXCEPT ![k] = Over(k)]
    BY <1>4 DEF SetOut
  <2>. QED
    BY <1>1, <1>2, <2>1 DEF o
<1>. QED
  BY <1>3, <1>4

LEMMA FindDeliveryHolds ==
  ASSUME AlertInv, NEW k \in Deliverers, FindDelivery(k)
  PROVE  AlertInv'
<1>. DEFINE e == alert[k]
            entry == deliveries[Of(k)]
            m == mails[Of(k)]
            u == untold[Of(k)]
<1>1. /\ e \in Sender /\ e.of = Of(k) /\ Of(k) \in Developments
      /\ entry \in Delivery /\ m \in Nat /\ overlaps[Of(k)] \in Nat
      /\ u \in Nat /\ (entry.status = "sent" => m > 0)
      /\ e.at \notin {"event", "over"} => LetThrough(Of(k))
      /\ e.at = "row" \/ Inserts(e) \/ SetOff(e) => Of(k) \in blurbs
      /\ Over(k) \in Sender /\ Over(k).at = "over" /\ Over(k).of = Of(k)
  BY SenderFacts
<1>2. e.at = "row" /\ LetThrough(Of(k)) /\ Of(k) \in blurbs /\ ~Inserts(e) /\ ~SetOff(e)
  BY <1>1 DEF FindDelivery, Inserts, SetOff
<1>3. Delivering /\ UNCHANGED <<deliveries, mails, untold>>
  BY DEF FindDelivery
<1>4. /\ deliveries' = [deliveries EXCEPT ![Of(k)] = entry] /\ mails' = [mails EXCEPT ![Of(k)] = m]
      /\ untold' = [untold EXCEPT ![Of(k)] = u]
  <2>1. deliveries \in [Developments -> Delivery] /\ mails \in [Developments -> Nat]
        /\ untold \in [Developments -> Nat]
    BY DEF AlertInv, AlertTypes, AlertTypeOK
  <2>. QED
    BY <1>3, <2>1
<1>5. m >= mails[Of(k)] /\ (m > 0 => mails[Of(k)] > 0 \/ e.at = "send")
  <2>1. mails[Of(k)] \in Nat
    BY <1>1
  <2>. QED
    BY ONLY <2>1
<1>6. CASE entry.status \notin {"none", "sent"}
  <2>1. SetOut(k, entry)
    BY <1>6 DEF FindDelivery, Unsent
  <2>2. PICK to \in Sender : \E o \in Nat :
           /\ to.of = Of(k) /\ to.at \in {"send", "over"} /\ alert' = [alert EXCEPT ![k] = to]
           /\ o = overlaps[Of(k)] + (IF Rivals(k) = {} THEN 0 ELSE 1)
           /\ overlaps' = [overlaps EXCEPT ![Of(k)] = o]
    BY <1>1, <2>1, SetOutForms
  <2>3. PICK o \in Nat :
           /\ to.of = Of(k) /\ to.at \in {"send", "over"} /\ alert' = [alert EXCEPT ![k] = to]
           /\ o = overlaps[Of(k)] + (IF Rivals(k) = {} THEN 0 ELSE 1)
           /\ overlaps' = [overlaps EXCEPT ![Of(k)] = o]
    BY <2>2
  <2>4. ~Inserts(to) /\ (SetOff(to) => Pends(to)) /\ ~Told(to) /\ to.at # "row" /\ to.at # "sleep"
    BY <2>3 DEF Inserts, SetOff, Pends, Told
  <2>. HIDE DEF e, entry, m, u
  <2>5. Settles(e, to, Rivals(k), m, overlaps[Of(k)], u, entry.status, m, o, u, entry.status)
    BY <1>1, <1>2, <1>6, <2>3, <2>4, SetsOut
  <2>. QED
    BY <1>1, <1>2, <1>3, <1>4, <1>5, <2>3, <2>4, <2>5, SenderActs DEF e, m, u, entry
<1>7. CASE entry.status \in {"none", "sent"}
  <2>1. UNCHANGED mailSide
    BY <1>3, <1>7 DEF FindDelivery, Unsent, mailSide
  <2>2. CASE entry.status = "none"
    <3>. DEFINE to == [e EXCEPT !.at = "insert"]
    <3>1. alert' = [alert EXCEPT ![k] = to]
      BY <2>2 DEF FindDelivery, Unsent, StepTo
    <3>2. to \in Sender /\ to.of = Of(k) /\ to.at = "insert"
      BY <1>1 DEF Sender
    <3>3. Inserts(to) /\ ~SetOff(to) /\ ~Told(to)
      BY <3>2 DEF Inserts, SetOff, Told
    <3>. HIDE DEF to
    <3>4. Settles(e, to, Rivals(k), m, overlaps[Of(k)], u, "none", m, overlaps[Of(k)], u, "none")
      BY <1>1, <1>2, <3>3, AboutToInsert
    <3>. QED
      BY <1>2, <1>3, <2>1, <2>2, <3>1, <3>2, <3>3, <3>4, SenderGoesOn
  <2>3. CASE entry.status = "sent"
    <3>1. alert' = [alert EXCEPT ![k] = Over(k)]
      BY <2>3 DEF FindDelivery, Unsent, StepTo
    <3>2. ~Inserts(Over(k)) /\ ~SetOff(Over(k)) /\ ~Told(Over(k))
      BY <1>1 DEF Inserts, SetOff, Told
    <3>3. Settles(e, Over(k), Rivals(k), m, overlaps[Of(k)], u, entry.status, m, overlaps[Of(k)], u, entry.status)
      BY <1>2, <3>2, BeforeTheLoop
    <3>. QED
      BY <1>1, <1>3, <2>1, <3>1, <3>2, <3>3, SenderGoesOn
  <2>. QED
    BY <1>7, <2>2, <2>3
<1>. QED
  BY <1>6, <1>7

LEMMA InsertDeliveryHolds ==
  ASSUME AlertInv, NEW k \in Deliverers, InsertDelivery(k)
  PROVE  AlertInv'
<1>. DEFINE e == alert[k]
            old == deliveries[Of(k)]
            entry == [old EXCEPT !.status = IF @ = "none" THEN "queued" ELSE @]
            m == mails[Of(k)]
            u == untold[Of(k)]
<1>1. /\ e \in Sender /\ e.of = Of(k) /\ Of(k) \in Developments
      /\ old \in Delivery /\ m \in Nat /\ overlaps[Of(k)] \in Nat
      /\ u \in Nat /\ (old.status = "sent" => m > 0)
      /\ e.at \notin {"event", "over"} => LetThrough(Of(k))
      /\ e.at = "row" \/ Inserts(e) \/ SetOff(e) => Of(k) \in blurbs
  BY SenderFacts
<1>2. e.at = "insert" /\ LetThrough(Of(k)) /\ Of(k) \in blurbs /\ Inserts(e) /\ ~SetOff(e)
  BY <1>1 DEF InsertDelivery, Inserts, SetOff
<1>3. Delivering /\ UNCHANGED <<mails, untold>> /\ SetOut(k, old)
  BY DEF InsertDelivery
<1>4. /\ mails' = [mails EXCEPT ![Of(k)] = m] /\ untold' = [untold EXCEPT ![Of(k)] = u]
  <2>1. mails \in [Developments -> Nat] /\ untold \in [Developments -> Nat]
    BY DEF AlertInv, AlertTypes, AlertTypeOK
  <2>. QED
    BY <1>3, <2>1
<1>5. deliveries' = [deliveries EXCEPT ![Of(k)] = entry]
  BY <1>1 DEF InsertDelivery
<1>6. /\ entry \in Delivery /\ entry.status # "none"
      /\ entry.status = "sent" => old.status = "sent"
      /\ old.status = "sent" => entry.status = "sent"
  BY <1>1 DEF Delivery
<1>7. m >= mails[Of(k)] /\ (m > 0 => mails[Of(k)] > 0 \/ e.at = "send")
  <2>1. mails[Of(k)] \in Nat
    BY <1>1
  <2>. QED
    BY ONLY <2>1
<1>8. PICK to \in Sender : \E o \in Nat :
         /\ to.of = Of(k) /\ to.at \in {"send", "over"} /\ alert' = [alert EXCEPT ![k] = to]
         /\ o = overlaps[Of(k)] + (IF Rivals(k) = {} THEN 0 ELSE 1)
         /\ overlaps' = [overlaps EXCEPT ![Of(k)] = o]
  BY <1>1, <1>3, SetOutForms
<1>9. PICK o \in Nat :
         /\ to.of = Of(k) /\ to.at \in {"send", "over"} /\ alert' = [alert EXCEPT ![k] = to]
         /\ o = overlaps[Of(k)] + (IF Rivals(k) = {} THEN 0 ELSE 1)
         /\ overlaps' = [overlaps EXCEPT ![Of(k)] = o]
  BY <1>8
<1>10. ~Inserts(to) /\ (SetOff(to) => Pends(to)) /\ ~Told(to) /\ to.at # "row" /\ to.at # "sleep"
  BY <1>9 DEF Inserts, SetOff, Pends, Told
<1>. HIDE DEF e, old, entry, m, u
<1>11. Settles(e, to, Rivals(k), m, overlaps[Of(k)], u, old.status, m, o, u, entry.status)
  BY <1>1, <1>2, <1>6, <1>9, <1>10, SetsOut
<1>. QED
  BY <1>1, <1>2, <1>3, <1>4, <1>5, <1>6, <1>7, <1>9, <1>10, <1>11, SenderActs DEF e, m, u, old

\* One step of a delivery in the loop, which counts no overlap.
LEMMA LoopStep ==
  ASSUME AlertInv, NEW k \in Deliverers, NEW to \in Sender, to.of = Of(k), SetOff(alert[k]),
         NEW entry \in Delivery, NEW m \in Nat, NEW u \in Nat,
         alert' = [alert EXCEPT ![k] = to], deliveries' = [deliveries EXCEPT ![Of(k)] = entry],
         mails' = [mails EXCEPT ![Of(k)] = m], untold' = [untold EXCEPT ![Of(k)] = u],
         Delivering, UNCHANGED overlaps,
         m = mails[Of(k)] \/ (m = mails[Of(k)] + 1 /\ alert[k].at = "send"),
         entry.status = "sent" => m > 0, Told(to) => m > 0, to.at = "sleep" => to.attempt < MaxSends,
         Settles(alert[k], to, Rivals(k), mails[Of(k)], overlaps[Of(k)], untold[Of(k)],
                 deliveries[Of(k)].status, m, overlaps[Of(k)], u, entry.status)
  PROVE  AlertInv'
<1>. DEFINE o == overlaps[Of(k)]
<1>1. o \in Nat /\ Of(k) \in Developments /\ mails[Of(k)] \in Nat
  BY SenderFacts
<1>2. overlaps' = [overlaps EXCEPT ![Of(k)] = o]
  BY DEF AlertInv, AlertTypes, AlertTypeOK
<1>3. LetThrough(Of(k)) /\ Of(k) \in blurbs
  BY SenderFacts DEF SetOff
<1>4. m >= mails[Of(k)] /\ (m > 0 => mails[Of(k)] > 0 \/ alert[k].at = "send")
  BY <1>1
<1>. HIDE DEF o
<1>. QED
  BY <1>1, <1>2, <1>3, <1>4, SenderActs DEF o

\* Rows and counters that a step leaves alone, written as it would write them.
LEMMA AsTheyWere ==
  ASSUME AlertInv, NEW k \in Deliverers
  PROVE  /\ UNCHANGED deliveries => deliveries' = [deliveries EXCEPT ![Of(k)] = deliveries[Of(k)]]
         /\ UNCHANGED mails => mails' = [mails EXCEPT ![Of(k)] = mails[Of(k)]]
         /\ UNCHANGED untold => untold' = [untold EXCEPT ![Of(k)] = untold[Of(k)]]
<1>1. deliveries \in [Developments -> Delivery] /\ mails \in [Developments -> Nat]
      /\ untold \in [Developments -> Nat]
  BY DEF AlertInv, AlertTypes, AlertTypeOK
<1>. QED
  BY <1>1

\* Where Missing takes a delivery.
LEMMA MissingForms ==
  ASSUME AlertInv, NEW k \in Deliverers, NEW retry \in BOOLEAN, Missing(k, retry)
  PROVE  \E to \in Sender : to.of = Of(k) /\ to.at = "missed" /\ alert' = [alert EXCEPT ![k] = to]
<1>. DEFINE zero == 0
            to == [alert[k] EXCEPT !.at = "missed", !.retry = retry, !.read = zero]
<1>1. alert[k] \in Sender /\ alert[k].of = Of(k)
  BY SenderFacts
<1>2. alert' = [alert EXCEPT ![k] = to]
  <2>1. k \in DOMAIN alert
    BY DEF AlertInv, AlertTypes, AlertTypeOK
  <2>. QED
    BY <2>1 DEF Missing
<1>3. zero \in Nat
  OBVIOUS
<1>. HIDE DEF zero
<1>4. to \in Sender /\ to.of = Of(k) /\ to.at = "missed"
  BY <1>1, <1>3 DEF Sender
<1>. QED
  BY <1>2, <1>4

LEMMA SendHolds ==
  ASSUME AlertInv, NEW k \in Deliverers, Send(k) \/ SendThrows(k) \/ AnswerLost(k)
  PROVE  AlertInv'
<1>. DEFINE e == alert[k]
            entry == deliveries[Of(k)]
            m == mails[Of(k)]
            more == m + 1
            u == untold[Of(k)]
            less == u + 1
<1>1. /\ e \in Sender /\ e.of = Of(k)
      /\ entry \in Delivery /\ m \in Nat /\ overlaps[Of(k)] \in Nat /\ u \in Nat
      /\ (entry.status = "sent" => m > 0)
  BY SenderFacts
<1>2. e.at = "send"
  BY DEF Send, StepTo, SendThrows, AnswerLost
<1>3. SetOff(e) /\ Pends(e)
  BY <1>2 DEF Pends, SetOff, Told
<1>4. /\ UNCHANGED deliveries => deliveries' = [deliveries EXCEPT ![Of(k)] = entry]
      /\ UNCHANGED mails => mails' = [mails EXCEPT ![Of(k)] = m]
      /\ UNCHANGED untold => untold' = [untold EXCEPT ![Of(k)] = u]
  BY AsTheyWere
<1>5. more \in Nat /\ less \in Nat /\ more = m + 1 /\ less = u + 1 /\ more > 0
  BY <1>1
<1>6. CASE Send(k)
  <2>. DEFINE to == [e EXCEPT !.at = "noted"]
  <2>1. /\ alert' = [alert EXCEPT ![k] = to] /\ mails' = [mails EXCEPT ![Of(k)] = more]
        /\ Delivering /\ UNCHANGED <<deliveries, untold, overlaps>>
    BY <1>6 DEF Send, StepTo, Accept
  <2>2. to \in Sender /\ to.of = Of(k) /\ to.at = "noted"
    BY <1>1 DEF Sender
  <2>3. Told(to) /\ to.at # "sleep"
    BY <2>2 DEF Told
  <2>. HIDE DEF to, entry, more, less, e, m, u
  <2>4. Settles(e, to, Rivals(k), m, overlaps[Of(k)], u, entry.status, more, overlaps[Of(k)], u, entry.status)
    BY <1>1, <1>3, <1>5, <2>3, MailComes
  <2>. QED
    BY <1>1, <1>2, <1>3, <1>4, <1>5, <2>1, <2>2, <2>3, <2>4, LoopStep DEF e, entry, m, u
<1>7. CASE SendThrows(k)
  <2>1. Delivering /\ UNCHANGED <<deliveries, mails, untold, overlaps>>
    BY <1>7 DEF SendThrows, mailSide
  <2>2. PICK to \in Sender : to.of = Of(k) /\ to.at = "missed" /\ alert' = [alert EXCEPT ![k] = to]
    BY <1>7, MissingForms DEF SendThrows
  <2>3. Pends(to) /\ ~Told(to) /\ to.at # "sleep"
    BY <2>2 DEF Pends, Told, SetOff
  <2>. HIDE DEF e, entry, more, less, m, u
  <2>4. Settles(e, to, Rivals(k), m, overlaps[Of(k)], u, entry.status, m, overlaps[Of(k)], u, entry.status)
    BY <1>3, <2>3, WithinTheLoop
  <2>5. /\ deliveries' = [deliveries EXCEPT ![Of(k)] = entry] /\ mails' = [mails EXCEPT ![Of(k)] = m]
        /\ untold' = [untold EXCEPT ![Of(k)] = u] /\ UNCHANGED overlaps /\ Delivering
    BY <1>4, <2>1
  <2>. QED
    BY <1>1, <1>3, <2>2, <2>3, <2>4, <2>5, LoopStep DEF e, entry, m, u
<1>8. CASE AnswerLost(k)
  <2>1. /\ Delivering /\ UNCHANGED <<deliveries, overlaps>> /\ Missing(k, TRUE)
        /\ mails' = [mails EXCEPT ![Of(k)] = more] /\ untold' = [untold EXCEPT ![Of(k)] = less]
    BY <1>8 DEF AnswerLost, Accept, Untell
  <2>2. PICK to \in Sender : to.of = Of(k) /\ to.at = "missed" /\ alert' = [alert EXCEPT ![k] = to]
    BY <2>1, MissingForms
  <2>3. Pends(to) /\ ~Told(to) /\ to.at # "sleep"
    BY <2>2 DEF Pends, Told, SetOff
  <2>. HIDE DEF e, entry, more, less, m, u
  <2>4. Settles(e, to, Rivals(k), m, overlaps[Of(k)], u, entry.status, more, overlaps[Of(k)], less, entry.status)
    BY <1>1, <1>3, <1>5, <2>3, MailComes
  <2>. QED
    BY <1>1, <1>2, <1>3, <1>4, <1>5, <2>1, <2>2, <2>3, <2>4, LoopStep DEF e, entry, m, u
<1>. QED
  BY <1>6, <1>7, <1>8

\* A step to another place in the loop, which books nothing.
LEMMA MovesWithin ==
  ASSUME AlertInv, NEW k \in Deliverers, NEW to \in Sender, to.of = Of(k),
         alert' = [alert EXCEPT ![k] = to], Delivering, UNCHANGED <<mails, untold, overlaps>>,
         NEW entry \in Delivery, deliveries' = [deliveries EXCEPT ![Of(k)] = entry],
         entry.status = deliveries[Of(k)].status,
         \/ Pends(alert[k]) /\ Pends(to)
         \/ Told(alert[k]) /\ Told(to),
         to.at = "sleep" => to.attempt < MaxSends
  PROVE  AlertInv'
<1>. DEFINE e == alert[k]
            m == mails[Of(k)]
            u == untold[Of(k)]
<1>1. /\ m \in Nat /\ u \in Nat /\ (entry.status = "sent" => m > 0)
      /\ Told(e) => m > 0
  BY SenderFacts
<1>2. SetOff(e) /\ (Told(to) => m > 0)
  BY <1>1 DEF Pends, Told, SetOff
<1>3. mails' = [mails EXCEPT ![Of(k)] = m] /\ untold' = [untold EXCEPT ![Of(k)] = u]
  BY AsTheyWere
<1>. HIDE DEF e, m, u
<1>4. Settles(e, to, Rivals(k), m, overlaps[Of(k)], u, entry.status, m, overlaps[Of(k)], u, entry.status)
  BY WithinTheLoop DEF e
<1>. QED
  BY <1>1, <1>2, <1>3, <1>4, LoopStep DEF e, m, u

LEMMA NotesHold ==
  ASSUME AlertInv, NEW k \in Deliverers,
         ReadAttempts(k) \/ NoteSent(k) \/ NoteMissed(k) \/ Wake(k)
  PROVE  AlertInv'
<1>. DEFINE e == alert[k]
            old == deliveries[Of(k)]
            zero == 0
            no == FALSE
<1>1. /\ e \in Sender /\ e.of = Of(k) /\ old \in Delivery /\ Of(k) \in Developments
      /\ e.at = "sleep" => e.attempt < MaxSends
  BY SenderFacts
<1>2. zero \in Nat /\ no \in BOOLEAN /\ k \in DOMAIN alert
  BY DEF AlertInv, AlertTypes, AlertTypeOK
<1>3. deliveries' = deliveries => deliveries' = [deliveries EXCEPT ![Of(k)] = old]
  BY AsTheyWere
<1>4. Record(k) => /\ deliveries' = [deliveries EXCEPT ![Of(k)] = [old EXCEPT !.attempts = e.read + 1]]
                   /\ [old EXCEPT !.attempts = e.read + 1] \in Delivery
                   /\ [old EXCEPT !.attempts = e.read + 1].status = old.status
  <2>. DEFINE n == e.read + 1
  <2>1. n \in Nat
    BY <1>1 DEF Sender
  <2>2. Record(k) => deliveries' = [deliveries EXCEPT ![Of(k)] = [old EXCEPT !.attempts = n]]
    BY DEF Record
  <2>. HIDE DEF n
  <2>3. [old EXCEPT !.attempts = n] \in Delivery /\ [old EXCEPT !.attempts = n].status = old.status
    BY <1>1, <2>1 DEF Delivery
  <2>. QED
    BY <2>2, <2>3 DEF n
<1>5. CASE ReadAttempts(k)
  <2>. DEFINE n == old.attempts
              at == IF e.at = "noted" THEN "note" ELSE "miss"
              to == [e EXCEPT !.read = n, !.at = at]
  <2>1. n \in Nat
    BY <1>1 DEF Delivery
  <2>2. alert' = [alert EXCEPT ![k] = to] /\ e.at \in {"noted", "missed"}
    BY <1>2, <1>5 DEF ReadAttempts
  <2>3. Delivering /\ UNCHANGED <<mails, untold, overlaps>> /\ deliveries' = deliveries
    BY <1>5 DEF ReadAttempts, mailSide
  <2>4. at \in {"note", "miss"} /\ (at = "note" <=> e.at = "noted")
    OBVIOUS
  <2>. HIDE DEF at, n
  <2>5. to \in Sender /\ to.of = Of(k) /\ to.at = at
    BY <1>1, <2>1, <2>4 DEF Sender
  <2>6. /\ \/ Pends(e) /\ Pends(to)
           \/ Told(e) /\ Told(to)
        /\ to.at # "sleep"
    BY <2>2, <2>4, <2>5 DEF Pends, Told, SetOff
  <2>. HIDE DEF to
  <2>. QED
    BY <1>1, <1>3, <2>2, <2>3, <2>5, <2>6, MovesWithin
<1>6. CASE NoteSent(k)
  <2>. DEFINE to == [e EXCEPT !.at = "mark", !.read = zero]
              entry == [old EXCEPT !.attempts = e.read + 1]
  <2>1. alert' = [alert EXCEPT ![k] = to] /\ e.at = "note"
    BY <1>2, <1>6 DEF NoteSent
  <2>2. Delivering /\ UNCHANGED <<mails, untold, overlaps>> /\ Record(k)
    BY <1>6 DEF NoteSent
  <2>. HIDE DEF zero
  <2>3. to \in Sender /\ to.of = Of(k) /\ to.at = "mark"
    BY <1>1, <1>2 DEF Sender
  <2>4. Told(e) /\ Told(to) /\ to.at # "sleep"
    BY <2>1, <2>3 DEF Told
  <2>5. entry \in Delivery /\ entry.status = old.status /\ deliveries' = [deliveries EXCEPT ![Of(k)] = entry]
    BY <1>4, <2>2
  <2>. HIDE DEF to, entry
  <2>. QED
    BY <2>1, <2>2, <2>3, <2>4, <2>5, MovesWithin
<1>7. CASE NoteMissed(k)
  <2>. DEFINE at == IF Again(k) THEN "sleep" ELSE "fail"
              to == [e EXCEPT !.at = at, !.read = zero, !.retry = no]
              entry == [old EXCEPT !.attempts = e.read + 1]
  <2>1. alert' = [alert EXCEPT ![k] = to] /\ e.at = "miss"
    BY <1>2, <1>7 DEF NoteMissed
  <2>2. Delivering /\ UNCHANGED <<mails, untold, overlaps>> /\ Record(k)
    BY <1>7 DEF NoteMissed
  <2>3. at \in {"sleep", "fail"} /\ (at = "sleep" => e.attempt < MaxSends)
    BY DEF Again
  <2>. HIDE DEF zero, no, at
  <2>4. to \in Sender /\ to.of = Of(k) /\ to.at = at /\ to.attempt = e.attempt
    BY <1>1, <1>2, <2>3 DEF Sender
  <2>5. Pends(e) /\ Pends(to)
    BY <2>1, <2>3, <2>4 DEF Pends, Told, SetOff
  <2>6. to.at = "sleep" => to.attempt < MaxSends
    BY <2>3, <2>4
  <2>7. entry \in Delivery /\ entry.status = old.status /\ deliveries' = [deliveries EXCEPT ![Of(k)] = entry]
    BY <1>4, <2>2
  <2>. HIDE DEF to, entry
  <2>. QED
    BY <2>1, <2>2, <2>4, <2>5, <2>6, <2>7, MovesWithin
<1>8. CASE Wake(k)
  <2>. DEFINE n == e.attempt + 1
              to == [e EXCEPT !.at = "send", !.attempt = n]
  <2>1. alert' = [alert EXCEPT ![k] = to] /\ e.at = "sleep"
    BY <1>2, <1>8 DEF Wake
  <2>2. Delivering /\ UNCHANGED <<mails, untold, overlaps>> /\ deliveries' = deliveries
    BY <1>8 DEF Wake, mailSide
  <2>3. n \in 0 .. MaxSends
    <3>1. e.attempt \in 0 .. MaxSends /\ e.attempt < MaxSends /\ MaxSends \in Nat
      BY <1>1, <2>1, AlertAssumption DEF Sender
    <3>. QED
      BY ONLY <3>1
  <2>. HIDE DEF n
  <2>4. to \in Sender /\ to.of = Of(k) /\ to.at = "send"
    BY <1>1, <2>3 DEF Sender
  <2>5. Pends(e) /\ Pends(to) /\ to.at # "sleep"
    BY <2>1, <2>4 DEF Pends, Told, SetOff
  <2>. HIDE DEF to
  <2>. QED
    BY <1>1, <1>3, <2>1, <2>2, <2>4, <2>5, MovesWithin
<1>. QED
  BY <1>5, <1>6, <1>7, <1>8

LEMMA EndsHold ==
  ASSUME AlertInv, NEW k \in Deliverers, MarkSent(k) \/ MarkFailed(k) \/ NoteThrows(k)
  PROVE  AlertInv'
<1>. DEFINE e == alert[k]
            old == deliveries[Of(k)]
            m == mails[Of(k)]
            u == untold[Of(k)]
            less == u + 1
            o == overlaps[Of(k)]
<1>1. /\ e \in Sender /\ old \in Delivery /\ m \in Nat /\ o \in Nat /\ u \in Nat
      /\ (old.status = "sent" => m > 0) /\ (Told(e) => m > 0)
      /\ Over(k) \in Sender /\ Over(k).at = "over" /\ Over(k).of = Of(k)
  BY SenderFacts
<1>2. /\ UNCHANGED deliveries => deliveries' = [deliveries EXCEPT ![Of(k)] = old]
      /\ UNCHANGED mails => mails' = [mails EXCEPT ![Of(k)] = m]
      /\ UNCHANGED untold => untold' = [untold EXCEPT ![Of(k)] = u]
  BY AsTheyWere
<1>3. ~Inserts(Over(k)) /\ ~SetOff(Over(k)) /\ ~Told(Over(k)) /\ Over(k).at # "sleep"
  BY <1>1 DEF Inserts, SetOff, Told
<1>4. \A status \in {"sent", "failed"} :
        /\ MarkAs(k, status) => deliveries' = [deliveries EXCEPT ![Of(k)] = [old EXCEPT !.status = status]]
        /\ [old EXCEPT !.status = status] \in Delivery /\ [old EXCEPT !.status = status].status = status
  BY <1>1 DEF MarkAs, Delivery
<1>5. CASE MarkSent(k)
  <2>. DEFINE entry == [old EXCEPT !.status = "sent"]
              to == Over(k)
  <2>1. /\ alert' = [alert EXCEPT ![k] = to] /\ e.at = "mark" /\ MarkAs(k, "sent")
        /\ Delivering /\ UNCHANGED <<mails, untold, overlaps>>
    BY <1>5 DEF MarkSent, StepTo
  <2>2. Told(e) /\ SetOff(e) /\ m > 0
    BY <1>1, <2>1 DEF Told, SetOff
  <2>3. entry \in Delivery /\ entry.status = "sent" /\ deliveries' = [deliveries EXCEPT ![Of(k)] = entry]
    BY <1>4, <2>1
  <2>4. mails' = [mails EXCEPT ![Of(k)] = m] /\ untold' = [untold EXCEPT ![Of(k)] = u] /\ UNCHANGED overlaps
    BY <1>2, <2>1
  <2>. HIDE DEF e, old, entry, m, u, o, to
  <2>5. Settles(e, to, Rivals(k), m, o, u, old.status, m, o, u, entry.status)
    BY <1>1, <1>3, <2>2, <2>3, Leaves DEF to
  <2>. QED
    BY <1>1, <1>3, <2>1, <2>2, <2>3, <2>4, <2>5, LoopStep DEF e, old, m, u, o, to
<1>6. CASE MarkFailed(k)
  <2>. DEFINE entry == [old EXCEPT !.status = "failed"]
              to == Over(k)
  <2>1. /\ alert' = [alert EXCEPT ![k] = to] /\ e.at = "fail" /\ MarkAs(k, "failed")
        /\ Delivering /\ UNCHANGED <<mails, untold, overlaps>>
    BY <1>6 DEF MarkFailed, StepTo, Failure
  <2>2. Pends(e) /\ SetOff(e)
    BY <2>1 DEF Told, SetOff, Pends
  <2>3. entry \in Delivery /\ entry.status = "failed" /\ deliveries' = [deliveries EXCEPT ![Of(k)] = entry]
    BY <1>4, <2>1
  <2>4. mails' = [mails EXCEPT ![Of(k)] = m] /\ untold' = [untold EXCEPT ![Of(k)] = u] /\ UNCHANGED overlaps
    BY <1>2, <2>1
  <2>. HIDE DEF e, old, entry, m, u, o, to
  <2>5. Settles(e, to, Rivals(k), m, o, u, old.status, m, o, u, entry.status)
    BY <1>1, <1>3, <2>2, <2>3, Leaves DEF to
  <2>. QED
    BY <1>1, <1>3, <2>1, <2>2, <2>3, <2>4, <2>5, LoopStep DEF e, old, m, u, o, to
<1>7. CASE NoteThrows(k)
  <2>1. /\ e.at \in {"noted", "note", "mark"} /\ untold' = [untold EXCEPT ![Of(k)] = less]
        /\ Delivering /\ UNCHANGED <<deliveries, mails, overlaps>>
    BY <1>7 DEF NoteThrows, Untell
  <2>2. PICK to \in Sender : to.of = Of(k) /\ to.at = "missed" /\ alert' = [alert EXCEPT ![k] = to]
    BY <1>7, MissingForms DEF NoteThrows
  <2>3. Pends(to) /\ ~Told(to) /\ to.at # "sleep" /\ Told(e) /\ SetOff(e)
    BY <2>1, <2>2 DEF Pends, Told, SetOff
  <2>4. mails' = [mails EXCEPT ![Of(k)] = m] /\ deliveries' = [deliveries EXCEPT ![Of(k)] = old]
        /\ UNCHANGED overlaps
    BY <1>2, <2>1
  <2>5. less \in Nat /\ less = u + 1
    BY <1>1
  <2>. HIDE DEF e, old, m, u, o, less
  <2>6. Settles(e, to, Rivals(k), m, o, u, old.status, m, o, less, old.status)
    BY <1>1, <2>3, <2>5, MailComes
  <2>. QED
    BY <1>1, <2>1, <2>2, <2>3, <2>4, <2>5, <2>6, LoopStep DEF e, old, m, u, o
<1>. QED
  BY <1>5, <1>6, <1>7

LEMMA DeliverHolds ==
  ASSUME AlertInv, NEW k \in Deliverers, Deliver(k)
  PROVE  AlertInv'
<1>1. CASE StartDelivery(k) \/ Prepare(k) \/ PrepareThrows(k) \/ Block(k, "delivery blocked")
  BY <1>1, PreparingHolds
<1>2. CASE FindDelivery(k) \/ InsertDelivery(k)
  BY <1>2, FindDeliveryHolds, InsertDeliveryHolds
<1>3. CASE Send(k) \/ SendThrows(k) \/ AnswerLost(k)
  BY <1>3, SendHolds
<1>4. CASE ReadAttempts(k) \/ NoteSent(k) \/ NoteMissed(k) \/ Wake(k)
  BY <1>4, NotesHold
<1>5. CASE MarkSent(k) \/ MarkFailed(k) \/ NoteThrows(k)
  BY <1>5, EndsHold
<1>. QED
  BY <1>1, <1>2, <1>3, <1>4, <1>5 DEF Deliver

\* A call that dies is over; the mail its row was not told of is untold.
LEMMA CallDiesHolds ==
  ASSUME AlertInv, NEW k \in DOMAIN alert, CallDies(k)
  PROVE  AlertInv'
<1>1. k \in Calls /\ alert' = [alert EXCEPT ![k] = Over(k)] /\ alert[k].at \notin {"issue", "event", "over"}
      /\ UNCHANGED <<issueSide, events, blurbs, deliveries, mails, overlaps>>
  BY DEF AlertInv, AlertTypes, AlertTypeOK, Calls, CallDies
<1>2. Of(k) \in Developments /\ Of(k) = alert[k].of
  BY <1>1, OverForms DEF AlertInv, Of
<1>3. CASE k \in Evaluations
  <2>1. Over(k) \in Evaluation /\ EvaluationHolds(Over(k))
    BY <1>3, OverForms DEF AlertInv, EvaluationHolds
  <2>2. UNCHANGED untold
    BY <1>3 DEF AlertInv, AlertTypes, Evaluation, CallDies
  <2>3. Evaluating /\ UNCHANGED events
    BY <1>1, <2>2 DEF Evaluating, mailSide
  <2>. QED
    BY <1>1, <1>3, <2>1, <2>3, EvaluationGoesOn
<1>4. CASE k \in Writers
  <2>1. Over(k) = [at |-> "over", of |-> Of(k)]
    BY <1>4, OverForms DEF AlertInv
  <2>2. Over(k) \in Writer /\ Over(k).of = Of(k) /\ Over(k).at = "over"
    BY <1>2, <2>1 DEF Writer
  <2>3. UNCHANGED untold
    BY <1>4 DEF AlertInv, AlertTypes, Writer, CallDies
  <2>4. UNCHANGED <<issueSide, events, mailSide>> /\ blurbs \subseteq blurbs' /\ blurbs' \subseteq Developments
    BY <1>1, <2>3 DEF mailSide, AlertInv, AlertTypes, AlertTypeOK
  <2>. QED
    BY <1>1, <1>4, <2>2, <2>4, WriterGoesOn
<1>5. CASE k \in Deliverers
  <2>. DEFINE e == alert[k]
              old == deliveries[Of(k)]
              m == mails[Of(k)]
              u == untold[Of(k)]
              u2 == IF Told(e) THEN u + 1 ELSE u
              o == overlaps[Of(k)]
              to == Over(k)
  <2>1. /\ e \in Sender /\ old \in Delivery /\ m \in Nat /\ o \in Nat /\ u \in Nat
        /\ (old.status = "sent" => m > 0)
        /\ to \in Sender /\ to.at = "over" /\ to.of = Of(k)
    BY <1>5, SenderFacts
  <2>2. /\ UNCHANGED deliveries => deliveries' = [deliveries EXCEPT ![Of(k)] = old]
        /\ UNCHANGED mails => mails' = [mails EXCEPT ![Of(k)] = m]
        /\ UNCHANGED untold => untold' = [untold EXCEPT ![Of(k)] = u]
    BY <1>5, AsTheyWere
  <2>3. untold' = [untold EXCEPT ![Of(k)] = u2]
    <3>1. CASE Told(e)
      BY <3>1 DEF CallDies, Untell, Told
    <3>2. CASE ~Told(e)
      BY <2>2, <3>2 DEF CallDies, Told
    <3>. QED
      BY <3>1, <3>2
  <2>4. /\ deliveries' = [deliveries EXCEPT ![Of(k)] = old] /\ mails' = [mails EXCEPT ![Of(k)] = m]
        /\ overlaps' = [overlaps EXCEPT ![Of(k)] = o]
    BY <1>1, <2>2 DEF AlertInv, AlertTypes, AlertTypeOK
  <2>5. u2 \in Nat /\ \/ Told(e) /\ u2 = u + 1
                      \/ ~Told(e) /\ u2 = u
    BY <2>1
  <2>6. m >= mails[Of(k)] /\ (m > 0 => mails[Of(k)] > 0 \/ alert[k].at = "send")
    <3>1. mails[Of(k)] \in Nat
      BY <2>1
    <3>. QED
      BY ONLY <3>1
  <2>7. Delivering
    BY <1>1 DEF Delivering
  <2>8. ~Inserts(to) /\ ~SetOff(to) /\ ~Told(to) /\ to.at \notin {"row", "sleep"}
    BY <2>1 DEF Inserts, SetOff, Told
  <2>. HIDE DEF e, old, m, u, u2, o, to
  <2>9. Settles(e, to, Rivals(k), m, o, u, old.status, m, o, u2, old.status)
    BY <2>1, <2>5, <2>8, Leaves
  <2>. QED
    BY <1>1, <1>5, <2>1, <2>3, <2>4, <2>5, <2>6, <2>7, <2>8, <2>9, SenderActs DEF e, old, m, u, o, to
<1>. QED
  BY <1>1, <1>3, <1>4, <1>5 DEF Calls

LEMMA AlertKept == AlertInv /\ [AlertNext]_alertVars => AlertInv'
<1>. SUFFICES ASSUME AlertInv, [AlertNext]_alertVars
              PROVE  AlertInv'
  OBVIOUS
<1>1. CASE Reprioritise \/ ExplainPriority \/ WriteContent \/ ChangePreference
  BY <1>1, IssueMovesOn
<1>2. CASE \E k \in Evaluations : Evaluate(k)
  BY <1>2, EvaluateHolds
<1>3. CASE \E k \in Writers : Generate(k)
  BY <1>3, GenerateHolds
<1>4. CASE \E k \in Deliverers : Deliver(k)
  BY <1>4, DeliverHolds
<1>5. CASE \E k \in DOMAIN alert : CallDies(k)
  BY <1>5, CallDiesHolds
<1>6. CASE UNCHANGED alertVars
  <2>1. /\ UNCHANGED <<urgency, preference, events, blurbs, alert>> /\ UNCHANGED mailSide
    BY <1>6 DEF alertVars, mailSide
  <2>2. /\ AlertTypes' /\ DirectIsNew' /\ Stand
    BY <2>1 DEF AlertInv, AlertTypes, AlertTypeOK, DirectIsNew, Stand, LetThrough, mailSide
  <2>. QED
    BY <2>1, <2>2, DeliveriesStay DEF AlertInv
<1>. QED
  BY <1>1, <1>2, <1>3, <1>4, <1>5, <1>6 DEF AlertNext

(* Whatever the mail server, the statements and the hosts do to deliveries *)
(* that overlap, a mail was earned, a second mail about an event has its   *)
(* overlap or its lost answer, and a delivery that says sent went out      *)
(* (email-delivery.service.js).                                            *)
THEOREM AlertsAreSafe == AlertSpec => []AlertSafe
<1>1. AlertInv => AlertSafe
  <2>. SUFFICES ASSUME AlertInv, NEW d \in Developments
                PROVE  mails[d] <= 1 + overlaps[d] + untold[d]
    BY DEF AlertSafe, AlertInv, AlertTypes, SecondMailIsExplained
  <2>1. /\ mails[d] \in Nat /\ overlaps[d] \in Nat /\ untold[d] \in Nat
        /\ Books(alert, d, mails[d], overlaps[d], untold[d], deliveries[d].status)
    BY DEF AlertInv, AlertTypes, AlertTypeOK, BooksBalance
  <2>2. Cardinality(Pending(alert, d)) \in Nat
    <3>1. Pending(alert, d) \in SUBSET Deliverers /\ IsFiniteSet(Deliverers)
      BY AlertAssumption DEF Pending
    <3>. QED
      BY <3>1, FS_Subset, FS_CardinalityType
  <2>. QED
    BY <2>1, <2>2 DEF Books
<1>. QED
  BY AlertStart, AlertKept, <1>1, PTL DEF AlertSpec

\* What a step may do to the verdicts.
VerdictStep ==
  \A k \in EventKeys : events[k] # "none" =>
    events'[k] = events[k] \/ events'[k] \in {"content blocked", "delivery blocked"}

LEMMA VerdictsKept == AlertTypeOK /\ [AlertNext]_alertVars => VerdictStep
<1>. SUFFICES ASSUME AlertTypeOK, [AlertNext]_alertVars
              PROVE  VerdictStep
  OBVIOUS
<1>1. events \in [EventKeys -> Event]
  BY DEF AlertTypeOK
<1>2. CASE UNCHANGED events
  BY <1>2 DEF VerdictStep
<1>3. ASSUME NEW k, CreateEvent(k)
      PROVE  VerdictStep
  BY <1>1, <1>3 DEF CreateEvent, Inserted, VerdictStep
<1>4. ASSUME NEW k, NEW status \in {"content blocked", "delivery blocked"}, Block(k, status)
      PROVE  VerdictStep
  BY <1>1, <1>4 DEF Block, VerdictStep
<1>5. CASE Reprioritise \/ ExplainPriority \/ WriteContent \/ ChangePreference
  BY <1>2, <1>5 DEF Reprioritise, ExplainPriority, WriteContent, ChangePreference
<1>6. ASSUME NEW k \in Evaluations, Evaluate(k)
      PROVE  VerdictStep
  BY <1>2, <1>3, <1>6 DEF Evaluate, ReadAlertIssue, ReadPreference, SelectChannel, FindEligible, CheckContent
<1>7. ASSUME NEW k \in Writers, Generate(k)
      PROVE  VerdictStep
  BY <1>2, <1>4, <1>7 DEF Generate, StartBlurb, FindBlurb, WriteBlurb, CreateBlurb, BlurbThrows
<1>8. ASSUME NEW k \in Deliverers, Deliver(k)
      PROVE  VerdictStep
  <2>1. CASE Block(k, "delivery blocked")
    BY <1>4, <2>1
  <2>2. CASE ~Block(k, "delivery blocked")
    <3>1. UNCHANGED events
      BY <1>8, <2>2 DEF Deliver, StartDelivery, Prepare, PrepareThrows, FindDelivery, InsertDelivery, Send,
         SendThrows, AnswerLost, ReadAttempts, NoteSent, MarkSent, NoteThrows, NoteMissed, MarkFailed, Wake,
         Delivering
    <3>. QED
      BY <1>2, <3>1
  <2>. QED
    BY <2>1, <2>2
<1>9. CASE \E k \in DOMAIN alert : CallDies(k)
  BY <1>2, <1>9 DEF CallDies
<1>10. CASE UNCHANGED alertVars
  BY <1>2, <1>10 DEF alertVars
<1>. QED
  BY <1>5, <1>6, <1>7, <1>8, <1>9, <1>10 DEF AlertNext

(* The first verdict under a key stands for good: what was suppressed or   *)
(* blocked is never let through by a later evaluation (insert ... on       *)
(* conflict, alert-eligibility.service.js).                                *)
THEOREM FirstVerdictStands == AlertSpec => FirstVerdictStays
<1>1. AlertInv => AlertTypeOK
  BY DEF AlertInv, AlertTypes
<1>2. AlertInv /\ [AlertNext]_alertVars =>
        [\A k \in EventKeys : events[k] # "none" =>
           events'[k] = events[k] \/ events'[k] \in {"content blocked", "delivery blocked"}]_alertVars
  BY <1>1, VerdictsKept DEF VerdictStep
<1>. QED
  BY AlertStart, AlertKept, <1>2, PTL DEF AlertSpec, FirstVerdictStays

-----------------------------------------------------------------------------
(* The services together *)

(* The run that moves one service at a time keeps to the specification of  *)
(* each of them and of the queue, so that every theorem above, and those   *)
(* of JobQueueProofs, are theorems about its behaviours.                   *)
THEOREM ServicesKeepToTheirSpecs ==
    ServicesSpec => Spec /\ UploadSpec /\ ContextSpec /\ AccessSpec /\ AlertSpec
<1>1. ServicesInit => Init /\ UploadInit /\ ContextInit /\ AccessInit /\ AlertInit
  BY DEF ServicesInit
<1>2. [ServicesNext]_<<focus, vars, serviceVars>> =>
          /\ [Next]_vars /\ [UploadNext]_uploadVars /\ [ContextNext]_contextVars
          /\ [AccessNext]_accessVars /\ [AlertNext]_alertVars
  BY DEF ServicesNext, serviceVars, Rest
<1>. QED
  BY <1>1, <1>2, PTL DEF ServicesSpec, Spec, UploadSpec, ContextSpec, AccessSpec, AlertSpec

(* What was decided stands, in each service: versions of a context, first  *)
(* verdicts on alerts, and memberships as they were shown and inside their *)
(* company.                                                                *)
THEOREM DecisionsAreKept == ContextSpec /\ AlertSpec /\ AccessSpec => DecisionsStand
BY VersionsStayHistory, FirstVerdictStands, EditsTheShown, AdminsAreInside, PTL DEF DecisionsStand

=============================================================================

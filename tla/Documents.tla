------------------------------ MODULE Documents ------------------------------
(***************************************************************************)
(* One document: DocumentsService.editDocument, transitionDocument,        *)
(* recordApproval, recordSignature and requestPdf over the statements of   *)
(* the Prisma store.  Each handler loads the document and judges its       *)
(* status, reads once more what its write depends on, and writes; the      *)
(* tables Approval, Signature and OutboxEvent have no unique key.          *)
(*                                                                         *)
(* A handler that answers 400 writes nothing and is left out.  A slot      *)
(* serves one request after another.                                       *)
(***************************************************************************)
EXTENDS Integers, Sequences, FiniteSets

CONSTANTS
    Slots,        \* handlers that may be under way at once
    Actors,       \* users who approve and sign
    MaxVersions   \* bound on the versions of the document

ASSUME DocumentAssumption == MaxVersions \in Nat \ {0} /\ IsFiniteSet(Slots) /\ Actors # {}

VARIABLES
    status,      \* Document.status
    versions,    \* number of DocumentVersion rows; the last one has this version
    approvals,   \* approvals[a]: the Approval rows of a, TRUE when approved
    signatures,  \* signatures[a]: number of Signature rows of a
    jobs,        \* jobs[v]: number of pdf.render events of version v
    pc,          \* where the handler of each slot stands
    job,         \* what it was asked and what it read
    raced        \* history: two handlers were between load and write at once

tables == <<status, versions, approvals, signatures, jobs>>
vars == <<tables, pc, job, raced>>

Status == {"DRAFT", "IN_REVIEW", "APPROVED", "SIGNED", "FINAL", "ARCHIVED"}
Kinds == {"none", "edit", "transition", "approve", "sign", "pdf"}

Mutant_TransitionsReopen(s) ==
    CASE s = "DRAFT"     -> {"IN_REVIEW", "ARCHIVED"}
      [] s = "IN_REVIEW" -> {"APPROVED", "DRAFT", "ARCHIVED"}
      [] s = "APPROVED"  -> {"SIGNED", "FINAL", "ARCHIVED"}
      [] s = "SIGNED"    -> {"FINAL", "ARCHIVED"}
      [] s = "FINAL"     -> {"ARCHIVED"}
      [] s = "ARCHIVED"  -> {}
\* TRANSITIONS
Transitions(s) ==
    CASE s = "DRAFT"     -> {"IN_REVIEW", "ARCHIVED"}
      [] s = "IN_REVIEW" -> {"APPROVED", "DRAFT", "ARCHIVED"}
      [] s = "APPROVED"  -> {"SIGNED", "ARCHIVED"}
      [] s = "SIGNED"    -> {"FINAL", "ARCHIVED"}
      [] s = "FINAL"     -> {"ARCHIVED"}
      [] s = "ARCHIVED"  -> {}

Job == [kind : Kinds, actor : Actors, to : Status, yes : BOOLEAN, seen : Nat]
Request(kind) == [kind |-> kind, actor |-> CHOOSE a \in Actors : TRUE, to |-> "DRAFT",
                  yes |-> FALSE, seen |-> 0]

TypeOK ==
    /\ status \in Status
    /\ versions \in 1..MaxVersions
    /\ approvals \in [Actors -> Seq(BOOLEAN)]
    /\ signatures \in [Actors -> Nat]
    /\ jobs \in [1..MaxVersions -> Nat]
    /\ pc \in [Slots -> {"idle", "loaded", "ready", "auditing"}]
    /\ job \in [Slots -> Job]
    /\ raced \in BOOLEAN

\* createDocument: a draft and its version 1, in one nested insert.
Init ==
    /\ status = "DRAFT" /\ versions = 1
    /\ approvals = [a \in Actors |-> <<>>]
    /\ signatures = [a \in Actors |-> 0]
    /\ jobs = [v \in 1..MaxVersions |-> 0]
    /\ pc = [s \in Slots |-> "idle"]
    /\ job = [s \in Slots |-> Request("none")]
    /\ raced = FALSE

-----------------------------------------------------------------------------
InFlight(s) == pc[s] \in {"loaded", "ready"}

\* The handler has loaded the document, accepts the request and goes to step.
Accept(s, request, step) ==
    /\ pc[s] = "idle"
    /\ pc' = [pc EXCEPT ![s] = step]
    /\ job' = [job EXCEPT ![s] = request]
    /\ raced' = (raced \/ \E q \in Slots : InFlight(q))
    /\ UNCHANGED tables

\* It has read what its write depends on.
Read(s, kind, go, seen) ==
    /\ pc[s] = "loaded" /\ job[s].kind = kind
    /\ pc' = [pc EXCEPT ![s] = IF go THEN "ready" ELSE "idle"]
    /\ job' = [job EXCEPT ![s] = IF go THEN [@ EXCEPT !.seen = seen] ELSE Request("none")]
    /\ UNCHANGED <<tables, raced>>

Wrote(s, kind) ==
    /\ pc[s] = "ready" /\ job[s].kind = kind
    /\ pc' = [pc EXCEPT ![s] = "auditing"]
    /\ job' = [job EXCEPT ![s] = Request("none")]
    /\ UNCHANGED raced

(***************************************************************************)
(* editDocument, saveVersion                                               *)
(***************************************************************************)
Mutant_EditAnyStatus(s) ==
    status # "ARCHIVED" /\ Accept(s, Request("edit"), "loaded")
EditDocument(s) ==
    /\ status \in {"DRAFT", "IN_REVIEW"}
    /\ Accept(s, Request("edit"), "loaded")

FindLastVersion(s) == versions < MaxVersions /\ Read(s, "edit", TRUE, versions)

\* The unique key (document, version) rejects the second insert of a version.
SaveVersion(s) ==
    /\ \/ /\ job[s].seen = versions
          /\ Wrote(s, "edit")
          /\ versions' = versions + 1
       \/ /\ job[s].seen # versions
          /\ pc[s] = "ready" /\ job[s].kind = "edit"
          /\ pc' = [pc EXCEPT ![s] = "idle"]
          /\ job' = [job EXCEPT ![s] = Request("none")]
          /\ UNCHANGED <<versions, raced>>
    /\ UNCHANGED <<status, approvals, signatures, jobs>>

(***************************************************************************)
(* transitionDocument, setDocumentStatus                                   *)
(***************************************************************************)
TransitionDocument(s, to) ==
    /\ to \in Transitions(status)
    /\ Accept(s, [Request("transition") EXCEPT !.to = to],
              IF to \in {"APPROVED", "SIGNED"} THEN "loaded" ELSE "ready")

Rows(b) == {a \in Actors : \E k \in DOMAIN approvals[a] : approvals[a][k] = b}

\* What the approvals or signatures on file must show.
Granted(to) ==
    CASE to = "APPROVED" -> Rows(TRUE) # {} /\ Rows(FALSE) = {}
      [] to = "SIGNED"   -> \E a \in Actors : signatures[a] > 0

CheckTransition(s) == Read(s, "transition", Granted(job[s].to), 0)

SetDocumentStatus(s) ==
    /\ Wrote(s, "transition")
    /\ status' = job[s].to
    /\ UNCHANGED <<versions, approvals, signatures, jobs>>

(***************************************************************************)
(* recordApproval: the row of the approver is updated, or one is inserted  *)
(***************************************************************************)
ApproveDocument(s, a, yes) ==
    /\ status = "IN_REVIEW"
    /\ Accept(s, [Request("approve") EXCEPT !.actor = a, !.yes = yes], "loaded")

FindApproval(s) ==
    \E k \in 0..Len(approvals[job[s].actor]) :
        /\ k = 0 => approvals[job[s].actor] = <<>>
        /\ Read(s, "approve", TRUE, k)

Mutant_AlwaysInserts(s) ==
    /\ Wrote(s, "approve")
    /\ Len(approvals[job[s].actor]) < 3
    /\ approvals' = [approvals EXCEPT ![job[s].actor] = Append(@, job[s].yes)]
    /\ UNCHANGED <<status, versions, signatures, jobs>>
RecordApproval(s) ==
    LET a == job[s].actor IN
    /\ Wrote(s, "approve")
    /\ approvals' = [approvals EXCEPT ![a] =
                        IF job[s].seen = 0 THEN Append(@, job[s].yes)
                        ELSE [@ EXCEPT ![job[s].seen] = job[s].yes]]
    /\ UNCHANGED <<status, versions, signatures, jobs>>

(***************************************************************************)
(* recordSignature: the signer is looked for in the list first             *)
(***************************************************************************)
SignDocument(s, a) ==
    /\ status = "APPROVED"
    /\ Accept(s, [Request("sign") EXCEPT !.actor = a], "loaded")

ListSignatures(s) == Read(s, "sign", signatures[job[s].actor] = 0, 0)

RecordSignature(s) ==
    /\ Wrote(s, "sign")
    /\ signatures' = [signatures EXCEPT ![job[s].actor] = @ + 1]
    /\ UNCHANGED <<status, versions, approvals, jobs>>

(***************************************************************************)
(* requestPdf, enqueuePdfJob: any status, any version there is             *)
(***************************************************************************)
RequestPdf(s, v) == Accept(s, [Request("pdf") EXCEPT !.seen = v], "loaded")

FindPdfJob(s) == Read(s, "pdf", jobs[job[s].seen] = 0, job[s].seen)

EnqueuePdfJob(s) ==
    /\ Wrote(s, "pdf")
    /\ jobs' = [jobs EXCEPT ![job[s].seen] = @ + 1]
    /\ UNCHANGED <<status, versions, approvals, signatures>>

-----------------------------------------------------------------------------
Audit(s) ==
    /\ pc[s] = "auditing"
    /\ pc' = [pc EXCEPT ![s] = "idle"]
    /\ UNCHANGED <<tables, job, raced>>

\* A statement fails or the process dies; what was written stays.
Abort(s) ==
    /\ pc[s] # "idle"
    /\ pc' = [pc EXCEPT ![s] = "idle"]
    /\ job' = [job EXCEPT ![s] = Request("none")]
    /\ UNCHANGED <<tables, raced>>

Next ==
    \E s \in Slots :
        \/ EditDocument(s) \/ FindLastVersion(s) \/ SaveVersion(s)
        \/ \E to \in Status : TransitionDocument(s, to)
        \/ CheckTransition(s) \/ SetDocumentStatus(s)
        \/ \E a \in Actors : SignDocument(s, a) \/ \E yes \in BOOLEAN : ApproveDocument(s, a, yes)
        \/ FindApproval(s) \/ RecordApproval(s)
        \/ ListSignatures(s) \/ RecordSignature(s)
        \/ \E v \in 1..versions : RequestPdf(s, v)
        \/ FindPdfJob(s) \/ EnqueuePdfJob(s)
        \/ Audit(s) \/ Abort(s)

Spec == Init /\ [][Next]_vars

-----------------------------------------------------------------------------
\* A document that is SIGNED or FINAL has a signature on file, however its
\* transitions overlap: a stale one can only repeat a status that was reached.
SignedHasSignature ==
    status \in {"SIGNED", "FINAL"} => \E a \in Actors : signatures[a] > 0

\* Concurrent requests can double what looks unique, never more than once per
\* handler under way: Approval and Signature rows of a user, jobs of a version.
DuplicatesBounded ==
    LET most == IF raced THEN Cardinality(Slots) ELSE 1
    IN  /\ \A a \in Actors : Len(approvals[a]) <= most /\ signatures[a] <= most
        /\ \A v \in 1..MaxVersions : jobs[v] <= most

\* Everything on file is what the schema allows and bounded by the overlap there was.
RowsBounded == TypeOK /\ DuplicatesBounded

\* Until two handlers overlap, a document that left review is frozen: it gets no
\* version and no approval any more, and its status only moves ahead.
FrozenAfterReview ==
    [][~raced /\ status \notin {"DRAFT", "IN_REVIEW"} =>
          /\ UNCHANGED <<versions, approvals>>
          /\ status' \notin {"DRAFT", "IN_REVIEW"}
          /\ status = "ARCHIVED" => status' = "ARCHIVED"]_vars
=============================================================================

----------------------------- MODULE InvoiceRows -----------------------------
(***************************************************************************)
(* The rows of the `invoices` collection (models/Invoice.ts) and the       *)
(* operations that touch one row in one atomic database command: an upload *)
(* or an ingestion run inserting it, the worker writing the outcome of an  *)
(* extraction over a PENDING row, and the updateMany commands behind the   *)
(* approve and retry buttons.  updateMany is atomic per document only, so  *)
(* a request for many ids is one step per id.                              *)
(*                                                                         *)
(* The parsed fields of an invoice are abstracted to what the code asks of *)
(* them: the set of fields that are missing, invalid or carry a risk flag  *)
(* (gaps), and the PATCH requests whose values are in the row (edits).     *)
(***************************************************************************)
EXTENDS Naturals

CONSTANTS
  Invoice,      \* identities (_id) of invoice rows; a deleted one never returns
  Field,        \* the ways a row can be incomplete: a missing or invalid
                \* field, or a risk flag such as a total above the maximum
  Amount,       \* no positive parsed.totalAmountMinor: no voucher without it
  InvoiceDate,  \* parsed.invoiceDate: the one required field the parser does
                \* not warn about
  Edit,         \* PATCH requests, each served at most once
  Export        \* export requests, each served at most once

ASSUME FieldAssumption == Amount \in Field /\ InvoiceDate \in Field

VARIABLES
  status,       \* "NONE" before the row is inserted, "DELETED" after deletion
  parsed,       \* the parsed fields, see above
  version,      \* mongoose's __v: only document.save() checks and bumps it
  approved,     \* is the `approval` subdocument present?
  exportInfo,   \* the `export` subdocument: absent, with the reference of the
                \* voucher, or with the error of an export that failed
  original      \* the uploaded file in object storage

rowVars == <<status, parsed, version, approved, exportInfo, original>>

Absent     == {"NONE", "DELETED"}
Reviewed   == {"PARSED", "NEEDS_REVIEW"}
Approvable == {"PARSED", "NEEDS_REVIEW", "FAILED_PARSE"}
Failed     == {"FAILED_OCR", "FAILED_PARSE"}
Status     == Absent \cup Reviewed \cup Failed
                \cup {"PENDING", "APPROVED", "EXPORTED"}

Parsed     == [gaps : SUBSET Field, edits : SUBSET Edit]
Unparsed   == [gaps |-> Field, edits |-> {}]
ExportInfo == {"absent", "reference", "error"}

RowsTypeOK ==
  /\ status \in [Invoice -> Status]
  /\ parsed \in [Invoice -> Parsed]
  /\ version \in [Invoice -> Nat]
  /\ approved \in [Invoice -> BOOLEAN]
  /\ exportInfo \in [Invoice -> ExportInfo]
  /\ original \in [Invoice -> {"none", "stored", "removed"}]

RowsInit ==
  /\ status = [i \in Invoice |-> "NONE"]
  /\ parsed = [i \in Invoice |-> Unparsed]
  /\ version = [i \in Invoice |-> 0]
  /\ approved = [i \in Invoice |-> FALSE]
  /\ exportInfo = [i \in Invoice |-> "absent"]
  /\ original = [i \in Invoice |-> "none"]

Exists(i) == status[i] \notin Absent

(***************************************************************************)
(* What a run of the extraction pipeline may decide for a document that    *)
(* was read: PARSED only if nothing warned, and a missing invoice number,  *)
(* vendor, currency or total warns while a missing invoice date does not;  *)
(* NEEDS_REVIEW in every other case, and it may be cautious.               *)
(***************************************************************************)
Assessment(st, gaps) ==
  /\ st \in Reviewed
  /\ gaps \subseteq Field
  /\ st = "PARSED" => gaps \subseteq {InvoiceDate}

(* The worker writes the outcome of an extraction: parsed fields and their *)
(* assessment, or a failure, which leaves `parsed` alone.                  *)
Outcome(i) ==
  \/ \E st \in Reviewed, g \in SUBSET Field :
       /\ Assessment(st, g)
       /\ status' = [status EXCEPT ![i] = st]
       /\ parsed' = [parsed EXCEPT ![i] = [gaps |-> g, edits |-> {}]]
  \/ \E st \in Failed :
       /\ status' = [status EXCEPT ![i] = st]
       /\ UNCHANGED parsed

(***************************************************************************)
(* POST /jobs/upload: the file goes to object storage and a PENDING row is *)
(* inserted for it.                                                        *)
(***************************************************************************)
Upload(i) ==
  /\ status[i] = "NONE"
  /\ status' = [status EXCEPT ![i] = "PENDING"]
  /\ original' = [original EXCEPT ![i] = "stored"]
  /\ UNCHANGED <<parsed, version, approved, exportInfo>>

(***************************************************************************)
(* The worker inserts a row for a file that has no PENDING row: a mail or  *)
(* folder file (no stored original), or an uploaded object whose row is    *)
(* missing.                                                                *)
(***************************************************************************)
Ingest(i) ==
  /\ status[i] = "NONE"
  /\ Outcome(i)
  /\ \E o \in {"none", "stored"} : original' = [original EXCEPT ![i] = o]
  /\ UNCHANGED <<version, approved, exportInfo>>

(***************************************************************************)
(* The worker finishes a document whose row is still PENDING at the moment *)
(* of the findOneAndUpdate.  The approval and export subdocuments and __v  *)
(* always stay as they are.                                                *)
(***************************************************************************)
Reprocess(i) ==
  /\ status[i] = "PENDING"
  /\ Outcome(i)
  /\ UNCHANGED <<version, approved, exportInfo, original>>

ApproveUnrecorded(i) ==   \* mutant of Approve: no approval subdocument
  /\ status[i] \in Approvable
  /\ status' = [status EXCEPT ![i] = "APPROVED"]
  /\ UNCHANGED <<approved, parsed, version, exportInfo, original>>

(* POST /invoices/approve *)
Approve(i) ==
  /\ status[i] \in Approvable
  /\ status' = [status EXCEPT ![i] = "APPROVED"]
  /\ approved' = [approved EXCEPT ![i] = TRUE]
  /\ UNCHANGED <<parsed, version, exportInfo, original>>

RetryAny(i) ==   \* mutant of Retry: without $ne EXPORTED
  /\ Exists(i)
  /\ status' = [status EXCEPT ![i] = "PENDING"]
  /\ UNCHANGED <<parsed, version, approved, exportInfo, original>>

(* POST /invoices/retry *)
Retry(i) ==
  /\ Exists(i)
  /\ status[i] # "EXPORTED"
  /\ status' = [status EXCEPT ![i] = "PENDING"]
  /\ UNCHANGED <<parsed, version, approved, exportInfo, original>>

RowsNext == \E i \in Invoice :
  Upload(i) \/ Ingest(i) \/ Reprocess(i) \/ Approve(i) \/ Retry(i)

==============================================================================

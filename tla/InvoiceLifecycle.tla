--------------------------- MODULE InvoiceLifecycle ---------------------------
(***************************************************************************)
(* The life of an invoice: ingestion, review and export acting on the same *)
(* rows with no lock between them.  Composes InvoiceRows, InvoiceReview    *)
(* and InvoiceExport.                                                      *)
(***************************************************************************)
EXTENDS InvoiceReview, InvoiceExport

vars == <<rowVars, reviewVars, exportVars>>

Init == RowsInit /\ ReviewInit /\ ExportInit

Next ==
  \/ RowsNext /\ UNCHANGED <<reviewVars, exportVars>>
  \/ ReviewNext /\ UNCHANGED exportVars
  \/ ExportNext /\ UNCHANGED reviewVars

Spec == Init /\ [][Next]_vars

TypeOK == RowsTypeOK /\ ReviewTypeOK /\ ExportTypeOK

(***************************************************************************)
(* A PATCH that saved over an EXPORTED row and wrote the status path: the  *)
(* one way out of EXPORTED.                                                *)
(***************************************************************************)
Reopened(i) ==
  \E e \in Edit : /\ edit[e].inv = i /\ edit[e].pc = "saved"
                  /\ edit[e].reopened

(***************************************************************************)
(* A row is EXPORTED only if somebody approved it and an export request    *)
(* that recorded its batch issued a voucher for it and was told so.        *)
(***************************************************************************)
ExportedIsBacked ==
  \A i \in Invoice : status[i] = "EXPORTED" =>
    /\ approved[i]
    /\ \E x \in Export : xp[x].batch /\ i \in xp[x].issued \cap xp[x].ok

(***************************************************************************)
(* No voucher leaves the system for an invoice nobody approved, whatever   *)
(* retry, PATCH, delete and the worker do between selection and posting.   *)
(***************************************************************************)
IssuedWasApproved ==
  \A i \in Invoice, x \in Export : i \in xp[x].issued => approved[i]

(***************************************************************************)
(* Once an export has marked a row EXPORTED it stays EXPORTED for good:    *)
(* approve, retry, delete, the worker and later exports leave it alone,    *)
(* and the only exception is a PATCH loaded before (Reopened).  So a       *)
(* marked row is never selected for a second voucher by any other route.   *)
(***************************************************************************)
RecordedStaysExported ==
  \A i \in Invoice : (\E x \in Export : i \in xp[x].saved) =>
    status[i] = "EXPORTED" \/ Reopened(i)

(***************************************************************************)
(* A PATCH can put back a status only if it loaded the row before the      *)
(* approval: one loaded from an APPROVED row keeps its hands off.          *)
(***************************************************************************)
ReopenedBeforeApproval ==
  [][\A i \in Invoice :
       (status[i] \in {"APPROVED", "EXPORTED"} /\ status'[i] \in Reviewed) =>
         \E e \in Edit :
           /\ edit[e].inv = i /\ edit[e].pc = "loaded" /\ edit'[e].pc = "saved"
           /\ edit[e].status \notin {"APPROVED", "EXPORTED"}]_vars

(***************************************************************************)
(* Two PATCHes of one invoice: the second to save has seen the first, or   *)
(* is refused with a VersionError.  No accepted edit is overwritten by an  *)
(* editor who had not seen it.                                             *)
(***************************************************************************)
NoUnseenEdit ==
  [][\A e \in Edit :
       edit[e].pc = "loaded" /\ edit'[e].pc = "saved" =>
         parsed[edit[e].inv].edits \subseteq edit[e].parsed.edits]_vars

(***************************************************************************)
(* PARSED is earned: the row lacks nothing but possibly an invoice date.   *)
(* The status and the fields of a row come from different writers, the     *)
(* worker, and PATCHes that each computed both from the copy they loaded   *)
(* and may write only one of them; what a retry and the worker did to the  *)
(* row while the PATCH was open raises no __v.  The exception is a PATCH   *)
(* that wrote one half over another half than it had seen (mixed).         *)
(***************************************************************************)
ParsedIsComplete ==
  \A i \in Invoice : status[i] = "PARSED" =>
    \/ parsed[i].gaps \subseteq {InvoiceDate}
    \/ \E e \in Edit : edit[e].inv = i /\ edit[e].mixed

(***************************************************************************)
(* deleteInvoices asks for the rows twice, to collect the storage keys and *)
(* to delete, and removes the objects of the first answer.  A row that is  *)
(* still there can have lost its original only to an export that marked it *)
(* in between; a retry, an approval or a second delete in between is safe. *)
(***************************************************************************)
OriginalIsKept ==
  \A i \in Invoice : Exists(i) /\ original[i] = "removed" =>
    \E x \in Export : i \in xp[x].saved

(***************************************************************************)
(* The lifecycle implements the workflow: an export request issues a       *)
(* voucher and marks a row long after it looked at them, and still only    *)
(* approved invoices are issued and only issued ones marked.               *)
(***************************************************************************)
EverApproved == {i \in Invoice : approved[i]}
EverIssued   == {i \in Invoice : \E x \in Export : i \in xp[x].issued}

Workflow == INSTANCE InvoiceWorkflow WITH
  approved <- EverApproved, issued <- EverIssued

ImplementsWorkflow == Workflow!Spec

==============================================================================

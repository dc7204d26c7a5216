--------------------------- MODULE InvoiceWorkflow ---------------------------
(***************************************************************************)
(* What the invoice workflow promises once requests, retries, failures and *)
(* the worker are taken away: who may move an invoice between the statuses *)
(* of models/Invoice.ts, what was ever approved, and what was ever issued  *)
(* to the accounting system.  A voucher needs an approval, at any time     *)
(* before it; EXPORTED needs a voucher, at any time before it.  A          *)
(* correction may move an invoice from any status back to review, EXPORTED *)
(* included: that is as much as the code guarantees.                       *)
(***************************************************************************)
CONSTANT Invoice

VARIABLES
  status,     \* of each invoice
  approved,   \* the invoices that were approved at least once
  issued      \* the invoices a voucher was issued for

vars == <<status, approved, issued>>

Outcome == {"PARSED", "NEEDS_REVIEW", "FAILED_OCR", "FAILED_PARSE"}
Present(i) == status[i] \notin {"NONE", "DELETED"}

Move(i, st) == status' = [status EXCEPT ![i] = st]

Init ==
  /\ status = [i \in Invoice |-> "NONE"]
  /\ approved = {}
  /\ issued = {}

Arrive(i) ==
  /\ status[i] = "NONE"
  /\ \E st \in Outcome \cup {"PENDING"} : Move(i, st)
  /\ UNCHANGED <<approved, issued>>

Settle(i) ==
  /\ status[i] = "PENDING"
  /\ \E st \in Outcome : Move(i, st)
  /\ UNCHANGED <<approved, issued>>

Retry(i) ==
  /\ Present(i) /\ status[i] # "EXPORTED"
  /\ Move(i, "PENDING")
  /\ UNCHANGED <<approved, issued>>

Correct(i) ==
  /\ Present(i)
  /\ \E st \in {"PARSED", "NEEDS_REVIEW"} : Move(i, st)
  /\ UNCHANGED <<approved, issued>>

Approve(i) ==
  /\ status[i] \in {"PARSED", "NEEDS_REVIEW", "FAILED_PARSE"}
  /\ Move(i, "APPROVED")
  /\ approved' = approved \cup {i}
  /\ UNCHANGED issued

Remove(i) ==
  /\ Present(i) /\ status[i] # "EXPORTED"
  /\ Move(i, "DELETED")
  /\ UNCHANGED <<approved, issued>>

Issue(some) ==
  /\ some \subseteq approved
  /\ issued' = issued \cup some
  /\ UNCHANGED <<status, approved>>

Record(i) ==
  /\ Present(i)
  /\ i \in issued
  /\ Move(i, "EXPORTED")
  /\ UNCHANGED <<approved, issued>>

Next ==
  \/ \E i \in Invoice :
       \/ Arrive(i) \/ Settle(i) \/ Retry(i) \/ Correct(i)
       \/ Approve(i) \/ Remove(i) \/ Record(i)
  \/ \E some \in SUBSET Invoice : Issue(some)

Spec == Init /\ [][Next]_vars

==============================================================================

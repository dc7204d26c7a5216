------------------------------ MODULE Vouchers -------------------------------
(***************************************************************************)
(* What a parsed invoice becomes on its way out: what the parser read in   *)
(* its text, the corrections of reviewers (PATCH /api/invoices/:id), the   *)
(* preview the dashboard shows them (getInvoiceTallyMappings), and the     *)
(* purchase voucher TallyExporter builds, written apart from the preview.  *)
(* When a row may be edited and exported is in InvoiceReview and           *)
(* InvoiceExport; here the contents are.                                   *)
(*                                                                         *)
(* A row has the fields of ParseInvoiceText, total in minor units, 0 if    *)
(* there is none.  An XML amount is a sign, whole units and the digits     *)
(* behind the point.  An invoice arrives at an instant, which is one day   *)
(* where the server runs and may be another where the browser does.        *)
(***************************************************************************)
EXTENDS InvoiceText, FiniteSetsExt

CONSTANTS
  Typed,      \* totals a reviewer types, in hundredths of the currency's unit;
              \* 0 for null
  Currencies, \* currencies a reviewer enters
  Arrivals,   \* the days of an arrival: records of server and browser
  MaxEdits    \* bound: corrections of the invoice

(* normalizeNullableMajorAmount lets nothing but a positive number or null *)
(* pass.                                                                   *)
ASSUME TypedAssumption == Typed \subseteq Nat

VARIABLES
  text,     \* the lines of the invoice
  received, \* the day it arrived, for the server and for the browser
  row,      \* its parsed fields
  edits,    \* number of corrections
  typed,    \* history: the total the last correction of total or currency typed, or 0
  voucher   \* the voucher issued, or Unissued

vars == <<text, received, row, edits, typed, voucher>>

NoGst == [subtotal |-> 0, taxes |-> << >>]

Absolute(a) == IF a < 0 THEN -a ELSE a

(* minorUnitsToMajorString, of the backend and of the dashboard *)
Major(a, currency) ==
  [minus    |-> a < 0,
   units    |-> Absolute(a) \div 10^Digits(currency),
   fraction |-> Absolute(a) % 10^Digits(currency),
   digits   |-> Digits(currency)]

(* resolveInvoiceTotalAmountMinor: the totals to issue a voucher for, one  *)
(* or none.  What is not a positive amount is read again from the text,    *)
(* and that may be 0: an amount of less than half a yen is.                *)
ResolvedTotals(p, lines) ==
  IF p.total > 0 THEN {p.total}
  ELSE {ToMinorUnits(a, p.currency) : a \in {ExtractTotalAmount(lines)} \ {0}}

(* buildVoucherInput and buildVoucherElement, for a row known by id that   *)
(* arrived on a day.  The party is credited: the sign of its amount is     *)
(* negative.  A GST breakdown, where ledgers for it are configured, splits *)
(* the other side.                                                         *)
VoucherOf(p, gst, total, id, arrived) ==
  LET amount(a)   == Major(Absolute(a), p.currency)
      debit(l, a) == [ledger |-> l, amount |-> amount(a)]
      taxes       == {i \in DOMAIN gst.taxes : gst.taxes[i].amount > 0}
      purchase    == IF gst = NoGst \/ gst.subtotal = 0 THEN total ELSE gst.subtotal
  IN [number |-> IF p.number = None THEN id ELSE p.number,
      date   |-> IF p.date = NoDay THEN arrived ELSE p.date,
      credit |-> [ledger |-> IF p.vendor = None THEN "Unknown Vendor" ELSE p.vendor,
                  amount |-> [amount(total) EXCEPT !.minus = TRUE]],
      debits |-> {debit("purchase", purchase)}
                   \cup {debit(gst.taxes[i].ledger, gst.taxes[i].amount) : i \in taxes}]

(* getInvoiceTallyMappings *)
Preview(p, id, arrived) ==
  LET amount == Major(Absolute(p.total), p.currency)
  IN [number |-> IF p.number = None THEN id ELSE p.number,
      party  |-> IF p.vendor = None THEN "Unknown Vendor" ELSE p.vendor,
      date   |-> IF p.date = NoDay THEN arrived ELSE p.date,
      amounts |-> <<[amount EXCEPT !.minus = TRUE], amount>>]

Unissued == [number |-> None, date |-> NoDay, debits |-> {},
             credit |-> [ledger |-> None, amount |-> Major(0, None)]]

-----------------------------------------------------------------------------
Init ==
  /\ text \in Texts /\ received \in Arrivals
  /\ \E dayFirst \in BOOLEAN : row = ParseInvoiceText(text, dayFirst)
  /\ edits = 0 /\ typed = 0 /\ voucher = Unissued

(***************************************************************************)
(* updateInvoiceParsedFields: the fields a request gives, with None or 0   *)
(* for null, which deletes.  The currency is set first, then the total,    *)
(* given in minor units or in the units of the new currency.               *)
(***************************************************************************)
(* A bug: the amount is converted before the currency is set. *)
CorrectedEarly(p, c) ==
  LET q == [f \in DOMAIN p |-> IF f \in DOMAIN c \ {"total"} THEN c[f] ELSE p[f]]
  IN IF "total" \in DOMAIN c THEN [q EXCEPT !.total = ToMinorUnits(c.total, p.currency)]
     ELSE IF "minor" \in DOMAIN c THEN [q EXCEPT !.total = c.minor]
     ELSE q

Corrected(p, c) ==
  LET q == [f \in DOMAIN p |-> IF f \in DOMAIN c \ {"total"} THEN c[f] ELSE p[f]]
  IN IF "total" \in DOMAIN c THEN [q EXCEPT !.total = ToMinorUnits(c.total, q.currency)]
     ELSE IF "minor" \in DOMAIN c THEN [q EXCEPT !.total = c.minor]
     ELSE q

(* Requests of the dashboard and of other clients: one field, or the total *)
(* together with its currency.                                             *)
Corrections ==
  [number : {None, "C1"}] \cup [vendor : {None}] \cup [date : {NoDay}]
    \cup [currency : Currencies] \cup [total : Typed] \cup [minor : {0, 7}]
    \cup [currency : Currencies, total : Typed]

(* An exported row cannot be corrected. *)
Correct ==
  /\ voucher = Unissued
  /\ edits < MaxEdits
  /\ \E c \in Corrections :
       /\ row' = Corrected(row, c)
       /\ typed' = IF "total" \in DOMAIN c THEN c.total
                   ELSE IF {"currency", "minor"} \cap DOMAIN c # {} THEN 0 ELSE typed
  /\ edits' = edits + 1
  /\ UNCHANGED <<text, received, voucher>>

(* The total's cell in the list opens with a hundredth of the minor units, *)
(* whatever the currency, and Enter saves that.                            *)
SaveCell ==
  /\ voucher = Unissued
  /\ edits < MaxEdits
  /\ row.total > 0
  /\ row' = Corrected(row, [total |-> row.total])
  /\ typed' = 0
  /\ edits' = edits + 1
  /\ UNCHANGED <<text, received, voucher>>

(***************************************************************************)
(* exportApprovedInvoices and generateExportFile, with exportInvoices and  *)
(* generateImportFile: the service selects its rows without their texts,   *)
(* so that no total is ever read again, and without one there is no        *)
(* voucher.                                                                *)
(***************************************************************************)
Unselected == << >>

Export ==
  /\ voucher = Unissued
  /\ \E total \in ResolvedTotals(row, Unselected) :
       voucher' = VoucherOf(row, NoGst, total, "id", received.server)
  /\ UNCHANGED <<text, received, row, edits, typed>>

Next == Correct \/ SaveCell \/ Export

Spec == Init /\ [][Next]_vars

-----------------------------------------------------------------------------
(* However the amounts of other lines score, on whatever line and of       *)
(* whatever size they are, an amount of a plainly labelled total is read   *)
(* if there is one (extractTotalAmount): see PlainTotalLeads.              *)
PlainTotalWins == PlainTotalLeads(text)

ValueOf(amount) == amount.units * 10^amount.digits + amount.fraction

(* GST breakdowns of a total whose parts add up to it *)
Splits(total) ==
  {NoGst} \cup {[subtotal |-> total - 2 * t,
                 taxes    |-> <<[ledger |-> "cgst", amount |-> t],
                                [ledger |-> "sgst", amount |-> t]>>] : t \in {0, total \div 10}}

Balanced(v) == MapThenSumSet(LAMBDA d : ValueOf(d.amount), v.debits) = ValueOf(v.credit.amount)

(* Whatever the text, the currency and the corrections: a voucher is for   *)
(* more than nothing; it balances, and would with a GST breakdown that     *)
(* adds up; its number, party and amounts are those the dashboard's        *)
(* preview showed, and its date too, unless the row has none and the       *)
(* invoice arrived on different days here and there; and it is worth what  *)
(* the reviewer typed last, or, with no correction, what the text says, to *)
(* the last minor unit (exportApprovedInvoices, buildVoucherElement,       *)
(* tallyMapping.ts, updateInvoiceParsedFields, toMinorUnits).              *)
VoucherIsFaithful ==
  voucher # Unissued =>
    LET total == ValueOf(voucher.credit.amount)
        shown == Preview(row, "id", received.browser)
    IN /\ voucher.credit.amount.minus /\ \A d \in voucher.debits : ~d.amount.minus
       /\ total > 0 /\ Balanced(voucher)
       /\ \A gst \in Splits(total) : Balanced(VoucherOf(row, gst, total, "id", received.server))
       /\ shown.number = voucher.number /\ shown.party = voucher.credit.ledger
       /\ shown.amounts[1] = voucher.credit.amount
       /\ shown.date = voucher.date \/ (row.date = NoDay /\ received.server # received.browser)
       /\ typed > 0 => total = ToMinorUnits(typed, row.currency)
       /\ edits = 0 /\ ExtractTotalAmount(text) > 0 =>
            total = ToMinorUnits(ExtractTotalAmount(text), row.currency)

=============================================================================

--------------------------- MODULE ExtractionRules ---------------------------
(***************************************************************************)
(* The pure rules the extraction pipeline decides by: which reading of the *)
(* text it trusts, what makes the fields of an invoice valid, how sure it  *)
(* is of them, what a vendor template changes, what the language-model     *)
(* service may answer and how its answer is merged.                        *)
(*                                                                         *)
(* A value of a field is one of a few names, None if the field is absent:  *)
(*   number    A1, B1: a number with the letters A or B in front; a        *)
(*             template's prefix may come before it (AB1, BA1)             *)
(*   vendor    acme, zeta: names; label: a word such as "Invoice";         *)
(*             street, avenue: lines of an address                         *)
(*   currency  USD, with two decimals, or JPY, with none                   *)
(*   total     zero, fair or large, in minor units: see Minor              *)
(*   due       fine; early or long: before the invoice date or too long    *)
(*             after it; far: too many days from today; or both            *)
(***************************************************************************)
EXTENDS InvoiceText

CONSTANTS
  AutoSelectMin,     \* CONFIDENCE_AUTO_SELECT_MIN: a score to rely on
  AssistThreshold    \* LLM_ASSIST_CONFIDENCE_THRESHOLD: below it, ask again

ASSUME ScoreAssumption == AutoSelectMin \in 0..100 /\ AssistThreshold \in 0..100

Field == {"number", "vendor", "date", "due", "currency", "total"}
(* Amounts in minor units.  The expected maximum is 10 units of currency.  *)
Minor    == [none |-> 0, zero |-> 0, fair |-> 500, large |-> 5000]
MaxTotal == 10

Minimum(a, b)  == IF a <= b THEN a ELSE b
Maximum(a, b)  == IF a <= b THEN b ELSE a
(* Math.round(a / b) *)
RoundDiv(a, b) == (2 * a + b) \div (2 * b)

-----------------------------------------------------------------------------
(* A vendor that must be wrong.  Four patterns of the code overlap without *)
(* being equal: the pipeline's addresses and weak values, the addresses of *)
(* the validation, and the words the language-model service bans.          *)
Addresses           == {"street"}
LooksLikeAddress(v) == v \in Addresses
IsWeakVendor(v)     == v \in {"street", "label"}
AddressSignal(v)    == v \in {"street", "avenue"}
BannedVendors       == {"street", "label"}
Banned(v)           == v \in BannedVendors

(* A due date against the invoice date, and against today.  A date that is *)
(* too far away is so by more than seven weeks.                            *)
Early(due) == due \in {"early", "early far"}
Long(due)  == due \in {"long", "long far"}
Far(due)   == due \in {"far", "early far", "long far"}

(***************************************************************************)
(* validateInvoiceFields.  tax is the largest amount of a tax line of the  *)
(* text, precise whether its totals have at most two decimals.  The limit  *)
(* is taken in hundredths, whatever the currency.  Ingestion passes no     *)
(* reference date, so the invoice date is not compared with today.         *)
(***************************************************************************)
Issues(p, text) ==
  LET amount == Minor[p.total]
      paid   == p.total # None /\ amount > 0
      dated  == p.date # None
  IN {i \in {"no number", "no vendor", "address", "no currency", "no total",
             "above maximum", "tax above total", "precision", "due early",
             "due long"} :
        \/ i = "no number"       /\ p.number = None
        \/ i = "no vendor"       /\ p.vendor = None
        \/ i = "address"         /\ AddressSignal(p.vendor)
        \/ i = "no currency"     /\ p.currency = None
        \/ i = "no total"        /\ ~paid
        \/ i = "above maximum"   /\ paid /\ amount > 100 * MaxTotal
        \/ i = "tax above total" /\ paid /\ text.tax > amount
        \/ i = "precision"       /\ paid /\ ~text.precise
        \/ i = "due early"       /\ dated /\ Early(p.due)
        \/ i = "due long"        /\ dated /\ Long(p.due)}

(***************************************************************************)
(* assessRiskFlags: here the limit is taken in the currency's own minor    *)
(* units.                                                                  *)
(***************************************************************************)
Limit(p) == IF p.currency = "JPY" THEN MaxTotal ELSE 100 * MaxTotal

Risks(p) ==
  {r \in {"TOTAL_AMOUNT_ABOVE_EXPECTED", "DUE_DATE_TOO_FAR"} :
     \/ r = "TOTAL_AMOUNT_ABOVE_EXPECTED" /\ Minor[p.total] > Limit(p)
     \/ r = "DUE_DATE_TOO_FAR"            /\ Far(p.due)}

Penalty(p) ==
  LET over == Minor[p.total] - Limit(p)
  IN (IF over > 0 THEN Minimum(30, RoundDiv(15 * Limit(p) + 25 * over, Limit(p)))
                  ELSE 0)
     + (IF Far(p.due) THEN 20 ELSE 0)

(* assessInvoiceConfidence: the score of fields read with an OCR           *)
(* confidence of ocr percent, under a number of warnings.                  *)
Score(p, ocr, warnings) ==
  LET present  == {f \in Field \ {"due"} : p[f] # None}
      complete == 20 * Cardinality(present)
      raw      == RoundDiv(65 * ocr + 35 * complete, 100)
                    - Minimum(25, 4 * warnings) - Penalty(p)
  IN Maximum(0, Minimum(100, raw))

-----------------------------------------------------------------------------
(***************************************************************************)
(* runInvoiceExtractionAgent: every candidate text (the provider's text,   *)
(* the text of the blocks, the label-value pairs, ...) is parsed; the one  *)
(* with the best score is used.  A reading is what the parser makes of a   *)
(* candidate: the fields, its warnings, what else the text offers for a    *)
(* field (alt), and what the validation asks of the text itself.           *)
(***************************************************************************)
Rank(r, ocr) ==
  LET n == Cardinality(r.warnings)
  IN Score(r.parsed, ocr, n)
     + (IF r.parsed.total # None THEN 24 ELSE -18)
     + (IF r.parsed.number # None THEN 8 ELSE 0)
     + (IF r.parsed.vendor # None THEN 6 ELSE 0)
     + (IF r.parsed.currency # None THEN 4 ELSE 0)
     + (IF r.parsed.date # None THEN 4 ELSE 0)
     + (IF n = 0 THEN 4 ELSE -Minimum(18, 2 * n))
     - (IF r.short THEN 6 ELSE 0)

(* compareAttempts: is r sorted strictly before s? *)
Before(r, s, ocr) ==
  LET n(x)     == Cardinality(x.warnings)
      sure(x)  == Score(x.parsed, ocr, n(x))
      total(x) == x.parsed.total # None
      same     == Rank(r, ocr) = Rank(s, ocr)
      close    == same /\ sure(r) = sure(s)
      equal    == close /\ total(r) = total(s)
  IN \/ Rank(r, ocr) > Rank(s, ocr)
     \/ same  /\ sure(r) > sure(s)
     \/ close /\ total(r) /\ ~total(s)
     \/ equal /\ n(r) < n(s)
     \/ equal /\ n(r) = n(s) /\ ~r.short /\ s.short

(* The candidates the sort may leave in front. *)
Best(readings, ocr) ==
  {r \in readings : \A s \in readings : ~Before(s, r, ocr)}

-----------------------------------------------------------------------------
(***************************************************************************)
(* Vendor templates.  A number's letters become the template's prefix, and *)
(* a number that does not start with the prefix gets it put in front.      *)
(***************************************************************************)
Prefix == [none |-> None, A1 |-> "A", B1 |-> "B", AB1 |-> "A", BA1 |-> "B"]

Prefixed(prefix, number) ==
  IF prefix = None \/ number = None \/ Prefix[number] = prefix THEN number
  ELSE IF prefix = "A" THEN "AB1" ELSE "BA1"

(* templateFromParsed; there is none without a vendor *)
TemplateOf(p) == [vendor |-> p.vendor, currency |-> p.currency,
                  prefix |-> Prefix[p.number]]

ApplyTemplate(t, p) ==
  [p EXCEPT !.vendor   = IF @ = None \/ IsWeakVendor(@) THEN t.vendor ELSE @,
            !.currency = IF @ = None THEN t.currency ELSE @,
            !.number   = Prefixed(t.prefix, @)]

-----------------------------------------------------------------------------
(***************************************************************************)
(* What the language-model service is offered for a field: the parsed      *)
(* value, the template's and the other matches of the text, unless there   *)
(* is just the value that is already there.  An empty offer allows any     *)
(* value.                                                                  *)
(***************************************************************************)
Offered == {"number", "vendor", "currency", "total"}

Offers(reading, p, template) ==
  LET fromTemplate(f) == IF f \in {"vendor", "currency"}
                           THEN {template[f]} ELSE {}
      all(f) == {v \in {p[f]} \cup reading.alt[f] \cup fromTemplate(f) :
                   v # None /\ ~(f = "vendor" /\ LooksLikeAddress(v))}
  IN [f \in Offered |->
        IF Cardinality(all(f)) > 1 \/ p[f] = None THEN all(f) ELSE {}]

(* A bug: the offers are not consulted. *)
AllowedAny(f, v, offers) == TRUE

Allowed(f, v, offers) ==
  f \in Offered => (offers[f] = {} \/ v \in offers[f])

(* validate_selected_values: what is kept of the fields a model selected;  *)
(* None where it selected nothing or nothing acceptable.                   *)
Validated(selected, offers) ==
  [f \in Field |->
     LET v == selected[f]
     IN IF /\ Allowed(f, v, offers)
           /\ ~(f = "vendor" /\ Banned(v))
           /\ ~(f = "total" /\ Minor[v] = 0)
          THEN v ELSE None]

(* A relaxed pass takes every value of the answer. *)
Overwrite(p, answer) ==
  [f \in Field |-> IF answer[f] = None THEN p[f] ELSE answer[f]]

(* A strict pass fills what is missing, and replaces a total that is not   *)
(* positive and a vendor among suspects by one that is not.                *)
Fill(p, answer, suspects) ==
  [f \in Field |->
     IF \/ p[f] = None
        \/ f = "vendor" /\ p[f] \in suspects /\ answer[f] \notin suspects
        \/ f = "total" /\ Minor[p[f]] = 0 /\ Minor[answer[f]] > 0
       THEN (IF answer[f] = None THEN p[f] ELSE answer[f])
       ELSE p[f]]

(* apply_mode of the service, and mergeParsedWithVerification of the       *)
(* pipeline, which merges the service's result once more.                  *)
ApplyMode(mode, p, answer) ==
  IF mode = "relaxed" THEN Overwrite(p, answer) ELSE Fill(p, answer, BannedVendors)

MergeParsed(mode, p, answer) ==
  IF mode = "relaxed" THEN Overwrite(p, answer)
                      ELSE Fill(p, answer, Addresses)

(* repair_vendor_name: the vendors that may stand after a merge *)
Repaired(p, offers) ==
  LET names == {v \in offers["vendor"] : ~Banned(v)}
      fine  == p.vendor # None /\ ~Banned(p.vendor)
  IN IF fine \/ names = {} THEN {p}
     ELSE {[p EXCEPT !.vendor = v] : v \in names}

(***************************************************************************)
(* heuristic_select, used when there is no model answer: a number and a    *)
(* vendor of the candidates (the longest, the best placed), the first      *)
(* currency and the largest total; a strict pass does not move a total     *)
(* that is there by more than a twentieth.                                 *)
(***************************************************************************)
HeuristicSelections(mode, p, offers) ==
  LET orNone(S)  == IF S = {} THEN {None} ELSE S
      totals     == {v \in offers["total"] : Minor[v] > 0}
      largest    == {v \in totals : \A w \in totals : Minor[w] <= Minor[v]}
      keep       == mode = "strict" /\ p.total # None /\ Minor[p.total] > 0
      currencies == IF p.currency \in offers["currency"] THEN {p.currency}
                                                         ELSE offers["currency"]
      choices    == [number   : orNone(offers["number"]),
                     vendor   : orNone({v \in offers["vendor"] : ~Banned(v)}),
                     currency : orNone(currencies),
                     total    : orNone(largest)]
  IN {[f \in Field |->
         IF f \notin Offered THEN None
         ELSE IF f = "total" /\ keep /\ totals # {} THEN p.total
         ELSE choice[f]] : choice \in choices}

(* What the service remarks on its result, besides the model's own issues. *)
Remarks(p) ==
  {i \in {"unrecovered number", "unrecovered total", "unrecovered currency",
          "address-like"} :
     \/ i = "unrecovered number"   /\ p.number = None
     \/ i = "unrecovered total"    /\ p.total = None
     \/ i = "unrecovered currency" /\ p.currency = None
     \/ i = "address-like"         /\ p.vendor = "street"}

(***************************************************************************)
(* POST /verify/invoice.  selected is what the model selected, None where  *)
(* it selected nothing; without a model (it failed to load or raised) the  *)
(* heuristic selection is all there is.  A result says who gave the        *)
(* selection that was used: the model, the candidates, or nobody.          *)
(***************************************************************************)
WithModel(mode, p, offers, selected, remarks, who) ==
  LET valid == Validated(selected, offers)
  IN {[parsed |-> q, issues |-> remarks \cup Remarks(q), answered |-> who] :
        q \in Repaired(ApplyMode(mode, p, valid), offers)}

WithoutModel(mode, p, offers, issues) ==
  {[parsed   |-> ApplyMode(mode, p, s),
    issues   |-> issues \cup {"heuristic fallback"} \cup Remarks(ApplyMode(mode, p, s)),
    answered |-> None] : s \in HeuristicSelections(mode, p, offers)}

NothingSelected(selected, offers) ==
  \A f \in Field : Validated(selected, offers)[f] = None

SelectWithFallback(mode, p, offers, selected, remarks, who) ==
  IF NothingSelected(selected, offers)
    THEN WithoutModel(mode, p, offers, remarks \cup {"no valid selection"})
    ELSE WithModel(mode, p, offers, selected, remarks, who)

(***************************************************************************)
(* recover_payload_from_candidates.  A model that answers neither of two   *)
(* prompts with JSON, or names no candidate, is answered for: the service  *)
(* selects the first candidate of each field, which is the value parsed,   *)
(* then the template's, and remarks nothing unless it has no candidate.    *)
(***************************************************************************)
FirstCandidates(read, template, offers) ==
  LET first(f) == IF f \notin Offered \/ offers[f] = {} THEN {None}
                  ELSE IF read[f] \in offers[f] THEN {read[f]}
                  ELSE IF f \in {"vendor", "currency"} /\ template[f] \in offers[f]
                    THEN {template[f]}
                  ELSE offers[f]
  IN {[f \in Field |-> choice[f]] :
        choice \in [number : first("number"), vendor : first("vendor"), date : {None},
                    due : {None}, currency : first("currency"), total : first("total")]}

Guessed(mode, p, offers, firsts) ==
  UNION {SelectWithFallback(mode, p, offers, s,
           IF \A f \in Field : s[f] = None THEN {"invalid json"} ELSE {},
           "candidates") : s \in firsts}

=============================================================================

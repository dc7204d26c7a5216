---------------------------- MODULE MCExtraction -----------------------------
(* A small instance of Extraction: two documents with one fingerprint, of  *)
(* one tenant or of two; a good text and a poor one, read by the parser; a *)
(* model that selects a vendor that is an address, a currency that is      *)
(* offered by no text, or the number of the other one.                     *)
EXTENDS Extraction, TLC

CONSTANTS j1, j2, t1, t2, p

MCDocuments == {[j \in Job |-> [tenant |-> t1, print |-> p]],
                (j1 :> [tenant |-> t1, print |-> p]) @@ (j2 :> [tenant |-> t2, print |-> p])}

Five          == [groups |-> <<DigitGroup(5, 1)>>, marks |-> << >>]
Number(n)     == [text |-> n, size |-> 4, digits |-> TRUE, blocked |-> FALSE]
Name(n, kind) == [text |-> n, kind |-> kind]

(* A reading of the text, with the values of ExtractionRules; alt is what  *)
(* else the text offers.                                                   *)
Read(parsed, warnings, alt) ==
  [parsed |-> parsed, warnings |-> warnings, alt |-> alt,
   tax |-> 0, precise |-> TRUE, short |-> FALSE]

Good == Read([number |-> "A1", vendor |-> "acme", date |-> "given", due |-> None,
              currency |-> "USD", total |-> "fair"], {},
             [number |-> {"A1", "B1"}, vendor |-> {"avenue"}, currency |-> {"USD"}, total |-> {"fair"}])
Poor == Read([number |-> "B1", vendor |-> "street", date |-> "given", due |-> None,
              currency |-> None, total |-> None], {"no currency", "no total"},
             [number |-> {"A1"}, vendor |-> {"zeta"}, currency |-> {}, total |-> {"large"}])

(* They are what the parser makes of these texts. *)
Dated    == [Blank EXCEPT !.when = "date", !.date = [first |-> 13, second |-> 4]]
GoodText == <<[Dated EXCEPT !.name = Name("acme", "company")],
              [Blank EXCEPT !.pattern = 1, !.token = Number("A1")],
              [Blank EXCEPT !.label = "strong", !.amounts = {Five}, !.code = "USD", !.money = TRUE]>>
PoorText == <<[Dated EXCEPT !.name = Name("street", "street")],
              [Blank EXCEPT !.hint = TRUE, !.token = Number("B1")]>>

Parsed(lines) ==
  LET r == ParseInvoiceText(lines, FALSE)
      given(d, v) == IF d = NoDay THEN None ELSE v
  IN [parsed |-> [number |-> r.number, vendor |-> r.vendor, currency |-> r.currency,
                  date |-> given(r.date, "given"), due |-> given(r.due, "fine"),
                  total |-> IF r.total = 0 THEN None ELSE IF r.total <= 500 THEN "fair" ELSE "large"],
      warnings |-> r.warnings]

ASSUME ReadingsAreParsed ==
  \A c \in {<<Good, GoodText>>, <<Poor, PoorText>>} :
    Parsed(c[2]) = [parsed |-> c[1].parsed, warnings |-> c[1].warnings]

MCReadings == [j \in Job |-> {Good, Poor}]

Choice(n, v, c) ==
  [selected |-> [number |-> n, vendor |-> v, date |-> None, due |-> None, currency |-> c,
                 total |-> None], issues |-> {}]
MCPayloads == {Choice(None, "avenue", None), Choice(None, None, "JPY"), Choice("B1", None, None)}
=============================================================================

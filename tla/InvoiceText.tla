---------------------------- MODULE InvoiceText ------------------------------
(***************************************************************************)
(* parseInvoiceText: what the parser reads in the text of an invoice.      *)
(*                                                                         *)
(* A text is a sequence of lines.  A line is what the parser's patterns    *)
(* find in it (see Blank): which total label it carries, its amounts, the  *)
(* word that may be a number, the name that may be a vendor, and so on.    *)
(***************************************************************************)
EXTENDS Integers, Sequences, FiniteSets

CONSTANT Texts   \* texts of invoices: sequences of lines

(* A text is finite, and so are the amounts on a line of it.               *)
ASSUME TextAssumption ==
  \A lines \in Texts : /\ Len(lines) \in Nat /\ DOMAIN lines = 1..Len(lines)
                       /\ \A i \in DOMAIN lines : IsFiniteSet(lines[i].amounts)

None == "none"

NoToken == [text |-> None, size |-> 0, digits |-> FALSE, blocked |-> FALSE]
NoName  == [text |-> None, kind |-> "blocked"]
NoDate  == [first |-> 0, second |-> 0]
NoDay   == [month |-> 0, day |-> 0]

Blank ==
  [label    |-> None,     \* of a total: "strong", "weak" or None
   negative |-> FALSE,    \* "subtotal", "tax", "discount", "paid", ...
   percent  |-> FALSE,
   size     |-> 7,        \* its characters
  money    |-> FALSE,    \* a currency sign or code
  decimal  |-> FALSE,    \* a point or comma with one or two digits behind it
   amounts  |-> {},       \* amount tokens: see ParseAmountToken
   pattern  |-> 0,        \* the number pattern it matches, in order; 0: none
   hint     |-> FALSE,    \* speaks of an invoice
   no       |-> FALSE,    \* begins with "No:"
   token    |-> NoToken,  \* the first word that may be a number
   prefix   |-> FALSE,    \* begins with "Vendor", "Sold by", ...
   hotel    |-> FALSE,    \* "Hotel details"
   name     |-> NoName,   \* what is left of it as a name
   code     |-> None, rupees |-> FALSE, symbol |-> None,
   when     |-> None,     \* label of its date: "date", "due date", "payment due"
   date     |-> NoDate]   \* a date written first/second/year

Least(S) == CHOOSE i \in S : \A k \in S : i <= k

-----------------------------------------------------------------------------
(***************************************************************************)
(* Amounts, in hundredths; 0 if the token is not a number.  A token is     *)
(* groups of digits and the marks between them.  The last mark is decimal  *)
(* if there are commas and dots, or if at most two digits follow it.       *)
(***************************************************************************)
DigitGroup(digits, size) == [digits |-> digits, size |-> size]

WholeOf(groups) ==
  LET upTo[i \in 0..Len(groups)] ==
        IF i = 0 THEN 0 ELSE upTo[i - 1] * 10^groups[i].size + groups[i].digits
  IN upTo[Len(groups)]

ParseAmountToken(t) ==
  LET n        == Len(t.groups)
      fraction == t.groups[n]
      Count(m) == Cardinality({i \in DOMAIN t.marks : t.marks[i] = m})
      mixed    == Count(",") > 0 /\ Count(".") > 0
      decimal  == \/ mixed
                  \/ Count(",") > 0 /\ fraction.size <= 2
                  \/ Count(".") > 1 /\ fraction.size <= 2
                  \/ Count(".") = 1 /\ fraction.size # 3
      cents    == CASE fraction.size = 1 -> 10 * fraction.digits
                    [] fraction.size = 2 -> fraction.digits
                    [] OTHER             -> (fraction.digits + 5) \div 10
  IN IF n = 1 THEN 100 * fraction.digits
     ELSE IF mixed /\ Count(t.marks[n - 1]) > 1 THEN 0
     ELSE IF decimal THEN 100 * WholeOf(SubSeq(t.groups, 1, n - 1)) + cents
     ELSE 100 * WholeOf(t.groups)

(* extractAmountValuesFromLine *)
AmountsOf(line) == {ParseAmountToken(t) : t \in line.amounts} \cap (Nat \ {0})

Integral(a) == a % 100 = 0

(* scoreAmountMagnitude *)
MagnitudeScore(a) ==
    (IF Integral(a) THEN 0 ELSE 6)
  - (IF Integral(a) /\ a >= 190000 /\ a <= 210000 THEN 18 ELSE 0)
  - (IF Integral(a) /\ a >= 10000000 THEN 25 ELSE 0)
  - (IF a >= 100000000 THEN 8 ELSE 0)
  + (IF a >= 1000000 THEN 6 ELSE IF a >= 10000 THEN 4 ELSE IF a >= 100 THEN 1 ELSE -5)

(* lineIndex >= Math.floor(totalLines * 0.6), with lines counted from 1 *)
LateScore(i, n) == IF i - 1 >= (6 * n) \div 10 THEN 8 ELSE 0

(* A bug: a subtotal or a tax line is as good as a total. *)
LabelScoreUnsigned(line, i, n) ==
  (IF line.label = "strong" THEN 120 ELSE IF line.label = "weak" THEN 55 ELSE 0)
  + (IF line.negative THEN 85 ELSE 0) + LateScore(i, n)

(* scoreLineForLabeledAmount *)
LabelScore(line, i, n) ==
    (IF line.label = "strong" THEN 120 ELSE IF line.label = "weak" THEN 55 ELSE 0)
  - (IF line.negative THEN 85 ELSE 0)
  + (IF line.money THEN 6 ELSE 0) + LateScore(i, n)
  - (IF line.percent THEN 12 ELSE 0)

(* The amounts of a labelled line stand on it or else on the next one. *)
AmountsFor(lines, i) ==
  IF AmountsOf(lines[i]) # {} \/ i = Len(lines) THEN AmountsOf(lines[i])
                                                ELSE AmountsOf(lines[i + 1])

Labelled(lines) ==
  UNION {{[amount |-> a, line |-> i,
           score  |-> LabelScore(lines[i], i, Len(lines)) + MagnitudeScore(a)] :
            a \in AmountsFor(lines, i)} :
         i \in {k \in DOMAIN lines : /\ lines[k].label # None
                                     /\ LabelScore(lines[k], k, Len(lines)) > 0}}

(* hasMonetaryContext *)
Monetary(line) == line.money \/ line.decimal \/ \E a \in AmountsOf(line) : ~Integral(a)

Unlabelled(lines) ==
  UNION {{[amount |-> a, line |-> i, score |-> LateScore(i, Len(lines)) + MagnitudeScore(a)] :
            a \in AmountsOf(lines[i])} :
         i \in {k \in DOMAIN lines : /\ ~lines[k].negative
                                     /\ lines[k].label # None \/ Monetary(lines[k])}}

(* pickBestAmountCandidate: the best score, then the larger amount, then   *)
(* the later line.                                                         *)
Ahead(c, d) ==
  \/ c.score > d.score
  \/ c.score = d.score /\ c.amount > d.amount
  \/ c.score = d.score /\ c.amount = d.amount /\ c.line > d.line

Leading(candidates) == {c \in candidates : \A d \in candidates : ~Ahead(d, c)}

(* extractTotalAmount; 0 if there is none *)
ExtractTotalAmount(lines) ==
  LET from == IF Labelled(lines) # {} THEN Labelled(lines) ELSE Unlabelled(lines)
  IN IF from = {} THEN 0 ELSE (CHOOSE c \in Leading(from) : TRUE).amount

-----------------------------------------------------------------------------
(* isLikelyInvoiceNumber *)
Likely(t) == t.size >= 3 /\ ~t.blocked /\ (t.digits \/ t.size >= 6)

(* extractInvoiceNumber: the first pattern that matches anywhere, then a   *)
(* line that speaks of an invoice or the line after it, then a line that   *)
(* begins with "No:", with the lines around it.                            *)
ExtractInvoiceNumber(lines) ==
  LET n         == Len(lines)
      patterns  == {lines[i].pattern : i \in DOMAIN lines} \ {0}
      direct    == lines[Least({i \in DOMAIN lines : lines[i].pattern = Least(patterns)})].token
      token(i)  == IF i \in DOMAIN lines /\ Likely(lines[i].token) THEN lines[i].token.text
                                                                    ELSE None
      own(i, j) == IF token(i) # None THEN token(i) ELSE token(j)
      hinted    == {i \in DOMAIN lines : lines[i].hint /\ own(i, i + 1) # None}
      above(i)  == IF i > 1 /\ lines[i - 1].when \in {"date", "due date"} THEN token(i - 2) ELSE token(i - 1)
      below(i)  == IF i < n /\ lines[i + 1].label = None THEN token(i + 1) ELSE None
      beside(i) == IF token(i) # None THEN token(i)
                   ELSE IF above(i) # None THEN above(i) ELSE below(i)
      numbered  == {i \in DOMAIN lines : lines[i].no /\ beside(i) # None}
  IN IF patterns # {} /\ Likely(direct) THEN direct.text
     ELSE IF hinted # {} THEN own(Least(hinted), Least(hinted) + 1)
     ELSE IF numbered # {} THEN beside(Least(numbered))
     ELSE None

-----------------------------------------------------------------------------
(* sanitizeVendorCandidate: names of a company, other names, single words, *)
(* parts of an address, headings; the last two pass a relaxed look only.   *)
Sane(name)    == name.kind \in {"company", "name", "word"}
Relaxed(name) == name.kind \in {"company", "name", "street", "heading"}

NameScore == [company |-> 28, name |-> 8, street |-> 0, heading |-> -20]

(* pickLikelyVendorLine: the first of the best among 18 lines *)
LikelyVendor(lines) ==
  LET in       == {i \in DOMAIN lines : i <= 18 /\ Relaxed(lines[i].name)}
      score(i) == NameScore[lines[i].name.kind]
                    + (IF i <= 4 THEN 28 ELSE IF i <= 9 THEN 16 ELSE 6)
      best     == {i \in in : \A k \in in : score(k) <= score(i)}
  IN IF in = {} \/ score(Least(best)) < 0 THEN None ELSE lines[Least(best)].name.text

(* resolveVendorName: a line with a vendor's prefix or the line after it,  *)
(* the brand of a hotel, the most likely line                              *)
ResolveVendorName(lines) ==
  LET name(i)   == IF i \in DOMAIN lines /\ Sane(lines[i].name) THEN lines[i].name.text ELSE None
      own(i)    == IF name(i) # None THEN name(i) ELSE name(i + 1)
      explicit  == {i \in DOMAIN lines : lines[i].prefix /\ own(i) # None}
      hotels    == {i \in DOMAIN lines : i <= 20 /\ lines[i].hotel /\ name(i) # None}
  IN IF explicit # {} THEN own(Least(explicit))
     ELSE IF hotels # {} THEN name(Least(hotels))
     ELSE LikelyVendor(lines)

-----------------------------------------------------------------------------
(* extractCurrency: a code, "Rs", a symbol *)
ExtractCurrency(lines) ==
  LET codes   == {i \in DOMAIN lines : lines[i].code # None}
      symbols == {i \in DOMAIN lines : lines[i].symbol # None}
  IN IF codes # {} THEN lines[Least(codes)].code
     ELSE IF \E i \in DOMAIN lines : lines[i].rupees THEN "INR"
     ELSE IF symbols # {} THEN lines[Least(symbols)].symbol
     ELSE None

(* toMinorUnits of hundredths: the currency's digits decide.  A half is    *)
(* rounded up.                                                             *)
Digits(currency) == IF currency = "JPY" THEN 0 ELSE IF currency = "KWD" THEN 3 ELSE 2

ToMinorUnits(a, currency) ==
  IF Digits(currency) = 0 THEN (a + 50) \div 100
  ELSE IF Digits(currency) = 3 THEN 10 * a ELSE a

(* normalizeDate: languages that put the day first do not check it; else   *)
(* the month comes first if it can be one.                                 *)
NormalizeDate(d, dayFirst) ==
  IF dayFirst \/ d.first > 12 THEN [month |-> d.second, day |-> d.first]
                              ELSE [month |-> d.first, day |-> d.second]

(* The first date after a label of the kind.  "Due date" is a "date" too:  *)
(* a due date above the invoice date is taken for it.                      *)
DateAfter(lines, labels, dayFirst) ==
  LET with == {i \in DOMAIN lines : lines[i].when \in labels /\ lines[i].date # NoDate}
  IN IF with = {} THEN NoDay ELSE NormalizeDate(lines[Least(with)].date, dayFirst)

(* An amount written with a point and two digits. *)
WithCents(t) ==
  LET n == Len(t.groups) IN n > 1 /\ t.marks[n - 1] = "." /\ t.groups[n].size = 2

(* lastResortExtraction: with no number, vendor, total or date, whatever   *)
(* looks like one is taken, with a warning.  The first amount with cents   *)
(* next to a currency sign, or else the first, is the total if it is one.  *)
LastResort(lines, read, dayFirst) ==
  LET dates   == {i \in DOMAIN lines : lines[i].date # NoDate}
      money   == {i \in DOMAIN lines : \E t \in lines[i].amounts : WithCents(t)}
      signed  == {i \in money : lines[i].symbol # None}
      line    == lines[Least(IF signed = {} THEN money ELSE signed)]
      amounts == IF money = {} THEN {}
                 ELSE {ParseAmountToken(CHOOSE t \in line.amounts : WithCents(t))} \cap (Nat \ {0})
      names   == {i \in DOMAIN lines : i <= 8 /\ Sane(lines[i].name)}
      symbols == {i \in DOMAIN lines : lines[i].symbol # None}
  IN [read EXCEPT
        !.date     = IF dates = {} THEN @ ELSE NormalizeDate(lines[Least(dates)].date, dayFirst),
        !.total    = IF amounts = {} THEN @
                     ELSE ToMinorUnits(CHOOSE a \in amounts : TRUE, read.currency),
        !.currency = IF @ = None /\ symbols # {} THEN lines[Least(symbols)].symbol ELSE @,
        !.vendor   = IF names = {} THEN @ ELSE lines[Least(names)].name.text,
        !.warnings = @ \cup {w \in {"date guessed", "total guessed", "vendor guessed"} :
                               \/ w = "date guessed"   /\ dates # {}
                               \/ w = "total guessed"  /\ amounts # {}
                               \/ w = "vendor guessed" /\ names # {}}]

(* compactText, with a break between two lines *)
LengthOf(lines) ==
  LET upTo[i \in 0..Len(lines)] ==
        IF i = 0 THEN 0 ELSE upTo[i - 1] + lines[i].size + (IF i > 1 THEN 1 ELSE 0)
  IN upTo[Len(lines)]

(* parseInvoiceText; a total of 0 stands for none *)
ParseInvoiceText(lines, dayFirst) ==
  LET number   == ExtractInvoiceNumber(lines)
      vendor   == ResolveVendorName(lines)
      currency == ExtractCurrency(lines)
      amount   == ExtractTotalAmount(lines)
      read     == [number   |-> number, vendor |-> vendor, currency |-> currency,
                   total    |-> ToMinorUnits(amount, currency),
                   date     |-> DateAfter(lines, {"date", "due date"}, dayFirst),
                   due      |-> DateAfter(lines, {"due date", "payment due"}, dayFirst),
                   warnings |-> {w \in {"no number", "no vendor", "no currency", "no total"} :
                                   \/ w = "no number"   /\ number = None
                                   \/ w = "no vendor"   /\ vendor = None
                                   \/ w = "no currency" /\ currency = None
                                   \/ w = "no total"    /\ amount = 0}]
      unread   == number = None /\ vendor = None /\ amount = 0 /\ read.date = NoDay
  IN IF unread /\ LengthOf(lines) > 20
       THEN LastResort(lines, read, dayFirst) ELSE read

-----------------------------------------------------------------------------
(* A line labelled as the total of the invoice: not as a part of it. *)
Plain(line) == line.label = "strong" /\ ~line.negative

(* However the amounts of other lines score, an amount of a plainly        *)
(* labelled total leads the candidates if there is one: it has at least 81 *)
(* points, every other amount at most 81, and then the larger amount       *)
(* decides (scoreLineForLabeledAmount, scoreAmountMagnitude and the order  *)
(* of pickBestAmountCandidate).                                            *)
PlainTotalLeads(lines) ==
  (\E i \in DOMAIN lines : Plain(lines[i]) /\ AmountsFor(lines, i) # {}) =>
    /\ Labelled(lines) # {}
    /\ \A c \in Leading(Labelled(lines)) : Plain(lines[c.line])

=============================================================================

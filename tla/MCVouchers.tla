----------------------------- MODULE MCVouchers ------------------------------
(* A small instance of Vouchers: all texts of three of eleven sample       *)
(* lines, with amounts written in every way the parser tells apart.        *)
EXTENDS Vouchers

(* Tokens: 5, 1.234, 1,200.50, 12.00, 1000000, 999,999.99 and 1,234,567.8 *)
Token(groups, marks) == [groups |-> groups, marks |-> marks]
Five     == Token(<<DigitGroup(5, 1)>>, << >>)
Thousand == Token(<<DigitGroup(1, 1), DigitGroup(234, 3)>>, <<".">>)
Paid     == Token(<<DigitGroup(1, 1), DigitGroup(200, 3), DigitGroup(50, 2)>>, <<",", ".">>)
Round    == Token(<<DigitGroup(12, 2), DigitGroup(0, 2)>>, <<".">>)
Million  == Token(<<DigitGroup(1000000, 7)>>, << >>)
Most     == Token(<<DigitGroup(999, 3), DigitGroup(999, 3), DigitGroup(99, 2)>>, <<",", ".">>)
Odd      == Token(<<DigitGroup(1, 1), DigitGroup(234, 3), DigitGroup(567, 3), DigitGroup(8, 1)>>,
                  <<",", ",", ".">>)

Number(n)     == [text |-> n, size |-> 4, digits |-> TRUE, blocked |-> FALSE]
Name(n, kind) == [text |-> n, kind |-> kind]

Total(label, tokens) == [Blank EXCEPT !.label = label, !.amounts = tokens]

Lines ==
  {[Total("strong", {Paid}) EXCEPT !.decimal = TRUE], [Total("strong", {Million}) EXCEPT !.percent = TRUE],
   [Total("weak", {Most}) EXCEPT !.money = TRUE, !.decimal = TRUE, !.code = "JPY"],
   [Total("weak", {Thousand, Odd}) EXCEPT !.decimal = TRUE],
   [Total("strong", {Five}) EXCEPT !.negative = TRUE, !.rupees = TRUE],
   [Total("strong", {}) EXCEPT !.size = 5],
   [Total(None, {Paid, Five}) EXCEPT !.negative = TRUE, !.money = TRUE, !.decimal = TRUE,
                                     !.symbol = "USD"],
   [Blank EXCEPT !.pattern = 1, !.token = Number("A1"), !.name = Name("label", "heading")],
   [Blank EXCEPT !.hint = TRUE, !.when = "due date", !.date = [first |-> 4, second |-> 13]],
   [Blank EXCEPT !.no = TRUE, !.name = Name("street", "street"), !.amounts = {Round},
                 !.decimal = TRUE],
   [Blank EXCEPT !.token = Number("B1"), !.prefix = TRUE, !.name = Name("acme", "company"),
                 !.when = "date", !.date = [first |-> 13, second |-> 4]]}

MCTexts == [1..3 -> Lines]

(* Just after midnight at the server, which a browser to the west calls the  *)
(* day before, and at noon, which is the same day for both.                  *)
MCArrivals ==
  {[server |-> [month |-> 2, day |-> 1], browser |-> day] :
     day \in {[month |-> 1, day |-> 31], [month |-> 2, day |-> 1]}}
=============================================================================

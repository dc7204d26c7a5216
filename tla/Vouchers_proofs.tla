---------------------------- MODULE Vouchers_proofs ---------------------------
(***************************************************************************)
(* Proofs about Vouchers and InvoiceText, for texts of any length with any *)
(* amounts.                                                                *)
(*                                                                         *)
(* An amount of a plainly labelled total is read if there is one: no other *)
(* line has more than 81 points, a plain one never fewer, and where both   *)
(* have 81 the plain one's amount is the larger.                           *)
(*                                                                         *)
(* A voucher is faithful: what is read is an amount because a text has     *)
(* finitely many candidates (TotalIsAmount); the row keeps what was read   *)
(* or typed last (RowInv); the voucher is the row's (VoucherInv); and no   *)
(* amount loses anything as a string (MajorKeeps), so that a voucher's     *)
(* debits add up to its credit (VoucherBalances).                          *)
(***************************************************************************)
EXTENDS Vouchers, FiniteSetTheorems, WellFoundedInduction, TLAPS

(* The points of an amount for its size: scoreAmountMagnitude. *)
LEMMA MagnitudeBounds ==
  ASSUME NEW a \in Nat \ {0}
  PROVE  /\ MagnitudeScore(a) \in Int
         /\ MagnitudeScore(a) >= -27 /\ MagnitudeScore(a) <= 12
         /\ a < 100000000 => MagnitudeScore(a) >= -19
         /\ a >= 100000000 => MagnitudeScore(a) <= 4
<1>1. CASE Integral(a)
  BY <1>1 DEF MagnitudeScore
<1>2. CASE ~Integral(a)
  BY <1>2 DEF MagnitudeScore
<1>. QED BY <1>1, <1>2

(* A bonus for lines near the end: one of two values. *)
LEMMA LateBounds ==
  ASSUME NEW i, NEW n
  PROVE  LateScore(i, n) \in {0, 8}
BY DEF LateScore

(* The points of a label: scoreLineForLabeledAmount. *)
LEMMA LabelBounds ==
  ASSUME NEW line, NEW i, NEW n
  PROVE  /\ LabelScore(line, i, n) \in Int
         /\ Plain(line) => LabelScore(line, i, n) >= 108
         /\ ~Plain(line) => LabelScore(line, i, n) <= 69
<1>. DEFINE late == LateScore(i, n)
<1>1. late \in {0, 8}
  BY LateBounds
<1>. HIDE DEF late
<1>2. LabelScore(line, i, n) =
          (IF line.label = "strong" THEN 120 ELSE IF line.label = "weak" THEN 55 ELSE 0)
        - (IF line.negative THEN 85 ELSE 0) + (IF line.money THEN 6 ELSE 0) + late
        - (IF line.percent THEN 12 ELSE 0)
  BY DEF LabelScore, late
<1>. QED BY <1>1, <1>2 DEF Plain

(* What is labelled is a candidate with an amount and the points of both. *)
LEMMA LabelledCandidate ==
  ASSUME NEW lines, NEW c \in Labelled(lines)
  PROVE  /\ c.line \in DOMAIN lines
         /\ c.amount \in Nat \ {0}
         /\ c.score = LabelScore(lines[c.line], c.line, Len(lines)) + MagnitudeScore(c.amount)
<1>1. PICK i \in DOMAIN lines : \E a \in AmountsFor(lines, i) :
        c = [amount |-> a, line |-> i,
             score |-> LabelScore(lines[i], i, Len(lines)) + MagnitudeScore(a)]
  BY DEF Labelled
<1>. PICK a \in AmountsFor(lines, i) :
        c = [amount |-> a, line |-> i,
             score |-> LabelScore(lines[i], i, Len(lines)) + MagnitudeScore(a)]
  BY <1>1
<1>2. a \in Nat \ {0}
  BY DEF AmountsFor, AmountsOf
<1>. QED BY <1>2

(* A plain line with an amount gives a candidate. *)
LEMMA PlainIsLabelled ==
  ASSUME NEW lines, NEW i \in DOMAIN lines, Plain(lines[i]), NEW a \in AmountsFor(lines, i)
  PROVE  [amount |-> a, line |-> i,
          score |-> LabelScore(lines[i], i, Len(lines)) + MagnitudeScore(a)] \in Labelled(lines)
<1>1. lines[i].label # None
  BY DEF Plain, None
<1>2. LabelScore(lines[i], i, Len(lines)) > 0
  BY LabelBounds
<1>. QED BY <1>1, <1>2 DEF Labelled

(* A candidate of a plain line is ahead of every one of another line. *)
LEMMA PlainIsAhead ==
  ASSUME NEW lines, NEW c \in Labelled(lines), NEW d \in Labelled(lines),
         Plain(lines[d.line]), ~Plain(lines[c.line])
  PROVE  Ahead(d, c)
<1>. DEFINE lc == LabelScore(lines[c.line], c.line, Len(lines))
            ld == LabelScore(lines[d.line], d.line, Len(lines))
            mc == MagnitudeScore(c.amount)
            md == MagnitudeScore(d.amount)
<1>1. /\ c.amount \in Nat \ {0} /\ d.amount \in Nat \ {0}
      /\ c.score = lc + mc /\ d.score = ld + md
  BY LabelledCandidate
<1>2. lc \in Int /\ lc <= 69 /\ ld \in Int /\ ld >= 108
  BY LabelBounds
<1>3. /\ mc \in Int /\ mc <= 12 /\ (c.amount >= 100000000 => mc <= 4)
      /\ md \in Int /\ md >= -27 /\ (d.amount < 100000000 => md >= -19)
  BY <1>1, MagnitudeBounds
<1>. HIDE DEF lc, ld, mc, md
<1>4. c.score \in Int /\ d.score \in Int /\ d.score >= c.score
  BY <1>1, <1>2, <1>3
<1>5. CASE d.score > c.score
  BY <1>5 DEF Ahead
<1>6. CASE d.score = c.score
  <2>1. d.amount >= 100000000 /\ c.amount < 100000000
    BY <1>1, <1>2, <1>3, <1>6
  <2>2. d.amount > c.amount
    BY <1>1, <2>1
  <2>. QED BY <1>6, <2>2 DEF Ahead
<1>. QED BY <1>4, <1>5, <1>6

(* For every text, an amount of a plainly labelled total leads if there is *)
(* one (extractTotalAmount).                                               *)
THEOREM PlainLeads ==
  ASSUME NEW lines
  PROVE  PlainTotalLeads(lines)
<1>. SUFFICES ASSUME NEW i \in DOMAIN lines, Plain(lines[i]), AmountsFor(lines, i) # {}
              PROVE  /\ Labelled(lines) # {}
                     /\ \A c \in Leading(Labelled(lines)) : Plain(lines[c.line])
  BY DEF PlainTotalLeads
<1>1. PICK a \in AmountsFor(lines, i) : TRUE
  OBVIOUS
<1>. DEFINE d == [amount |-> a, line |-> i,
                  score |-> LabelScore(lines[i], i, Len(lines)) + MagnitudeScore(a)]
<1>2. d \in Labelled(lines) /\ d.line = i
  BY PlainIsLabelled
<1>. HIDE DEF d
<1>3. ASSUME NEW c \in Leading(Labelled(lines))
      PROVE  Plain(lines[c.line])
  <2>1. c \in Labelled(lines) /\ ~Ahead(d, c)
    BY <1>2 DEF Leading
  <2>. QED BY <1>2, <2>1, PlainIsAhead
<1>. QED BY <1>2, <1>3

(* The text of an invoice is never changed, so whenever its total is read, *)
(* at parsing or again at export, a plainly labelled one is read.          *)
THEOREM PlainTotalIsRead == Spec => []PlainTotalWins
<1>1. PlainTotalWins
  BY PlainLeads DEF PlainTotalWins
<1>. QED BY <1>1, PTL

-------------------------------------------------------------------------------
(***************************************************************************)
(* The amount that is read.  A text has finitely many candidates, so that  *)
(* one of them leads, and what is read is an amount.                       *)
(***************************************************************************)
Candidate == [amount : Nat, line : Nat, score : Int]

LEMMA AheadIsOrder ==
  ASSUME NEW c \in Candidate, NEW d \in Candidate, NEW e \in Candidate
  PROVE  ~ Ahead(c, c) /\ (Ahead(c, d) /\ Ahead(d, e) => Ahead(c, e))
BY DEF Candidate, Ahead

LEMMA SomeLead ==
  ASSUME NEW S \in SUBSET Candidate, IsFiniteSet(S), S # {}
  PROVE  Leading(S) # {}
<1>. SUFFICES ASSUME Leading(S) = {} PROVE FALSE
  OBVIOUS
<1>. DEFINE T == {A \in SUBSET S : A # {} /\ Leading(A) = {}}
<1>1. T \subseteq SUBSET S /\ S \in T
  OBVIOUS
<1>2. IsWellFoundedOn(StrictSubsetOrdering(S), SUBSET S)
  BY FS_StrictSubsetOrderingWellFounded, FS_FiniteSubsetsOfFinite
<1>3. PICK A \in T : \A B \in T : ~ (<<B, A>> \in StrictSubsetOrdering(S))
  <2>. HIDE DEF T
  <2>. QED BY <1>1, <1>2, WFMin
<1>4. A \subseteq S /\ A # {} /\ Leading(A) = {}
  OBVIOUS
<1>5. PICK c \in A : TRUE
  BY <1>4
<1>. DEFINE B == A \ {c}
<1>6. c \in Candidate /\ A \subseteq Candidate
  BY <1>4
<1>7. <<B, A>> \in StrictSubsetOrdering(S)
  BY <1>4, <1>5 DEF StrictSubsetOrdering
<1>8. B = {} \/ Leading(B) # {}
  BY <1>3, <1>4, <1>7
<1>9. CASE B = {}
  <2>1. A = {c}
    BY <1>5, <1>9
  <2>2. c \in Leading(A)
    BY <1>6, <2>1, AheadIsOrder DEF Leading
  <2>. QED BY <1>4, <2>2
<1>10. CASE Leading(B) # {}
  <2>2. PICK b \in Leading(B) : TRUE
    BY <1>10
  <2>3. b \in B /\ \A e \in B : ~ Ahead(e, b)
    BY <2>2 DEF Leading
  <2>4. CASE Ahead(c, b)
    <3>1. \A e \in B : ~ Ahead(e, c)
      BY <1>6, <2>3, <2>4, AheadIsOrder
    <3>2. c \in Leading(A)
      BY <1>5, <1>6, <3>1, AheadIsOrder DEF Leading
    <3>. QED BY <1>4, <3>2
  <2>5. CASE ~ Ahead(c, b)
    <3>1. b \in Leading(A)
      BY <2>3, <2>5 DEF Leading
    <3>. QED BY <1>4, <3>1
  <2>. QED BY <2>4, <2>5
<1>. QED BY <1>8, <1>9, <1>10

LEMMA ImageIsFinite ==
  ASSUME NEW D, IsFiniteSet(D), NEW T, NEW f \in [D -> T],
         \A t \in T : \E x \in D : f[x] = t
  PROVE  IsFiniteSet(T)
<1>1. f \in Surjection(D, T)
  BY DEF Surjection
<1>. QED BY <1>1, FS_Surjection

(* All candidates of a text: its amounts on its lines. *)
Amounts(lines) == UNION {AmountsOf(lines[i]) : i \in DOMAIN lines}

LEMMA AmountsAreFew ==
  ASSUME NEW lines \in Texts
  PROVE  IsFiniteSet(DOMAIN lines) /\ IsFiniteSet(Amounts(lines))
<1>. DEFINE D == DOMAIN lines
<1>1. IsFiniteSet(D)
  BY TextAssumption, FS_Interval
<1>2. ASSUME NEW i \in D PROVE IsFiniteSet(AmountsOf(lines[i]))
  <2>. DEFINE A == lines[i].amounts
              f == [t \in A |-> ParseAmountToken(t)]
              T == {ParseAmountToken(t) : t \in A}
  <2>1. IsFiniteSet(A)
    BY TextAssumption
  <2>2. f \in [A -> T] /\ \A u \in T : \E t \in A : f[t] = u
    OBVIOUS
  <2>. HIDE DEF f, A, T
  <2>3. IsFiniteSet(T)
    BY <2>1, <2>2, ImageIsFinite
  <2>4. AmountsOf(lines[i]) \in SUBSET T
    BY DEF AmountsOf, T, A
  <2>. QED BY <2>3, <2>4, FS_Subset
<1>3. IsFiniteSet({AmountsOf(lines[i]) : i \in D})
  <2>. DEFINE f == [i \in D |-> AmountsOf(lines[i])]
              T == {AmountsOf(lines[i]) : i \in D}
  <2>1. f \in [D -> T] /\ \A u \in T : \E i \in D : f[i] = u
    OBVIOUS
  <2>. HIDE DEF f, T, D
  <2>2. IsFiniteSet(T)
    BY <1>1, <2>1, ImageIsFinite
  <2>. QED BY <2>2 DEF T
<1>4. IsFiniteSet(Amounts(lines))
  <2>. DEFINE T == {AmountsOf(lines[i]) : i \in D}
  <2>1. \A A \in T : IsFiniteSet(A)
    BY <1>2
  <2>2. IsFiniteSet(T)
    BY <1>3
  <2>3. Amounts(lines) = UNION T
    BY DEF Amounts
  <2>. HIDE DEF T
  <2>. QED BY <2>1, <2>2, <2>3, FS_UNION
<1>. QED BY <1>1, <1>4

LEMMA CandidatesAreFew ==
  ASSUME NEW lines \in Texts, NEW S \in {Labelled(lines), Unlabelled(lines)}
  PROVE  IsFiniteSet(S) /\ S \subseteq Candidate
<1>. DEFINE A == Amounts(lines)
            D == DOMAIN lines
            base == [i \in D |-> IF S = Labelled(lines)
                                   THEN LabelScore(lines[i], i, Len(lines))
                                   ELSE LateScore(i, Len(lines))]
            f == [p \in D \X A |->
                    [amount |-> p[2], line |-> p[1],
                     score |-> base[p[1]] + MagnitudeScore(p[2])]]
            I == {f[p] : p \in D \X A}
<1>1. IsFiniteSet(D \X A)
  BY AmountsAreFew, FS_Product
<1>2. \A i \in D : i \in Nat /\ AmountsOf(lines[i]) \subseteq A
  BY TextAssumption DEF Amounts
<1>3. A \subseteq Nat \ {0}
  BY DEF Amounts, AmountsOf
<1>4. \A i \in D : base[i] \in Int
  BY LabelBounds, LateBounds
<1>5. ASSUME NEW c \in S PROVE c \in I /\ c \in Candidate
  <2>1. \E i \in D : \E a \in A :
          c = [amount |-> a, line |-> i, score |-> base[i] + MagnitudeScore(a)]
    <3>1. CASE S = Labelled(lines)
      <4>1. PICK i \in D : \E a \in AmountsFor(lines, i) :
              c = [amount |-> a, line |-> i,
                   score |-> LabelScore(lines[i], i, Len(lines)) + MagnitudeScore(a)]
        BY <1>5, <3>1 DEF Labelled
      <4>2. AmountsFor(lines, i) \subseteq A
        <5>1. i # Len(lines) => i + 1 \in D
          BY TextAssumption
        <5>. QED BY <1>2, <5>1 DEF AmountsFor
      <4>3. base[i] = LabelScore(lines[i], i, Len(lines))
        BY <3>1
      <4>. HIDE DEF A, base
      <4>. QED BY <4>1, <4>2, <4>3
    <3>2. CASE S # Labelled(lines)
      <4>1. PICK i \in D : \E a \in AmountsOf(lines[i]) :
              c = [amount |-> a, line |-> i,
                   score |-> LateScore(i, Len(lines)) + MagnitudeScore(a)]
        BY <1>5, <3>2 DEF Unlabelled
      <4>2. base[i] = LateScore(i, Len(lines))
        BY <3>2
      <4>. HIDE DEF A, base
      <4>. QED BY <1>2, <4>1, <4>2
    <3>. QED BY <3>1, <3>2
  <2>. HIDE DEF A, base, D
  <2>2. PICK i \in D, a \in A :
          c = [amount |-> a, line |-> i, score |-> base[i] + MagnitudeScore(a)]
    BY <2>1
  <2>3. c = f[<<i, a>>] /\ <<i, a>> \in D \X A
    BY <2>2
  <2>4. MagnitudeScore(a) \in Int
    BY <1>3, MagnitudeBounds
  <2>5. c \in Candidate
    BY <1>2, <1>3, <1>4, <2>2, <2>4 DEF Candidate
  <2>. QED BY <2>3, <2>5
<1>. DEFINE P == D \X A
<1>6. f \in [P -> I]
  OBVIOUS
<1>7. IsFiniteSet(I)
  <2>1. IsFiniteSet(P)
    BY <1>1
  <2>2. \A c \in I : \E p \in P : f[p] = c
    OBVIOUS
  <2>. HIDE DEF f, P, I
  <2>. QED BY <1>6, <2>1, <2>2, ImageIsFinite
<1>8. S \in SUBSET I /\ S \subseteq Candidate
  BY <1>5
<1>. HIDE DEF I
<1>. QED BY <1>7, <1>8, FS_Subset

(* extractTotalAmount gives a positive amount, or 0.                       *)
LEMMA TotalIsAmount ==
  ASSUME NEW lines \in Texts
  PROVE  ExtractTotalAmount(lines) \in Nat
<1>. DEFINE from == IF Labelled(lines) # {} THEN Labelled(lines) ELSE Unlabelled(lines)
<1>1. from = {} => ExtractTotalAmount(lines) = 0
  BY DEF ExtractTotalAmount
<1>2. from # {} =>
        ExtractTotalAmount(lines) = (CHOOSE c \in Leading(from) : TRUE).amount
  BY DEF ExtractTotalAmount
<1>3. IsFiniteSet(from) /\ from \in SUBSET Candidate
  BY CandidatesAreFew
<1>. HIDE DEF from
<1>4. ASSUME from # {} PROVE (CHOOSE c \in Leading(from) : TRUE) \in from
  <2>1. Leading(from) # {}
    BY <1>3, <1>4, SomeLead
  <2>2. (CHOOSE c \in Leading(from) : TRUE) \in Leading(from)
    BY <2>1
  <2>. QED BY <2>2 DEF Leading
<1>. QED BY <1>1, <1>2, <1>3, <1>4 DEF Candidate

-------------------------------------------------------------------------------
(***************************************************************************)
(* Vouchers balance.                                                       *)
(***************************************************************************)
(* The amounts of a voucher's debits add up to g, if g adds one of them at *)
(* a time, in whatever order.                                              *)
LEMMA DebitsAddUp ==
  ASSUME NEW v, IsFiniteSet(v.debits), NEW g, g[{}] = 0,
         \A s \in SUBSET v.debits : \A d \in s : g[s] = ValueOf(d.amount) + g[s \ {d}]
  PROVE  Balanced(v) <=> g[v.debits] = ValueOf(v.credit.amount)
<1>. DEFINE S == v.debits
            R(h) == h = [s \in SUBSET S |-> IF s = {} THEN 0
                                            ELSE LET x == CHOOSE x \in s : TRUE
                                                 IN ValueOf(x.amount) + h[s \ {x}]]
            sum == CHOOSE h : R(h)
            f == [s \in SUBSET S |-> g[s]]
            T == {s \in SUBSET S : sum[s] # g[s]}
<1>1. MapThenSumSet(LAMBDA d : ValueOf(d.amount), S) = sum[S]
  BY DEF MapThenSumSet, MapThenFoldSet
<1>2. R(f)
  <2>1. f = [s \in SUBSET S |-> IF s = {} THEN 0
                                ELSE LET x == CHOOSE x \in s : TRUE
                                     IN ValueOf(x.amount) + f[s \ {x}]]
    <3>1. ASSUME NEW s \in SUBSET S, s # {}
          PROVE  f[s] = ValueOf((CHOOSE x \in s : TRUE).amount) + f[s \ {CHOOSE x \in s : TRUE}]
      <4>1. (CHOOSE x \in s : TRUE) \in s
        BY <3>1
      <4>. QED BY <4>1
    <3>. QED BY <3>1
  <2>. QED BY <2>1
<1>3. R(sum)
  <2>. HIDE DEF R, f
  <2>. QED BY <1>2
<1>4. \A s \in SUBSET S :
         sum[s] = IF s = {} THEN 0
                  ELSE ValueOf((CHOOSE x \in s : TRUE).amount) + sum[s \ {CHOOSE x \in s : TRUE}]
  <2>. HIDE DEF sum
  <2>. QED BY <1>3
<1>. HIDE DEF sum
<1>5. T = {}
  <2>. SUFFICES ASSUME T # {} PROVE FALSE
    OBVIOUS
  <2>1. IsWellFoundedOn(StrictSubsetOrdering(S), SUBSET S)
    BY FS_StrictSubsetOrderingWellFounded, FS_FiniteSubsetsOfFinite
  <2>2. PICK s \in T : \A t \in T : ~ (<<t, s>> \in StrictSubsetOrdering(S))
    <3>1. T \subseteq SUBSET S /\ T # {}
      OBVIOUS
    <3>. HIDE DEF T
    <3>. QED BY <2>1, <3>1, WFMin
  <2>3. s \in SUBSET S /\ sum[s] # g[s]
    OBVIOUS
  <2>4. s # {}
    BY <1>4, <2>3
  <2>. DEFINE x == CHOOSE x \in s : TRUE
  <2>5. x \in s
    BY <2>4
  <2>6. sum[s] = ValueOf(x.amount) + sum[s \ {x}] /\ g[s] = ValueOf(x.amount) + g[s \ {x}]
    BY <1>4, <2>3, <2>4, <2>5
  <2>. HIDE DEF x
  <2>7. <<s \ {x}, s>> \in StrictSubsetOrdering(S)
    BY <2>3, <2>5 DEF StrictSubsetOrdering
  <2>8. sum[s \ {x}] = g[s \ {x}]
    BY <2>2, <2>3, <2>7
  <2>. QED BY <2>3, <2>6, <2>8
<1>6. sum[S] = g[S]
  BY <1>5
<1>. QED BY <1>1, <1>6 DEF Balanced

LEMMA OneDebit ==
  ASSUME NEW v, NEW d, v.debits = {d}, ValueOf(d.amount) \in Nat,
         ValueOf(v.credit.amount) = ValueOf(d.amount)
  PROVE  Balanced(v)
<1>. DEFINE g == [s \in SUBSET {d} |-> IF d \in s THEN ValueOf(d.amount) ELSE 0]
<1>1. IsFiniteSet(v.debits)
  BY FS_Singleton
<1>2. g[{}] = 0 /\ g[{d}] = ValueOf(d.amount)
  OBVIOUS
<1>3. ASSUME NEW s \in SUBSET v.debits, NEW e \in s
      PROVE  g[s] = ValueOf(e.amount) + g[s \ {e}]
  <2>1. e = d
    OBVIOUS
  <2>. QED BY <2>1
<1>. HIDE DEF g
<1>. QED BY <1>1, <1>2, <1>3, DebitsAddUp

LEMMA ThreeDebits ==
  ASSUME NEW v, NEW d, NEW e, NEW f, d # e, d # f, e # f, v.debits = {d, e, f},
         ValueOf(d.amount) \in Nat, ValueOf(e.amount) \in Nat, ValueOf(f.amount) \in Nat,
         ValueOf(v.credit.amount) = ValueOf(d.amount) + ValueOf(e.amount) + ValueOf(f.amount)
  PROVE  Balanced(v)
<1>. DEFINE w(x, s) == IF x \in s THEN ValueOf(x.amount) ELSE 0
            g == [s \in SUBSET {d, e, f} |-> w(d, s) + w(e, s) + w(f, s)]
<1>1. IsFiniteSet(v.debits)
  <2>1. IsFiniteSet({d}) /\ IsFiniteSet({e}) /\ IsFiniteSet({f})
    BY FS_Singleton
  <2>2. IsFiniteSet({d} \cup {e})
    BY <2>1, FS_Union
  <2>3. IsFiniteSet(({d} \cup {e}) \cup {f})
    BY <2>1, <2>2, FS_Union
  <2>4. v.debits = ({d} \cup {e}) \cup {f}
    OBVIOUS
  <2>. QED BY <2>3, <2>4
<1>2. g[{}] = 0 /\ g[{d, e, f}] = ValueOf(v.credit.amount)
  OBVIOUS
<1>3. ASSUME NEW s \in SUBSET v.debits, NEW x \in s
      PROVE  g[s] = ValueOf(x.amount) + g[s \ {x}]
  <2>1. s \in SUBSET {d, e, f} /\ s \ {x} \in SUBSET {d, e, f} /\ x \in {d, e, f}
    OBVIOUS
  <2>2. g[s] = w(d, s) + w(e, s) + w(f, s)
    BY <2>1
  <2>3. g[s \ {x}] = w(d, s \ {x}) + w(e, s \ {x}) + w(f, s \ {x})
    BY <2>1
  <2>4. /\ x # d => w(d, s \ {x}) = w(d, s)
        /\ x # e => w(e, s \ {x}) = w(e, s)
        /\ x # f => w(f, s \ {x}) = w(f, s)
    OBVIOUS
  <2>5. w(x, s) = ValueOf(x.amount) /\ w(x, s \ {x}) = 0
    OBVIOUS
  <2>6. w(d, s) \in Nat /\ w(e, s) \in Nat /\ w(f, s) \in Nat
    OBVIOUS
  <2>. HIDE DEF w, g
  <2>7. CASE x = d
    BY <2>2, <2>3, <2>4, <2>5, <2>6, <2>7
  <2>8. CASE x = e
    BY <2>2, <2>3, <2>4, <2>5, <2>6, <2>8
  <2>9. CASE x = f
    BY <2>2, <2>3, <2>4, <2>5, <2>6, <2>9
  <2>. QED BY <2>1, <2>7, <2>8, <2>9
<1>. HIDE DEF g
<1>. QED BY <1>1, <1>2, <1>3, DebitsAddUp

LEMMA MinorUnitsAreAmounts ==
  ASSUME NEW a \in Nat, NEW currency
  PROVE  ToMinorUnits(a, currency) \in Nat
BY DEF ToMinorUnits

(* minorUnitsToMajorString loses nothing.                                  *)
LEMMA MajorKeeps ==
  ASSUME NEW a \in Nat, NEW currency
  PROVE  /\ ~Major(Absolute(a), currency).minus
         /\ ValueOf(Major(Absolute(a), currency)) = a
         /\ [Major(Absolute(a), currency) EXCEPT !.minus = TRUE].minus
         /\ ValueOf([Major(Absolute(a), currency) EXCEPT !.minus = TRUE]) = a
<1>. DEFINE m == Major(Absolute(a), currency)
            n == [m EXCEPT !.minus = TRUE]
<1>1. Absolute(a) = a
  BY DEF Absolute
<1>2. /\ m.digits = Digits(currency)
      /\ m.units = a \div 10^Digits(currency) /\ m.fraction = a % (10^Digits(currency))
  BY <1>1 DEF Major
<1>3. ~m.minus
  <2>1. m.minus <=> Absolute(a) < 0
    BY Zenon DEF Major
  <2>2. ~(Absolute(a) < 0)
    BY <1>1
  <2>. QED BY <2>1, <2>2, Zenon
<1>4. n.minus /\ n.units = m.units /\ n.fraction = m.fraction /\ n.digits = m.digits
  BY DEF Major
<1>. HIDE DEF m, n
<1>5. ValueOf(m) = a
  <2>1. CASE Digits(currency) = 0
    <3>1. (a \div 10^0) * 10^0 + (a % (10^0)) = a
      OBVIOUS
    <3>. QED BY <1>2, <2>1, <3>1 DEF ValueOf
  <2>2. CASE Digits(currency) = 2
    <3>1. (a \div 10^2) * 10^2 + (a % (10^2)) = a
      OBVIOUS
    <3>. QED BY <1>2, <2>2, <3>1 DEF ValueOf
  <2>3. CASE Digits(currency) = 3
    <3>1. (a \div 10^3) * 10^3 + (a % (10^3)) = a
      OBVIOUS
    <3>. QED BY <1>2, <2>3, <3>1 DEF ValueOf
  <2>. QED BY <2>1, <2>2, <2>3 DEF Digits
<1>6. ValueOf(n) = ValueOf(m)
  BY <1>4 DEF ValueOf
<1>. QED BY <1>3, <1>4, <1>5, <1>6 DEF m, n

(* A row's voucher credits and debits the total, whatever the breakdown.   *)
LEMMA VoucherBalances ==
  ASSUME NEW p, NEW total \in Nat \ {0}, NEW gst \in Splits(total), NEW id, NEW days
  PROVE  LET v == VoucherOf(p, gst, total, id, days)
         IN /\ Balanced(v)
            /\ v.credit.amount.minus /\ ValueOf(v.credit.amount) = total
            /\ \A d \in v.debits : ~d.amount.minus
<1>. DEFINE v           == VoucherOf(p, gst, total, id, days)
            amount(a)   == Major(Absolute(a), p.currency)
            debit(l, a) == [ledger |-> l, amount |-> amount(a)]
            taxes       == {i \in DOMAIN gst.taxes : gst.taxes[i].amount > 0}
            purchase    == IF gst = NoGst \/ gst.subtotal = 0 THEN total ELSE gst.subtotal
            taxed       == {debit(gst.taxes[i].ledger, gst.taxes[i].amount) : i \in taxes}
<1>1. /\ v.credit.amount = [amount(total) EXCEPT !.minus = TRUE]
      /\ v.debits = {debit("purchase", purchase)} \cup taxed
  BY DEF VoucherOf
<1>. HIDE DEF v
<1>2. v.credit.amount.minus /\ ValueOf(v.credit.amount) = total
  BY <1>1, MajorKeeps
<1>3. \A a \in Nat : ~amount(a).minus /\ ValueOf(amount(a)) = a
  BY MajorKeeps
<1>. HIDE DEF amount
<1>4. ASSUME taxes = {}, purchase = total
      PROVE  Balanced(v) /\ \A d \in v.debits : ~d.amount.minus
  <2>1. v.debits = {debit("purchase", total)}
    BY <1>1, <1>4
  <2>2. debit("purchase", total).amount = amount(total)
    OBVIOUS
  <2>. HIDE DEF debit
  <2>3. Balanced(v)
    BY <1>2, <1>3, <2>1, <2>2, OneDebit
  <2>. QED BY <1>3, <2>1, <2>2, <2>3
<1>5. ASSUME gst = NoGst
      PROVE  Balanced(v) /\ \A d \in v.debits : ~d.amount.minus
  <2>1. gst.taxes = << >>
    BY <1>5 DEF NoGst
  <2>2. taxes = {} /\ purchase = total
    BY <1>5, <2>1
  <2>. QED BY <1>4, <2>2
<1>6. ASSUME NEW t \in {0, total \div 10},
             gst = [subtotal |-> total - 2 * t,
                    taxes    |-> <<[ledger |-> "cgst", amount |-> t],
                                   [ledger |-> "sgst", amount |-> t]>>]
      PROVE  Balanced(v) /\ \A d \in v.debits : ~d.amount.minus
  <2>1. /\ DOMAIN gst.taxes = {1, 2} /\ gst.subtotal = total - 2 * t
        /\ gst.taxes[1].ledger = "cgst" /\ gst.taxes[1].amount = t
        /\ gst.taxes[2].ledger = "sgst" /\ gst.taxes[2].amount = t
    BY <1>6
  <2>2. t \in Nat /\ 2 * t < total
    OBVIOUS
  <2>3. CASE t = 0
    <3>1. taxes = {} /\ purchase = total
      BY <2>1, <2>3
    <3>. QED BY <1>4, <3>1
  <2>4. CASE t > 0
    <3>1. taxes = {1, 2}
      BY <2>1, <2>4
    <3>2. purchase = total - 2 * t
      <4>1. gst.subtotal # 0
        BY <2>1, <2>2
      <4>2. gst # NoGst
        BY <4>1 DEF NoGst
      <4>. QED BY <2>1, <4>1, <4>2
    <3>. DEFINE d == debit("purchase", total - 2 * t)
                e == debit("cgst", t)
                f == debit("sgst", t)
    <3>3. taxed = {e, f}
      BY <2>1, <3>1
    <3>4. v.debits = {d, e, f}
      <4>. HIDE DEF taxed, purchase, debit
      <4>. QED BY <1>1, <3>2, <3>3
    <3>5. d # e /\ d # f /\ e # f
      <4>1. d.ledger = "purchase" /\ e.ledger = "cgst" /\ f.ledger = "sgst"
        OBVIOUS
      <4>. QED BY <4>1
    <3>6. d.amount = amount(total - 2 * t) /\ e.amount = amount(t) /\ f.amount = amount(t)
      OBVIOUS
    <3>. HIDE DEF d, e, f
    <3>7. /\ ValueOf(d.amount) = total - 2 * t /\ ValueOf(e.amount) = t /\ ValueOf(f.amount) = t
          /\ ~d.amount.minus /\ ~e.amount.minus /\ ~f.amount.minus
      BY <1>3, <2>2, <3>6
    <3>8. ValueOf(v.credit.amount) = ValueOf(d.amount) + ValueOf(e.amount) + ValueOf(f.amount)
      BY <1>2, <2>2, <3>7
    <3>9. Balanced(v)
      BY <2>2, <3>4, <3>5, <3>7, <3>8, ThreeDebits
    <3>. QED BY <3>4, <3>7, <3>9
  <2>. QED BY <2>2, <2>3, <2>4
<1>7. Balanced(v) /\ \A d \in v.debits : ~d.amount.minus
  <2>1. CASE gst = NoGst
    BY <1>5, <2>1
  <2>2. CASE gst # NoGst
    <3>1. PICK t \in {0, total \div 10} :
            gst = [subtotal |-> total - 2 * t,
                   taxes    |-> <<[ledger |-> "cgst", amount |-> t],
                                  [ledger |-> "sgst", amount |-> t]>>]
      BY <2>2 DEF Splits
    <3>. QED BY <1>6, <3>1
  <2>. QED BY <2>1, <2>2
<1>. QED BY <1>2, <1>7 DEF v

-------------------------------------------------------------------------------
(***************************************************************************)
(* Rows.  A row has its fields and a total that is an amount.              *)
(***************************************************************************)
RowFields == {"number", "vendor", "currency", "total", "date", "due", "warnings"}

IsRow(p) == p = [f \in RowFields |-> p[f]] /\ p.total \in Nat

(* A total that is read is the row's, in minor units of its currency.      *)
LEMMA ParsedRow ==
  ASSUME NEW lines \in Texts, NEW dayFirst
  PROVE  LET p == ParseInvoiceText(lines, dayFirst)
         IN /\ IsRow(p)
            /\ ExtractTotalAmount(lines) > 0 =>
                 p.total = ToMinorUnits(ExtractTotalAmount(lines), p.currency)
<1>. DEFINE number   == ExtractInvoiceNumber(lines)
            vendor   == ResolveVendorName(lines)
            currency == ExtractCurrency(lines)
            amount   == ExtractTotalAmount(lines)
            warnings == {w \in {"no number", "no vendor", "no currency", "no total"} :
                                   \/ w = "no number"   /\ number = None
                                   \/ w = "no vendor"   /\ vendor = None
                                   \/ w = "no currency" /\ currency = None
                                   \/ w = "no total"    /\ amount = 0}
            read     == [number   |-> number, vendor |-> vendor, currency |-> currency,
                         total    |-> ToMinorUnits(amount, currency),
                         date     |-> DateAfter(lines, {"date", "due date"}, dayFirst),
                         due      |-> DateAfter(lines, {"due date", "payment due"}, dayFirst),
                         warnings |-> warnings]
            unread   == number = None /\ vendor = None /\ amount = 0 /\ read.date = NoDay
            guessed  == unread /\ LengthOf(lines) > 20
            p        == ParseInvoiceText(lines, dayFirst)
<1>1. p = IF guessed THEN LastResort(lines, read, dayFirst) ELSE read
  BY DEF ParseInvoiceText
<1>. HIDE DEF p
<1>2. amount \in Nat /\ (guessed => amount = 0)
  BY TotalIsAmount
<1>3. /\ IsRow(read) /\ read.currency = currency
      /\ read.total = ToMinorUnits(amount, currency)
  <2>. HIDE DEF number, vendor, currency, amount, warnings
  <2>. QED BY <1>2, MinorUnitsAreAmounts DEF IsRow, RowFields
<1>4. IsRow(LastResort(lines, read, dayFirst))
  <2>. DEFINE money   == {i \in DOMAIN lines : \E t \in lines[i].amounts : WithCents(t)}
              signed  == {i \in money : lines[i].symbol # None}
              line    == lines[Least(IF signed = {} THEN money ELSE signed)]
              amounts == IF money = {} THEN {}
                         ELSE {ParseAmountToken(CHOOSE t \in line.amounts : WithCents(t))}
                                \cap (Nat \ {0})
              a    == CHOOSE b \in amounts : TRUE
              last == LastResort(lines, read, dayFirst)
  <2>1. amounts # {} => a \in Nat
    <3>1. amounts \subseteq Nat
      OBVIOUS
    <3>. HIDE DEF amounts
    <3>. QED BY <3>1
  <2>. HIDE DEF read
  <2>2. read = [f \in RowFields |-> read[f]]
    BY <1>3 DEF IsRow
  <2>3. /\ DOMAIN last = DOMAIN read /\ last = [f \in DOMAIN read |-> last[f]]
        /\ last.total = IF amounts = {} THEN read.total ELSE ToMinorUnits(a, read.currency)
    <3>1. PICK d, t, u, v, w :
            /\ t = IF amounts = {} THEN read.total ELSE ToMinorUnits(a, read.currency)
            /\ last = [read EXCEPT !.date = d, !.total = t, !.currency = u,
                                   !.vendor = v, !.warnings = w]
      <4>. DEFINE dates   == {i \in DOMAIN lines : lines[i].date # NoDate}
                  names   == {i \in DOMAIN lines : i <= 8 /\ Sane(lines[i].name)}
                  symbols == {i \in DOMAIN lines : lines[i].symbol # None}
                  d == IF dates = {} THEN read.date
                       ELSE NormalizeDate(lines[Least(dates)].date, dayFirst)
                  t == IF amounts = {} THEN read.total ELSE ToMinorUnits(a, read.currency)
                  u == IF read.currency = None /\ symbols # {} THEN lines[Least(symbols)].symbol
                                                              ELSE read.currency
                  v == IF names = {} THEN read.vendor ELSE lines[Least(names)].name.text
                  w == read.warnings \cup {x \in {"date guessed", "total guessed", "vendor guessed"} :
                                              \/ x = "date guessed"   /\ dates # {}
                                              \/ x = "total guessed"  /\ amounts # {}
                                              \/ x = "vendor guessed" /\ names # {}}
      <4>1. last = [read EXCEPT !.date = d, !.total = t, !.currency = u, !.vendor = v, !.warnings = w]
        BY Zenon DEF LastResort
      <4>. HIDE DEF d, u, v, w, last, amounts, a
      <4>. QED BY <4>1
    <3>. HIDE DEF last, amounts, a
    <3>2. DOMAIN last = DOMAIN read
      BY <2>2, <3>1
    <3>3. last.total = t
      BY <2>2, <3>1 DEF RowFields
    <3>4. last = [f \in DOMAIN read |-> last[f]]
      BY <3>1
    <3>. QED BY <3>1, <3>2, <3>3, <3>4
  <2>. HIDE DEF amounts, a, last
  <2>4. DOMAIN read = RowFields /\ read.total \in Nat
    BY <1>3 DEF IsRow
  <2>5. last.total \in Nat
    BY <2>1, <2>3, <2>4, MinorUnitsAreAmounts
  <2>6. IsRow(last)
    BY <2>3, <2>4, <2>5 DEF IsRow
  <2>. QED BY <2>6 DEF last
<1>. HIDE DEF read, guessed, amount, currency
<1>5. IsRow(p) /\ (amount > 0 => p.total = ToMinorUnits(amount, p.currency))
  BY <1>1, <1>2, <1>3, <1>4
<1>. QED BY <1>5 DEF p, amount

(* updateInvoiceParsedFields: what a request does to currency and total.   *)
LEMMA CorrectedRow ==
  ASSUME NEW p, IsRow(p), NEW c,
         "total" \in DOMAIN c => c.total \in Nat,
         "minor" \in DOMAIN c => c.minor \in Nat
  PROVE  LET q == Corrected(p, c)
         IN /\ IsRow(q)
            /\ "total" \in DOMAIN c => q.total = ToMinorUnits(c.total, q.currency)
            /\ {"total", "minor"} \cap DOMAIN c = {} => q.total = p.total
            /\ "currency" \notin DOMAIN c => q.currency = p.currency
<1>. DEFINE r == [f \in DOMAIN p |-> IF f \in DOMAIN c \ {"total"} THEN c[f] ELSE p[f]]
            q == Corrected(p, c)
<1>1. DOMAIN p = RowFields /\ p.total \in Nat
  BY DEF IsRow
<1>2. /\ DOMAIN r = RowFields /\ r = [f \in RowFields |-> r[f]] /\ r.total = p.total
      /\ "currency" \notin DOMAIN c => r.currency = p.currency
  BY <1>1 DEF RowFields
<1>3. q = IF "total" \in DOMAIN c THEN [r EXCEPT !.total = ToMinorUnits(c.total, r.currency)]
          ELSE IF "minor" \in DOMAIN c THEN [r EXCEPT !.total = c.minor] ELSE r
  BY DEF Corrected
<1>. HIDE DEF r, q
<1>4. \A a \in Nat : LET s == [r EXCEPT !.total = a]
                     IN IsRow(s) /\ s.total = a /\ s.currency = r.currency
  BY <1>2 DEF IsRow, RowFields
<1>5. CASE "total" \in DOMAIN c
  <2>1. ToMinorUnits(c.total, r.currency) \in Nat
    BY <1>5, MinorUnitsAreAmounts
  <2>2. IsRow(q) /\ q.total = ToMinorUnits(c.total, r.currency) /\ q.currency = r.currency
    BY <1>3, <1>4, <1>5, <2>1
  <2>. QED BY <1>2, <1>5, <2>2 DEF q
<1>6. CASE "total" \notin DOMAIN c /\ "minor" \in DOMAIN c
  <2>1. IsRow(q) /\ q.currency = r.currency
    BY <1>3, <1>4, <1>6
  <2>. QED BY <1>2, <1>6, <2>1 DEF q
<1>7. CASE "total" \notin DOMAIN c /\ "minor" \notin DOMAIN c
  <2>1. q = r
    BY <1>3, <1>7
  <2>2. IsRow(q)
    BY <1>1, <1>2, <2>1 DEF IsRow
  <2>. QED BY <1>2, <1>7, <2>1, <2>2 DEF q
<1>. QED BY <1>5, <1>6, <1>7

(***************************************************************************)
(* The row is what was read or typed last, to the last minor unit, and the *)
(* voucher is the row's.                                                   *)
(***************************************************************************)
RowInv ==
  /\ text \in Texts /\ IsRow(row) /\ edits \in Nat
  /\ typed > 0 => row.total = ToMinorUnits(typed, row.currency)
  /\ edits = 0 /\ ExtractTotalAmount(text) > 0 =>
       row.total = ToMinorUnits(ExtractTotalAmount(text), row.currency)

VoucherInv ==
  voucher # Unissued =>
    row.total > 0 /\ voucher = VoucherOf(row, NoGst, row.total, "id", received.server)

LEMMA CorrectRow == RowInv /\ VoucherInv /\ Correct => RowInv' /\ VoucherInv'
<1>. SUFFICES ASSUME RowInv, Correct PROVE RowInv' /\ VoucherInv'
  OBVIOUS
<1>1. PICK c \in Corrections :
        /\ row' = Corrected(row, c)
        /\ typed' = IF "total" \in DOMAIN c THEN c.total
                    ELSE IF {"currency", "minor"} \cap DOMAIN c # {} THEN 0 ELSE typed
  BY DEF Correct
<1>2. /\ "total" \in DOMAIN c => c.total \in Nat
      /\ "minor" \in DOMAIN c => c.minor \in Nat
  <2>1. CASE c \in [number : {None, "C1"}] \cup [vendor : {None}] \cup [date : {NoDay}]
    BY <2>1
  <2>2. CASE c \in [currency : Currencies] \cup [total : Typed]
    BY <2>2, TypedAssumption
  <2>3. CASE c \in [minor : {0, 7}]
    BY <2>3
  <2>4. CASE c \in [currency : Currencies, total : Typed]
    <3>1. DOMAIN c = {"currency", "total"} /\ c.total \in Typed
      BY <2>4
    <3>. QED BY <3>1, TypedAssumption
  <2>. QED BY <2>1, <2>2, <2>3, <2>4 DEF Corrections
<1>3. /\ IsRow(row')
      /\ "total" \in DOMAIN c => row'.total = ToMinorUnits(c.total, row'.currency)
      /\ {"total", "minor"} \cap DOMAIN c = {} => row'.total = row.total
      /\ "currency" \notin DOMAIN c => row'.currency = row.currency
  <2>1. IsRow(row)
    BY DEF RowInv
  <2>. QED BY <1>1, <1>2, <2>1, CorrectedRow
<1>4. typed' > 0 => row'.total = ToMinorUnits(typed', row'.currency)
  <2>1. CASE "total" \in DOMAIN c
    BY <1>1, <1>3, <2>1
  <2>2. CASE {"total", "currency", "minor"} \cap DOMAIN c = {}
    <3>1. typed' = typed
      BY <1>1, <2>2
    <3>. QED BY <1>3, <2>2, <3>1 DEF RowInv
  <2>3. CASE "total" \notin DOMAIN c /\ {"currency", "minor"} \cap DOMAIN c # {}
    <3>1. typed' = 0
      BY <1>1, <2>3
    <3>. QED BY <3>1
  <2>. QED BY <2>1, <2>2, <2>3
<1>5. /\ text' \in Texts /\ edits' \in Nat /\ edits' # 0 /\ voucher' = Unissued
  BY DEF Correct, RowInv
<1>6. RowInv'
  BY <1>3, <1>4, <1>5 DEF RowInv
<1>7. VoucherInv'
  BY <1>5 DEF VoucherInv, Unissued
<1>. QED BY <1>6, <1>7

LEMMA SaveCellRow == RowInv /\ VoucherInv /\ SaveCell => RowInv' /\ VoucherInv'
<1>. SUFFICES ASSUME RowInv, SaveCell PROVE RowInv' /\ VoucherInv'
  OBVIOUS
<1>. DEFINE c == [total |-> row.total]
<1>1. IsRow(row) /\ row.total \in Nat
  BY DEF RowInv, IsRow
<1>2. DOMAIN c = {"total"} /\ c.total \in Nat
  BY <1>1
<1>3. row' = Corrected(row, c)
  BY DEF SaveCell
<1>. HIDE DEF c
<1>4. IsRow(row')
  BY <1>1, <1>2, <1>3, CorrectedRow
<1>5. /\ text' \in Texts /\ edits' \in Nat /\ edits' # 0 /\ typed' = 0 /\ voucher' = Unissued
  BY DEF SaveCell, RowInv
<1>6. RowInv'
  BY <1>4, <1>5 DEF RowInv
<1>7. VoucherInv'
  BY <1>5 DEF VoucherInv, Unissued
<1>. QED BY <1>6, <1>7

(* The service selects no texts, so that a total is the row's.             *)
LEMMA NothingIsReadAgain == ExtractTotalAmount(Unselected) = 0
<1>1. DOMAIN Unselected = {}
  BY DEF Unselected
<1>2. Labelled(Unselected) = {}
  BY <1>1 DEF Labelled
<1>3. Unlabelled(Unselected) = {}
  BY <1>1 DEF Unlabelled
<1>. QED BY <1>2, <1>3 DEF ExtractTotalAmount

LEMMA ExportRow == RowInv /\ VoucherInv /\ Export => RowInv' /\ VoucherInv'
<1>. SUFFICES ASSUME RowInv, Export PROVE RowInv' /\ VoucherInv'
  OBVIOUS
<1>1. UNCHANGED <<text, received, row, edits, typed>>
  BY DEF Export
<1>2. RowInv'
  BY <1>1 DEF RowInv
<1>3. PICK total \in ResolvedTotals(row, Unselected) :
        voucher' = VoucherOf(row, NoGst, total, "id", received.server)
  BY DEF Export
<1>4. row.total > 0 /\ total = row.total
  BY <1>3, NothingIsReadAgain DEF ResolvedTotals
<1>5. VoucherInv'
  BY <1>1, <1>3, <1>4 DEF VoucherInv
<1>. QED BY <1>2, <1>5

LEMMA InitRow == Init => RowInv /\ VoucherInv
<1>. SUFFICES ASSUME Init PROVE RowInv /\ VoucherInv
  OBVIOUS
<1>1. PICK dayFirst \in BOOLEAN : row = ParseInvoiceText(text, dayFirst)
  BY DEF Init
<1>2. text \in Texts /\ edits = 0 /\ typed = 0 /\ voucher = Unissued
  BY DEF Init
<1>3. /\ IsRow(row)
      /\ ExtractTotalAmount(text) > 0 =>
           row.total = ToMinorUnits(ExtractTotalAmount(text), row.currency)
  BY <1>1, <1>2, ParsedRow
<1>. QED BY <1>2, <1>3 DEF RowInv, VoucherInv

(* A voucher that is the row's is what the preview showed and is worth     *)
(* what was read or typed.                                                 *)
LEMMA FaithfulFromRow == RowInv /\ VoucherInv => VoucherIsFaithful
<1>. SUFFICES ASSUME RowInv, VoucherInv, voucher # Unissued PROVE VoucherIsFaithful
  BY DEF VoucherIsFaithful
<1>. DEFINE total == ValueOf(voucher.credit.amount)
            shown == Preview(row, "id", received.browser)
<1>1. /\ row.total \in Nat \ {0}
      /\ voucher = VoucherOf(row, NoGst, row.total, "id", received.server)
  BY DEF RowInv, IsRow, VoucherInv
<1>2. NoGst \in Splits(row.total)
  BY DEF Splits
<1>3. /\ voucher.credit.amount.minus /\ \A d \in voucher.debits : ~d.amount.minus
      /\ Balanced(voucher) /\ total = row.total
  BY <1>1, <1>2, VoucherBalances
<1>4. /\ shown.number = voucher.number /\ shown.party = voucher.credit.ledger
      /\ shown.amounts[1] = voucher.credit.amount
  BY <1>1 DEF Preview, VoucherOf
<1>5. shown.date = voucher.date \/ (row.date = NoDay /\ received.server # received.browser)
  BY <1>1 DEF Preview, VoucherOf
<1>. HIDE DEF total
<1>6. \A gst \in Splits(total) : Balanced(VoucherOf(row, gst, total, "id", received.server))
  BY <1>1, <1>3, VoucherBalances
<1>7. /\ typed > 0 => total = ToMinorUnits(typed, row.currency)
      /\ edits = 0 /\ ExtractTotalAmount(text) > 0 =>
           total = ToMinorUnits(ExtractTotalAmount(text), row.currency)
  BY <1>3 DEF RowInv
<1>. HIDE DEF shown
<1>. QED BY <1>1, <1>3, <1>4, <1>5, <1>6, <1>7 DEF VoucherIsFaithful, total, shown

(* VoucherIsFaithful is true of every text, currency and correction: the   *)
(* voucher balances, is what the dashboard's preview showed, the day aside *)
(* of an invoice without a date, and is worth what was typed last or read, *)
(* to the last minor unit, and more than nothing (exportApprovedInvoices,  *)
(* buildVoucherElement, tallyMapping.ts, updateInvoiceParsedFields).       *)
THEOREM VoucherFaithful == Spec => []VoucherIsFaithful
<1>1. Init => RowInv /\ VoucherInv
  BY InitRow
<1>2. RowInv /\ VoucherInv /\ [Next]_vars => RowInv' /\ VoucherInv'
  <2>. SUFFICES ASSUME RowInv, VoucherInv, [Next]_vars PROVE RowInv' /\ VoucherInv'
    OBVIOUS
  <2>1. CASE Correct
    BY <2>1, CorrectRow
  <2>2. CASE SaveCell
    BY <2>2, SaveCellRow
  <2>3. CASE Export
    BY <2>3, ExportRow
  <2>4. CASE UNCHANGED vars
    BY <2>4 DEF vars, RowInv, VoucherInv
  <2>. QED BY <2>1, <2>2, <2>3, <2>4 DEF Next
<1>. QED BY <1>1, <1>2, FaithfulFromRow, PTL DEF Spec
===============================================================================

--------------------------- MODULE Dashboard_proofs ---------------------------
(***************************************************************************)
(* Proofs about what the page shows.  The dashboard: its selection and the *)
(* card of the job keep what Dashboard says of them, for any invoices,     *)
(* jobs and number of changes.  The source highlights: where a total is    *)
(* marked and which images stand for a value, for any readings of a        *)
(* document, page sizes and resolutions, and any number of runs on it.     *)
(***************************************************************************)
EXTENDS Dashboard, SourceHighlights, FiniteSetTheorems, WellFoundedInduction, TLAPS

LEMMA ActLeaves ==
  ASSUME OthersChange \/ Act
  PROVE  UNCHANGED <<shown, jobs>>
<1>1. CASE OthersChange
  BY <1>1 DEF OthersChange
<1>2. CASE Approve \/ Retry \/ Delete
  BY <1>2 DEF Approve, Retry, Delete, Request
<1>3. CASE DeleteSingle \/ SaveListCell \/ SaveField
  BY <1>3 DEF DeleteSingle, SaveListCell, SaveField, Request
<1>4. CASE Export
  BY <1>4 DEF Export
<1> QED
  BY <1>1, <1>2, <1>3, <1>4 DEF Act

LEMMA SelectionStep ==
  ASSUME SelectionIsOpen, [Next]_vars
  PROVE  SelectionIsOpen'
<1>1. CASE OthersChange \/ Act
  BY <1>1, ActLeaves DEF shown, SelectionIsOpen, Selectable
<1>2. CASE ShowList
  <2>1. PICK r \in past : \E l \in Listed(r) :
          list' = l /\ selected' = MergeSelected(selected, l)
    BY <1>2 DEF ShowList
  <2> QED
    BY <2>1 DEF MergeSelected, SelectionIsOpen, Selectable
<1>3. CASE ShowDetail
  BY <1>3 DEF ShowDetail, SelectionIsOpen, Selectable
<1>4. CASE Answered
  BY <1>4 DEF Answered, SelectionIsOpen, Selectable
<1>5. CASE ToggleAll
  BY <1>5 DEF ToggleAll, Chosen, SelectionIsOpen, Selectable
<1>6. ASSUME NEW i \in Invoice, Toggle(i) PROVE SelectionIsOpen'
  BY <1>6 DEF Toggle, SelectionIsOpen, Selectable
<1>7. ASSUME NEW i \in Invoice \cup {None}, Click(i) PROVE SelectionIsOpen'
  BY <1>7 DEF Click, SelectionIsOpen, Selectable
<1>8. CASE JobChanges \/ Ingest \/ HearAnswer \/ HearMessage
  BY <1>8 DEF JobChanges, Ingest, HearAnswer, HearMessage, OfPage, shown,
              SelectionIsOpen, Selectable
<1>9. CASE Render \/ Break \/ Hide
  BY <1>9 DEF Render, Break, Hide, OfPage, shown, SelectionIsOpen, Selectable
<1>10. CASE UNCHANGED vars
  BY <1>10 DEF vars, shown, SelectionIsOpen, Selectable
<1> QED
  BY <1>1, <1>2, <1>3, <1>4, <1>5, <1>6, <1>7, <1>8, <1>9, <1>10 DEF Next

(* No invoice shown as exported or pending is ever selected, however late  *)
(* lists come.                                                             *)
THEOREM SelectionStaysOpen == Spec => []SelectionIsOpen
<1>1. Init => SelectionIsOpen
  BY DEF Init, SelectionIsOpen
<1>2. SelectionIsOpen /\ [Next]_vars => SelectionIsOpen'
  BY SelectionStep
<1> QED
  BY <1>1, <1>2, PTL DEF Spec

-----------------------------------------------------------------------------
(***************************************************************************)
(* The card.  A status it shows is one the server had; of a job that does  *)
(* not run, a stream has nothing to say but that; a page that shows a job  *)
(* as running has its stream, which will say so, or is about to open one,  *)
(* which will begin with it.                                               *)
(***************************************************************************)
CardInv ==
  /\ said \subseteq JobStatus \cup {Idle} /\ job \in said
  /\ job = Idle => said = {Idle}
  /\ card # None => card \in said
  /\ ~job.running => sent \in {None, job}
  /\ ~stream => sent = None
  /\ sent # None => sent \in said
  /\ stream \in BOOLEAN /\ broke \in BOOLEAN /\ lost \in BOOLEAN
  /\ RunningIsFollowed /\ EndIsHeard

LEMMA StatusIsTyped ==
  ASSUME NEW c \in JobStatus \cup {Idle}
  PROVE  c.running \in BOOLEAN /\ (c \in JobStatus => c # Idle) /\ ~Idle.running
<1>1. Idle.state = "idle" /\ Idle.running = FALSE
  BY DEF Idle
<1>2. c \in JobStatus => c.state # "idle" /\ c.running \in BOOLEAN
  BY DEF JobStatus
<1>. QED BY <1>1, <1>2

(* A status that runs is not the first one. *)
LEMMA RunningGreets ==
  ASSUME CardInv, NEW c \in said, Running(c)
  PROVE  Greeting = job
BY StatusIsTyped DEF CardInv, Running, Greeting

LEMMA JobStep ==
  ASSUME CardInv, JobChanges \/ Ingest
  PROVE  CardInv'
<1>1. CASE JobChanges
  <2>1. PICK status \in JobStatus :
          /\ job' = status /\ said' = said \cup {status}
          /\ sent' = IF stream THEN status ELSE sent
    BY <1>1 DEF JobChanges, Report
  <2>2. UNCHANGED <<card, rendered, stream, broke>> /\ lost' = (lost /\ ~stream)
    BY <1>1 DEF JobChanges
  <2>3. status # Idle
    BY StatusIsTyped
  <2>4. lost' \in BOOLEAN
    BY <2>2
  <2>5. RunningIsFollowed'
    BY <2>2 DEF CardInv, RunningIsFollowed, Running
  <2>6. EndIsHeard'
    <3>1. CASE Running(rendered)
      BY <2>1, <2>2, <3>1 DEF CardInv, RunningIsFollowed, EndIsHeard, Running
    <3>2. CASE ~Running(rendered)
      <4>1. Greeting' = job'
        BY <2>1, <2>3 DEF Greeting
      <4>. QED BY <2>2, <3>2, <4>1 DEF EndIsHeard, Running
    <3>. QED BY <3>1, <3>2
  <2>. QED BY <2>1, <2>2, <2>3, <2>4, <2>5, <2>6 DEF CardInv
<1>2. CASE Ingest
  <2>1. /\ job' = [state |-> "running", running |-> TRUE] /\ said' = said \cup {job'}
        /\ UNCHANGED <<card, rendered, stream, sent, broke, lost>>
    BY <1>2 DEF Ingest, Report, lapses
  <2>2. job' \in JobStatus /\ job'.running
    BY <2>1 DEF JobStatus
  <2>3. job' # Idle
    BY <2>2, StatusIsTyped
  <2>4. RunningIsFollowed' /\ EndIsHeard'
    BY <2>1, <2>2 DEF CardInv, RunningIsFollowed, EndIsHeard, Running
  <2>. QED BY <2>1, <2>2, <2>3, <2>4 DEF CardInv
<1>. QED BY <1>1, <1>2

LEMMA HearStep ==
  ASSUME CardInv, HearAnswer \/ HearMessage
  PROVE  CardInv'
<1>1. UNCHANGED <<job, said, rendered, stream, broke>>
  BY DEF HearAnswer, HearMessage, lapses
<1>2. RunningIsFollowed'
  BY <1>1 DEF CardInv, RunningIsFollowed, Running
<1>3. Greeting' = Greeting
  BY <1>1 DEF Greeting
<1>4. CASE HearAnswer
  <2>1. /\ card' \in said /\ sent' = sent
        /\ lost' = (lost \/ (Running(rendered) /\ ~Running(card) /\ Running(card')))
    BY <1>4 DEF HearAnswer
  <2>2. lost' \in BOOLEAN
    BY <2>1
  <2>3. EndIsHeard'
    <3>. SUFFICES ASSUME Running(card'), ~job.running, ~broke, ~lost'
                  PROVE  IF Running(rendered) THEN sent = job ELSE Greeting = job
      BY <1>1, <1>3, <2>1 DEF EndIsHeard, Running
    <3>1. CASE Running(rendered)
      <4>1. ~lost /\ Running(card)
        BY <2>1, <3>1, Zenon
      <4>. QED BY <3>1, <4>1 DEF CardInv, EndIsHeard
    <3>2. CASE ~Running(rendered)
      BY <2>1, <3>2, RunningGreets
    <3>. QED BY <3>1, <3>2
  <2>. QED BY <1>1, <1>2, <2>1, <2>2, <2>3 DEF CardInv
<1>5. CASE HearMessage
  <2>1. /\ sent # None /\ lost' = lost
        /\ \/ card' \in said /\ sent' = sent
           \/ card' = sent /\ sent' = None
    BY <1>5 DEF HearMessage, lapses
  <2>2. CASE job.running
    <3>1. EndIsHeard'
      BY <1>1, <2>2 DEF EndIsHeard
    <3>2. card' # None => card' \in said'
      BY <1>1, <2>1 DEF CardInv
    <3>. QED BY <1>1, <1>2, <2>1, <2>2, <3>1, <3>2 DEF CardInv
  <2>3. CASE ~job.running
    <3>1. sent = job /\ job \in said
      BY <2>1, <2>3 DEF CardInv
    <3>2. EndIsHeard'
      <4>. SUFFICES ASSUME Running(card')
                    PROVE  IF Running(rendered) THEN sent' = job ELSE Greeting = job
        BY <1>1, <1>3 DEF EndIsHeard, Running
      <4>1. card' # job
        BY <2>3 DEF Running
      <4>2. card' \in said /\ sent' = job
        BY <2>1, <3>1, <4>1
      <4>. QED BY <4>2, RunningGreets
    <3>. QED BY <1>1, <1>2, <2>1, <2>3, <3>1, <3>2 DEF CardInv
  <2>. QED BY <2>2, <2>3
<1>. QED BY <1>4, <1>5

LEMMA RenderStep ==
  ASSUME CardInv, Render
  PROVE  CardInv'
<1>1. /\ rendered' = card /\ UNCHANGED <<job, said, card>>
      /\ stream' = (Follow(card) \/ (stream /\ Running(card)))
      /\ sent' = IF Follow(card) THEN Greeting ELSE IF Running(card) THEN sent ELSE None
      /\ broke' = (broke /\ ~Follow(card)) /\ lost' = (lost /\ ~Follow(card))
  BY DEF Render
<1>2. stream' \in BOOLEAN /\ broke' \in BOOLEAN /\ lost' \in BOOLEAN
  BY <1>1
<1>3. CASE Follow(card)
  <2>1. card \in said /\ Running(card) /\ stream' /\ sent' = Greeting
    BY <1>1, <1>3 DEF Follow, Running, CardInv
  <2>2. Greeting = job
    BY <2>1, RunningGreets
  <2>3. RunningIsFollowed' /\ EndIsHeard'
    BY <1>1, <2>1, <2>2 DEF RunningIsFollowed, EndIsHeard, Running
  <2>. QED BY <1>1, <1>2, <2>1, <2>2, <2>3 DEF CardInv
<1>4. CASE ~Follow(card) /\ Running(card)
  <2>1. Running(rendered)
    BY <1>4 DEF Follow
  <2>2. stream' = stream /\ broke' = broke /\ lost' = lost /\ sent' = sent
    BY <1>1, <1>2, <1>4 DEF CardInv
  <2>3. RunningIsFollowed'
    BY <1>1, <2>1, <2>2 DEF CardInv, RunningIsFollowed, Running
  <2>4. EndIsHeard'
    BY <1>1, <1>4, <2>1, <2>2 DEF CardInv, EndIsHeard, Running
  <2>. QED BY <1>1, <1>2, <2>2, <2>3, <2>4 DEF CardInv
<1>5. CASE ~Running(card)
  <2>1. ~stream' /\ sent' = None
    BY <1>1, <1>5 DEF Follow
  <2>2. RunningIsFollowed' /\ EndIsHeard'
    BY <1>1, <1>5 DEF RunningIsFollowed, EndIsHeard, Running
  <2>. QED BY <1>1, <1>2, <2>1, <2>2 DEF CardInv
<1>. QED BY <1>3, <1>4, <1>5

LEMMA CardStep ==
  ASSUME CardInv, [Next]_vars
  PROVE  CardInv'
<1>1. ASSUME UNCHANGED jobs PROVE CardInv'
  BY <1>1 DEF jobs, lapses, CardInv, RunningIsFollowed, EndIsHeard, Greeting, Running
<1>2. CASE OthersChange \/ Act
  BY <1>1, <1>2, ActLeaves
<1>3. CASE ShowList \/ ShowDetail \/ Answered \/ ToggleAll \/ \E i \in Invoice : Toggle(i)
  BY <1>1, <1>3 DEF ShowList, ShowDetail, Answered, ToggleAll, Toggle
<1>4. ASSUME NEW i \in Invoice \cup {None}, Click(i) PROVE CardInv'
  BY <1>1, <1>4 DEF Click
<1>5. CASE JobChanges \/ Ingest
  BY <1>5, JobStep
<1>6. CASE HearAnswer \/ HearMessage
  BY <1>6, HearStep
<1>7. CASE Render
  BY <1>7, RenderStep
<1>8. CASE Break
  <2>1. /\ stream' = FALSE /\ sent' = None /\ broke' = TRUE
        /\ UNCHANGED <<job, said, card, rendered, lost>>
    BY <1>8 DEF Break
  <2>2. RunningIsFollowed' /\ EndIsHeard'
    BY <2>1 DEF RunningIsFollowed, EndIsHeard
  <2>. QED BY <2>1, <2>2 DEF CardInv
<1>9. CASE Hide
  <2>1. card' = None /\ UNCHANGED <<job, said, rendered, stream, sent, broke, lost>>
    BY <1>9 DEF Hide, lapses
  <2>2. RunningIsFollowed' /\ EndIsHeard'
    BY <2>1 DEF CardInv, RunningIsFollowed, EndIsHeard, Running
  <2>. QED BY <2>1, <2>2 DEF CardInv
<1>10. CASE UNCHANGED vars
  BY <1>1, <1>10 DEF vars
<1> QED
  BY <1>2, <1>3, <1>4, <1>5, <1>6, <1>7, <1>8, <1>9, <1>10 DEF Next

LEMMA CardBegins ==
  ASSUME Init
  PROVE  CardInv
BY DEF Init, CardInv, RunningIsFollowed, EndIsHeard, Running

(* A page that says that a job runs follows its stream, unless it broke.   *)
THEOREM RunningStaysFollowed == Spec => []RunningIsFollowed
<1>1. CardInv => RunningIsFollowed
  BY DEF CardInv
<1> QED
  BY <1>1, CardBegins, CardStep, PTL DEF Spec

(* A page that shows a job as running when it has ended hears of the end,  *)
(* however many jobs and streams there were and however answers and        *)
(* messages overtook each other, with the exceptions of EndIsHeard.        *)
THEOREM EndIsAlwaysHeard == Spec => []EndIsHeard
<1>1. CardInv => EndIsHeard
  BY DEF CardInv
<1> QED
  BY <1>1, CardBegins, CardStep, PTL DEF Spec

-----------------------------------------------------------------------------
(***************************************************************************)
(* Rounding.  A coordinate x of of becomes a fraction v of U where the     *)
(* page marks it and a pixel q of W where an image is cut: a pixel and a   *)
(* unit apart at most, times the size of the other.                        *)
(***************************************************************************)
LEMMA Quotient ==
  ASSUME NEW a \in Int, NEW b \in Nat \ {0}
  PROVE  /\ a \div b \in Int
         /\ (a \div b) * b <= a /\ a < (a \div b) * b + b
OBVIOUS

LEMMA Scaled ==
  ASSUME NEW a \in Int, NEW b \in Int, NEW c \in Nat, a <= b
  PROVE  a * c <= b * c
OBVIOUS

LEMMA Unscaled ==
  ASSUME NEW a \in Int, NEW b \in Int, NEW c \in Nat \ {0}, a * c < b * c
  PROVE  a < b
OBVIOUS

LEMMA Rounds ==
  ASSUME NEW a \in Nat, NEW b \in Nat \ {0}
  PROVE  /\ RoundDiv(a, b) \in Int
         /\ RoundDiv(a, b) * (2 * b) <= 2 * a + b
         /\ 2 * a + b < RoundDiv(a, b) * (2 * b) + 2 * b
<1>1. 2 * a + b \in Int /\ 2 * b \in Nat \ {0}
  OBVIOUS
<1>. QED BY <1>1, Quotient DEF RoundDiv

LEMMA Ceils ==
  ASSUME NEW a \in Nat, NEW b \in Nat \ {0}
  PROVE  /\ CeilDiv(a, b) \in Int
         /\ a <= CeilDiv(a, b) * b /\ CeilDiv(a, b) * b < a + b
<1>. DEFINE q == (-a) \div b
<1>1. q \in Int /\ q * b <= -a /\ -a < q * b + b
  BY Quotient
<1>2. CeilDiv(a, b) = -q
  BY DEF CeilDiv
<1>. HIDE DEF q
<1>3. (-q) * b = -(q * b)
  BY <1>1
<1>. QED BY <1>1, <1>2, <1>3

(* v is x of of to the nearest of U; q is x of of W, rounded down.         *)
LEMMA FloorNear ==
  ASSUME NEW W \in Nat \ {0}, NEW U \in Nat \ {0}, NEW of \in Nat \ {0}, NEW x \in Nat,
         NEW v \in Int, NEW q \in Int,
         v * (2 * of) <= 2 * (x * U) + of, 2 * (x * U) + of < v * (2 * of) + 2 * of,
         q * of <= x * W, x * W < q * of + of
  PROVE  2 * (v * W - q * U) < W + 2 * U /\ -W < 2 * (v * W - q * U)
<1>1. (v * (2 * of)) * W <= (2 * (x * U) + of) * W
  BY Scaled
<1>2. (2 * (x * U) + of) * W < (v * (2 * of) + 2 * of) * W
  OBVIOUS
<1>3. (q * of) * U <= (x * W) * U
  BY Scaled
<1>4. (x * W) * U < (q * of + of) * U
  OBVIOUS
<1>5. (2 * (v * W - q * U)) * of < (W + 2 * U) * of
  BY <1>1, <1>4
<1>6. (-W) * of < (2 * (v * W - q * U)) * of
  BY <1>2, <1>3
<1>. QED BY <1>5, <1>6, Unscaled

(* The same with c, x of of W rounded up: the floor of all but a pixel.    *)
LEMMA CeilNear ==
  ASSUME NEW W \in Nat \ {0}, NEW U \in Nat \ {0}, NEW of \in Nat \ {0}, NEW x \in Nat,
         NEW v \in Int, NEW c \in Int,
         v * (2 * of) <= 2 * (x * U) + of, 2 * (x * U) + of < v * (2 * of) + 2 * of,
         x * W <= c * of, c * of < x * W + of
  PROVE  2 * (v * W - c * U) <= W /\ -(W + 2 * U) < 2 * (v * W - c * U)
<1>1. (v * (2 * of)) * W <= (2 * (x * U) + of) * W
  BY Scaled
<1>2. (2 * (x * U) + of) * W < (v * (2 * of) + 2 * of) * W
  OBVIOUS
<1>3. (x * W) * U <= (c * of) * U
  BY Scaled
<1>4. (c * of) * U < (x * W + of) * U
  OBVIOUS
<1>5. (2 * (v * W - c * U)) * of < (W + 1) * of
  BY <1>1, <1>3
<1>6. (-(W + 2 * U)) * of < (2 * (v * W - c * U)) * of
  BY <1>2, <1>4
<1>. QED BY <1>5, <1>6, Unscaled

(* Pixels of a page's image that coordinates of a place are cut at         *)
LeftOf(x, of, W)     == Clamp(0, W - 1, (x * W) \div of)
RightOf(x, y, of, W) == Greater(LeftOf(x, of, W) + 1, Lesser(W, CeilDiv(y * W, of)))

Close(v, pixel, W) == v * W - pixel * Unit \in -(Unit + W)..(Unit + W)

LEMMA LeftIsClose ==
  ASSUME NEW W \in Nat \ {0}, NEW of \in Nat \ {0}, NEW x \in 0..of
  PROVE  Close(RoundDiv(x * Unit, of), LeftOf(x, of, W), W)
<1>. DEFINE U == Unit
            v == RoundDiv(x * U, of)
            q == (x * W) \div of
<1>1. U \in Nat \ {0} /\ x \in Nat /\ x * U \in Nat /\ x * W \in Nat
  BY HighlightAssumption
<1>2. v \in Int /\ v * (2 * of) <= 2 * (x * U) + of /\ 2 * (x * U) + of < v * (2 * of) + 2 * of
  BY <1>1, Rounds
<1>3. q \in Int /\ q * of <= x * W /\ x * W < q * of + of
  BY <1>1, Quotient
<1>4. LeftOf(x, of, W) = Greater(0, Lesser(W - 1, q))
  BY DEF LeftOf, Clamp
<1>. HIDE DEF U, v, q
<1>5. 2 * (v * W - q * U) < W + 2 * U /\ -W < 2 * (v * W - q * U)
  BY <1>1, <1>2, <1>3, FloorNear
<1>6. q >= 0
  <2>1. (-1) * of < q * of
    BY <1>1, <1>3
  <2>. QED BY <1>3, <2>1, Unscaled
<1>7. CASE q <= W - 1
  <2>1. LeftOf(x, of, W) = q
    BY <1>3, <1>4, <1>6, <1>7 DEF Greater, Lesser
  <2>. QED BY <1>1, <1>2, <1>3, <1>5, <2>1 DEF Close, U, v
<1>8. CASE q >= W
  <2>1. LeftOf(x, of, W) = W - 1
    BY <1>3, <1>4, <1>8 DEF Greater, Lesser
  <2>2. x = of
    <3>1. W * of <= q * of
      BY <1>3, <1>8, Scaled
    <3>2. of * W <= x * W
      BY <1>1, <1>3, <3>1
    <3>3. (of - 1) * W < x * W
      BY <3>2
    <3>. QED BY <1>1, <3>3, Unscaled
  <2>3. v = U
    <3>1. v * (2 * of) < (U + 1) * (2 * of)
      BY <1>1, <1>2, <2>2
    <3>2. (U - 1) * (2 * of) < v * (2 * of)
      BY <1>1, <1>2, <2>2
    <3>. QED BY <1>1, <1>2, <3>1, <3>2, Unscaled
  <2>4. v * W - (W - 1) * U = U
    BY <1>1, <2>3
  <2>. QED BY <1>1, <2>1, <2>4 DEF Close, U, v
<1>. QED BY <1>3, <1>7, <1>8

LEMMA RightIsClose ==
  ASSUME NEW W \in Nat \ {0}, NEW of \in Nat \ {0}, NEW x \in 0..of, NEW y \in 0..of, x < y
  PROVE  Close(RoundDiv(y * Unit, of), RightOf(x, y, of, W), W)
<1>. DEFINE U == Unit
            v == RoundDiv(y * U, of)
            q == (x * W) \div of
            c == CeilDiv(y * W, of)
<1>1. U \in Nat \ {0} /\ x \in Nat /\ y \in Nat /\ y * U \in Nat /\ x * W \in Nat /\ y * W \in Nat
  BY HighlightAssumption
<1>2. v \in Int /\ v * (2 * of) <= 2 * (y * U) + of /\ 2 * (y * U) + of < v * (2 * of) + 2 * of
  BY <1>1, Rounds
<1>3. q \in Int /\ q * of <= x * W
  BY <1>1, Quotient
<1>4. c \in Int /\ y * W <= c * of /\ c * of < y * W + of
  BY <1>1, Ceils
<1>5. RightOf(x, y, of, W) = Greater(Greater(0, Lesser(W - 1, q)) + 1, Lesser(W, c))
  BY DEF RightOf, LeftOf, Clamp
<1>. HIDE DEF U, v, q, c
<1>6. 2 * (v * W - c * U) <= W /\ -(W + 2 * U) < 2 * (v * W - c * U)
  BY <1>1, <1>2, <1>4, CeilNear
<1>7. c <= W
  <2>1. y * W <= of * W
    BY <1>1, Scaled
  <2>2. c * of < (W + 1) * of
    BY <1>1, <1>4, <2>1
  <2>. QED BY <1>4, <2>2, Unscaled
<1>8. q < c /\ 0 < c
  <2>1. x * W < y * W
    BY <1>1
  <2>2. q * of < c * of
    BY <1>3, <1>4, <2>1
  <2>3. 0 * of < c * of
    BY <1>1, <1>4, <2>1
  <2>. QED BY <1>3, <1>4, <2>2, <2>3, Unscaled
<1>9. RightOf(x, y, of, W) = c
  BY <1>3, <1>4, <1>5, <1>7, <1>8 DEF Greater, Lesser
<1>. QED BY <1>1, <1>2, <1>4, <1>6, <1>9 DEF Close, U, v

(* A place: a box within of. *)
IsPlace(place, b, n) ==
  /\ n \in Nat \ {0} /\ b \in [1..4 -> 0..n] /\ b[1] < b[3] /\ b[2] < b[4]
  /\ place = Fraction(b, n, n)

LEMMA PlaceIsNear ==
  ASSUME NEW place, NEW b, NEW n, IsPlace(place, b, n)
  PROVE  Near(Rounded(place), Region(place))
<1>. DEFINE r == Rounded(place)
            s == Region(place)
            cl(k) == Clamp(0, n, b[k])
<1>1. n \in Nat \ {0} /\ \A k \in 1..4 : b[k] \in 0..n
  BY DEF IsPlace
<1>2. \A k \in 1..4 : Clamp(0, n, b[k]) = b[k]
  BY <1>1 DEF Clamp, Greater, Lesser
<1>3. /\ place.at[1] = b[1] /\ place.at[2] = b[2] /\ place.at[3] = b[3] /\ place.at[4] = b[4]
      /\ place.of[1] = n /\ place.of[2] = n
  BY <1>2 DEF IsPlace, Fraction, Map
<1>4. /\ r[1] = RoundDiv(b[1] * Unit, n) /\ r[2] = RoundDiv(b[2] * Unit, n)
      /\ r[3] = RoundDiv(b[3] * Unit, n) /\ r[4] = RoundDiv(b[4] * Unit, n)
  BY <1>3 DEF Rounded, Map
<1>5. /\ s[1] = LeftOf(b[1], n, Width) /\ s[3] = RightOf(b[1], b[3], n, Width)
      /\ s[2] = LeftOf(b[2], n, Height) /\ s[4] = RightOf(b[2], b[4], n, Height)
  BY <1>3 DEF Region, LeftOf, RightOf
<1>. HIDE DEF r, s
<1>6. Width \in Nat \ {0} /\ Height \in Nat \ {0}
  BY HighlightAssumption
<1>7. b[1] < b[3] /\ b[2] < b[4]
  BY DEF IsPlace
<1>8. /\ Close(r[1], s[1], Width) /\ Close(r[2], s[2], Height)
      /\ Close(r[3], s[3], Width) /\ Close(r[4], s[4], Height)
  BY <1>1, <1>4, <1>5, <1>6, <1>7, LeftIsClose, RightIsClose
<1>9. Near(r, s)
  BY <1>8 DEF Near, Close
<1>. QED BY <1>9 DEF r, s

-----------------------------------------------------------------------------
(***************************************************************************)
(* Blocks.  What the client accepts are blocks on pages of the document    *)
(* with proper boxes; findBlockForField chooses the best of them.          *)
(***************************************************************************)
GoodText(text) ==
  /\ text.reads \in [Value -> Nat] /\ text.bulk \in Nat
  /\ text.alone \cap Amount # {} => text.label \notin {"total", "charge"}

GoodBox(b, S) == b = Nil \/ (Proper(b) /\ b \in [1..4 -> S])

GoodBlock(k) ==
  /\ k.page \in Page /\ GoodText(k.text) /\ Proper(k.bbox)
  /\ GoodBox(k.norm, 0..Unit) /\ GoodBox(k.model, 0..Model)

GoodBlocks(blocks) ==
  /\ Len(blocks) \in Nat /\ DOMAIN blocks = 1..Len(blocks)
  /\ \A i \in DOMAIN blocks : GoodBlock(blocks[i])

LEMMA SmallestExists ==
  ASSUME NEW T \in SUBSET Nat, T # {}
  PROVE  \E m \in T : \A k \in T : m <= k
<1>1. PICK m \in T : \A k \in T : ~ (<<k, m>> \in OpToRel(<, Nat))
  BY NatLessThanWellFounded, WFMin
<1>2. \A k \in T : ~ (k < m)
  BY <1>1, Zenon DEF OpToRel
<1>3. \A k \in T : m <= k
  BY <1>2
<1>. QED BY <1>3

LEMMA OrderedIsGood ==
  ASSUME NEW S \in SUBSET Int, NEW b, b = Nil \/ b \in [1..4 -> S]
  PROVE  GoodBox(Ordered(b), S)
<1>. DEFINE o == <<Lesser(b[1], b[3]), Lesser(b[2], b[4]),
                   Greater(b[1], b[3]), Greater(b[2], b[4])>>
<1>1. CASE b = Nil
  BY <1>1 DEF Ordered, GoodBox
<1>2. CASE b # Nil
  <2>1. Ordered(b) = IF Proper(o) THEN o ELSE Nil
    BY <1>2 DEF Ordered
  <2>2. b[1] \in S /\ b[2] \in S /\ b[3] \in S /\ b[4] \in S
    BY <1>2
  <2>3. /\ Lesser(b[1], b[3]) \in S /\ Lesser(b[2], b[4]) \in S
        /\ Greater(b[1], b[3]) \in S /\ Greater(b[2], b[4]) \in S
    BY <2>2 DEF Lesser, Greater
  <2>4. o \in [1..4 -> S]
    BY <2>3
  <2>. HIDE DEF o
  <2>. QED BY <2>1, <2>4 DEF GoodBox
<1>. QED BY <1>1, <1>2

(* Accepted's recursion: the g[i] of the i that are to be kept, up to n.    *)
IsFold(f, keep, g, n) ==
  f = [i \in 0..n |-> IF i = 0 THEN << >>
                      ELSE IF i \notin keep THEN f[i - 1]
                      ELSE Append(f[i - 1], g[i])]

(* A fold over the blocks exists, and builds a sequence of what it takes.  *)
LEMMA FoldExists ==
  ASSUME NEW keep, NEW g, NEW n \in Nat
  PROVE  \E f : IsFold(f, keep, g, n)
<1>. DEFINE Step(f, i) == IF i \notin keep THEN f[i - 1] ELSE Append(f[i - 1], g[i])
            R(f, m) == f = [i \in 0..m |-> IF i = 0 THEN << >> ELSE Step(f, i)]
            T == {m \in Nat : ~ \E f : R(f, m)}
<1>0. SUFFICES \E f : R(f, n)
  BY DEF IsFold
<1>1. SUFFICES ASSUME T # {} PROVE FALSE
  OBVIOUS
<1>2. T \in SUBSET Nat
  OBVIOUS
<1>3. \A m \in T : ~ \E f : R(f, m)
  OBVIOUS
<1>4. \A m \in Nat : m \notin T => \E f : R(f, m)
  OBVIOUS
<1>. HIDE DEF T
<1>5. PICK m \in T : \A k \in T : m <= k
  BY <1>1, <1>2, SmallestExists
<1>6. CASE m = 0
  <2>. DEFINE f == [i \in 0..0 |-> << >>]
  <2>1. R(f, 0)
    OBVIOUS
  <2>. QED BY <1>3, <1>6, <2>1
<1>7. CASE m # 0
  <2>1. m \in Nat /\ m - 1 \in Nat /\ m - 1 \notin T
    BY <1>2, <1>5, <1>7
  <2>2. PICK f : R(f, m - 1)
    BY <1>4, <2>1
  <2>3. \A i \in 0..(m - 1) : f[i] = IF i = 0 THEN << >> ELSE Step(f, i)
    <3>. HIDE DEF Step
    <3>. QED BY <2>2
  <2>. DEFINE h == [i \in 0..m |-> IF i = m THEN Step(f, m) ELSE f[i]]
  <2>4. \A i \in 0..(m - 1) : h[i] = f[i]
    <3>. HIDE DEF Step
    <3>. QED BY <2>1
  <2>5. \A i \in 1..m : Step(h, i) = Step(f, i)
    <3>1. \A i \in 1..m : h[i - 1] = f[i - 1]
      BY <2>1, <2>4
    <3>. HIDE DEF h
    <3>. QED BY <3>1
  <2>6. \A i \in 0..m : h[i] = IF i = 0 THEN << >> ELSE Step(f, i)
    <3>. HIDE DEF Step
    <3>. QED BY <1>7, <2>1, <2>3
  <2>7. \A i \in 0..m : h[i] = IF i = 0 THEN << >> ELSE Step(h, i)
    <3>. HIDE DEF Step, h
    <3>. QED BY <2>1, <2>5, <2>6
  <2>8. R(h, m)
    <3>1. h = [i \in 0..m |-> h[i]]
      <4>. HIDE DEF Step
      <4>. QED OBVIOUS
    <3>. HIDE DEF Step, h
    <3>. QED BY <2>7, <3>1
  <2>. HIDE DEF h, R
  <2>. QED BY <1>3, <2>8
<1>. QED BY <1>6, <1>7

LEMMA FoldIsSeq ==
  ASSUME NEW keep, NEW g, NEW n \in Nat, NEW S, \A i \in 1..n : i \in keep => g[i] \in S,
         NEW f, IsFold(f, keep, g, n)
  PROVE  f[n] \in Seq(S)
<1>. DEFINE T == {m \in 0..n : f[m] \notin Seq(S)}
<1>1. SUFFICES ASSUME T # {} PROVE FALSE
  OBVIOUS
<1>2. T \in SUBSET Nat
  OBVIOUS
<1>3. PICK m \in T : \A k \in T : m <= k
  <2>. HIDE DEF T
  <2>. QED BY <1>1, <1>2, SmallestExists
<1>4. m \in 0..n /\ f[m] \notin Seq(S)
  OBVIOUS
<1>5. f[m] = IF m = 0 THEN << >> ELSE IF m \notin keep THEN f[m - 1]
             ELSE Append(f[m - 1], g[m])
  BY <1>4, Zenon DEF IsFold
<1>6. CASE m = 0
  BY <1>4, <1>5, <1>6
<1>7. CASE m # 0
  <2>1. f[m - 1] \in Seq(S)
    <3>1. m - 1 \notin T /\ m - 1 \in 0..n
      <4>. HIDE DEF T
      <4>. QED BY <1>3, <1>4, <1>7
    <3>. QED BY <3>1
  <2>2. m \in 1..n
    BY <1>4, <1>7
  <2>3. m \in keep => g[m] \in S
    BY <2>2
  <2>4. f[m] = f[m - 1] \/ (m \in keep /\ f[m] = Append(f[m - 1], g[m]))
    BY <1>5, <1>7
  <2>5. m \in keep => Append(f[m - 1], g[m]) \in Seq(S)
    BY <2>1, <2>3
  <2>. QED BY <1>4, <2>1, <2>4, <2>5
<1>. QED BY <1>6, <1>7

LEMMA AcceptedIsGood ==
  ASSUME NEW reading \in Readings
  PROVE  GoodBlocks(Accepted(reading))
<1>. DEFINE n == Len(reading)
            Orderly(k) == [k EXCEPT !.bbox = Ordered(@), !.norm = Ordered(@),
                                    !.model = Ordered(@)]
            keep == {i \in 1..n : Ordered(reading[i].bbox) # Nil}
            g == [i \in 1..n |-> Orderly(reading[i])]
            S == {g[i] : i \in keep}
            R(f) == f = [i \in 0..n |-> IF i = 0 THEN << >>
                                        ELSE IF Ordered(reading[i].bbox) = Nil THEN f[i - 1]
                                        ELSE Append(f[i - 1], Orderly(reading[i]))]
            upTo == CHOOSE f : R(f)
<1>1. n \in Nat /\ DOMAIN reading = 1..n
  BY ReadingAssumption
<1>2. Accepted(reading) = upTo[n]
  BY DEF Accepted
<1>3. ASSUME NEW f PROVE R(f) <=> IsFold(f, keep, g, n)
  <2>1. ASSUME NEW i \in 0..n
        PROVE  (IF i = 0 THEN << >> ELSE IF Ordered(reading[i].bbox) = Nil THEN f[i - 1]
                ELSE Append(f[i - 1], Orderly(reading[i])))
                 = IF i = 0 THEN << >> ELSE IF i \notin keep THEN f[i - 1]
                   ELSE Append(f[i - 1], g[i])
    <3>1. CASE i = 0
      BY <3>1
    <3>2. CASE i # 0
      <4>1. i \in 1..n
        BY <1>1, <3>2
      <4>2. g[i] = Orderly(reading[i]) /\ (i \in keep <=> Ordered(reading[i].bbox) # Nil)
        BY <4>1
      <4>. HIDE DEF g, keep, Orderly
      <4>. QED BY <4>2
    <3>. QED BY <3>1, <3>2
  <2>. HIDE DEF keep, g, Orderly
  <2>. QED BY <2>1 DEF IsFold
<1>4. \E f : IsFold(f, keep, g, n)
  <2>. HIDE DEF keep, g
  <2>. QED BY <1>1, FoldExists
<1>5. IsFold(upTo, keep, g, n)
  <2>. HIDE DEF R
  <2>. QED BY <1>3, <1>4
<1>6. upTo[n] \in Seq(S)
  <2>1. \A i \in 1..n : i \in keep => g[i] \in S
    OBVIOUS
  <2>. HIDE DEF upTo, keep, g, S
  <2>. QED BY <1>1, <1>5, <2>1, FoldIsSeq
<1>7. ASSUME NEW i \in keep PROVE GoodBlock(g[i])
  <2>. DEFINE k == reading[i]
  <2>1. i \in DOMAIN reading
    BY <1>1
  <2>2. /\ k = [text |-> k.text, page |-> k.page, bbox |-> k.bbox,
                norm |-> k.norm, model |-> k.model]
        /\ k.page \in Page /\ k.bbox \in [1..4 -> Int]
        /\ k.norm = Nil \/ k.norm \in [1..4 -> 0..Unit]
        /\ k.model = Nil \/ k.model \in [1..4 -> 0..Model]
        /\ GoodText(k.text)
    BY <2>1, ReadingAssumption DEF GoodText
  <2>. HIDE DEF k
  <2>3. /\ Orderly(k).text = k.text /\ Orderly(k).page = k.page
        /\ Orderly(k).bbox = Ordered(k.bbox) /\ Orderly(k).norm = Ordered(k.norm)
        /\ Orderly(k).model = Ordered(k.model)
    BY <2>2
  <2>4. 0..Unit \in SUBSET Int /\ 0..Model \in SUBSET Int
    OBVIOUS
  <2>5. /\ GoodBox(Ordered(k.bbox), Int) /\ GoodBox(Ordered(k.norm), 0..Unit)
        /\ GoodBox(Ordered(k.model), 0..Model)
    BY <2>2, <2>4, OrderedIsGood
  <2>6. Ordered(k.bbox) # Nil
    BY DEF k
  <2>7. g[i] = Orderly(k)
    BY DEF k
  <2>. HIDE DEF g, Orderly
  <2>. QED BY <2>2, <2>3, <2>5, <2>6, <2>7 DEF GoodBlock, GoodBox
<1>8. \A s \in S : GoodBlock(s)
  BY <1>7
<1>. HIDE DEF upTo, S, n
<1>9. ASSUME NEW s \in Seq(S) PROVE GoodBlocks(s)
  <2>1. Len(s) \in Nat /\ DOMAIN s = 1..Len(s) /\ \A i \in DOMAIN s : s[i] \in S
    OBVIOUS
  <2>. QED BY <1>8, <2>1 DEF GoodBlocks
<1>. QED BY <1>2, <1>6, <1>9

-----------------------------------------------------------------------------
(* The best of finitely many, the first of them. *)
LEMMA BestExists ==
  ASSUME NEW A, IsFiniteSet(A), A # {}, A \subseteq Nat, NEW s \in [A -> Int]
  PROVE  \E i \in A : \A k \in A : s[k] < s[i] \/ (s[k] = s[i] /\ i <= k)
<1>. DEFINE Best(B) == {i \in B : \A k \in B : s[k] < s[i] \/ (s[k] = s[i] /\ i <= k)}
            T == {B \in SUBSET A : B # {} /\ Best(B) = {}}
<1>. SUFFICES ASSUME Best(A) = {} PROVE FALSE
  OBVIOUS
<1>1. T \subseteq SUBSET A /\ T # {}
  OBVIOUS
<1>2. IsWellFoundedOn(StrictSubsetOrdering(A), SUBSET A)
  BY FS_StrictSubsetOrderingWellFounded, FS_FiniteSubsetsOfFinite
<1>3. PICK B \in T : \A C \in T : ~ (<<C, B>> \in StrictSubsetOrdering(A))
  <2>. HIDE DEF T
  <2>. QED BY <1>1, <1>2, WFMin
<1>4. B \subseteq A /\ B # {} /\ Best(B) = {}
  OBVIOUS
<1>5. PICK c \in B : TRUE
  BY <1>4
<1>6. \A k \in B : k \in Nat /\ s[k] \in Int
  BY <1>4
<1>. DEFINE C == B \ {c}
<1>7. <<C, B>> \in StrictSubsetOrdering(A)
  BY <1>4, <1>5 DEF StrictSubsetOrdering
<1>8. C = {} \/ Best(C) # {}
  BY <1>3, <1>4, <1>7
<1>9. CASE C = {}
  <2>1. c \in Best(B)
    BY <1>5, <1>6, <1>9
  <2>. QED BY <1>4, <2>1
<1>10. CASE Best(C) # {}
  <2>1. PICK b \in C : \A k \in C : s[k] < s[b] \/ (s[k] = s[b] /\ b <= k)
    BY <1>10
  <2>2. CASE s[c] < s[b] \/ (s[c] = s[b] /\ b <= c)
    <3>1. b \in Best(B)
      BY <2>1, <2>2
    <3>. QED BY <1>4, <3>1
  <2>3. CASE ~(s[c] < s[b] \/ (s[c] = s[b] /\ b <= c))
    <3>1. c \in Best(B)
      BY <1>5, <1>6, <2>1, <2>3
    <3>. QED BY <1>4, <3>1
  <2>. QED BY <2>2, <2>3
<1>. QED BY <1>8, <1>9, <1>10

LEMMA ScoreIsNumber ==
  ASSUME NEW f, NEW v \in Value, NEW offered, NEW text, GoodText(text)
  PROVE  /\ BlockScore(f, v, offered, text) \in Int
         /\ text.reads[v] \in Nat /\ text.bulk \in Nat
<1>1. KeywordBonus(f, text) \in {6, -3, 4, 0}
  BY DEF KeywordBonus
<1>2. text.reads[v] \in Nat /\ text.bulk \in Nat
  BY DEF GoodText
<1>. QED BY <1>1, <1>2 DEF BlockScore

LEMMA BlockIsBest ==
  ASSUME NEW blocks, GoodBlocks(blocks), NEW f, NEW v \in Value, NEW offered,
         BlockOf(f, v, offered, blocks) # 0
  PROVE  LET i == BlockOf(f, v, offered, blocks)
             score(k) == BlockScore(f, v, offered, blocks[k].text)
         IN /\ i \in DOMAIN blocks /\ Eligible(f, v, offered, blocks[i].text)
            /\ \A k \in DOMAIN blocks :
                 Eligible(f, v, offered, blocks[k].text) => score(k) <= score(i)
<1>. DEFINE score(k) == BlockScore(f, v, offered, blocks[k].text)
            able == {k \in DOMAIN blocks : Eligible(f, v, offered, blocks[k].text)}
            s == [k \in able |-> score(k)]
            Best(i) == \A k \in able : score(k) < score(i) \/ (score(k) = score(i) /\ i <= k)
            i == BlockOf(f, v, offered, blocks)
<1>1. able # {} /\ i = CHOOSE j \in able : Best(j)
  BY DEF BlockOf
<1>2. able \subseteq DOMAIN blocks /\ DOMAIN blocks \subseteq Nat
  BY DEF GoodBlocks
<1>3. IsFiniteSet(able)
  <2>1. IsFiniteSet(DOMAIN blocks)
    BY FS_Interval DEF GoodBlocks
  <2>. QED BY <2>1, FS_Subset
<1>4. \A k \in able : score(k) \in Int
  BY ScoreIsNumber DEF GoodBlocks, GoodBlock
<1>5. \E j \in able : Best(j)
  <2>1. s \in [able -> Int] /\ \A k \in able : s[k] = score(k)
    BY <1>4
  <2>. HIDE DEF able, s, score
  <2>2. PICK j \in able : \A k \in able : s[k] < s[j] \/ (s[k] = s[j] /\ j <= k)
    BY <1>1, <1>2, <1>3, <2>1, BestExists
  <2>. QED BY <2>1, <2>2
<1>6. i \in able /\ Best(i)
  <2>. HIDE DEF able, Best, i
  <2>. QED BY <1>1, <1>5
<1>. HIDE DEF i, score
<1>7. \A k \in able : score(k) <= score(i)
  BY <1>4, <1>6
<1>. QED BY <1>6, <1>7 DEF i, score

(* A total is read where findBlockForField says, if anywhere.              *)
LEMMA TotalBlock ==
  ASSUME NEW blocks, GoodBlocks(blocks), NEW v \in Amount, NEW offered,
         BlockOf("total", v, offered, blocks) # 0
  PROVE  ReadWhere(v, blocks[BlockOf("total", v, offered, blocks)].text, blocks)
<1>. DEFINE i == BlockOf("total", v, offered, blocks)
            score(k) == BlockScore("total", v, offered, blocks[k].text)
            text == blocks[i].text
<1>1. v \in Value
  BY DEF Value
<1>2. /\ i \in DOMAIN blocks /\ Eligible("total", v, offered, text)
      /\ \A k \in DOMAIN blocks :
           Eligible("total", v, offered, blocks[k].text) => score(k) <= score(i)
  BY <1>1, BlockIsBest
<1>. HIDE DEF i
<1>3. GoodText(text)
  BY <1>2 DEF GoodBlocks, GoodBlock
<1>4. text.reads[v] \in Nat /\ text.bulk \in Nat /\ text.reads[v] > 0 /\ score(i) > 0
  BY <1>1, <1>2, <1>3, ScoreIsNumber DEF Eligible
<1>5. ASSUME text.label = "charge", NEW k \in DOMAIN blocks,
             blocks[k].text.label = "total", blocks[k].text.bulk <= text.bulk,
             blocks[k].text.reads[v] > 0
      PROVE  text.reads[v] >= blocks[k].text.reads[v] + 2
  <2>. DEFINE other == blocks[k].text
  <2>1. GoodText(other)
    BY DEF GoodBlocks, GoodBlock
  <2>2. other.reads[v] \in Nat /\ other.bulk \in Nat /\ score(k) \in Int /\ score(i) \in Int
    BY <1>1, <1>3, <2>1, ScoreIsNumber
  <2>3. score(i) <= -3 + 4 * text.reads[v] + 4 - text.bulk
    <3>1. KeywordBonus("total", text) = -3
      BY <1>5 DEF KeywordBonus
    <3>2. v \notin text.alone
      BY <1>3, <1>5 DEF GoodText
    <3>. QED BY <1>4, <3>1, <3>2 DEF BlockScore
  <2>4. score(k) >= 6 + 4 * other.reads[v] - other.bulk
    <3>1. KeywordBonus("total", other) = 6
      BY <1>5 DEF KeywordBonus
    <3>. QED BY <2>2, <3>1 DEF BlockScore
  <2>5. score(k) > 0 => score(k) <= score(i)
    BY <1>2, <1>5 DEF Eligible
  <2>. HIDE DEF score, text, other
  <2>6. other.reads[v] + 2 <= text.reads[v]
    BY <1>4, <1>5, <2>2, <2>3, <2>4, <2>5 DEF other
  <2>. QED BY <2>6 DEF other
<1>. QED BY <1>4, <1>5 DEF ReadWhere, i

-----------------------------------------------------------------------------
(***************************************************************************)
(* Runs, the row and the PATCH.  A provenance is that of one of the blocks *)
(* or of none (Placed), a total is read where ReadWhere says, images are   *)
(* stored of what has a place alone, and a PATCH holds the row's values    *)
(* unless an extraction wrote others.  Unless the last extraction began    *)
(* while another went on, one run at most is at work and has not written   *)
(* the row, so that what it has stored (Depicted) is still there when it   *)
(* does, and stays until the next run begins.                              *)
(***************************************************************************)
Placed(p, blocks) ==
  \/ p = Nil
  \/ p.index = 0 /\ p.norm = Nil /\ p.model = Nil
  \/ /\ p.index \in DOMAIN blocks
     /\ p.page = blocks[p.index].page /\ p.bbox = blocks[p.index].bbox
     /\ p.norm = blocks[p.index].norm /\ p.model = blocks[p.index].model

TotalRead(values, p, blocks) ==
  p # Nil => (p.index # 0 => ReadWhere(values["total"], blocks[p.index].text, blocks))

RunSound(s) ==
  /\ DOMAIN s = {"pc", "blocks", "values", "prov", "images", "todo", "done", "drawn"}
  /\ GoodBlocks(s.blocks) /\ s.images \subseteq Page /\ DOMAIN s.values = Field
  /\ \A f \in Field : Placed(s.prov[f], s.blocks)
  /\ TotalRead(s.values, s.prov["total"], s.blocks)
  /\ s.pc = "ocr" => s.todo = {} /\ s.done = {} /\ s.drawn = {}
  /\ s.pc \in {"crops", "stray"} =>
       \A i \in s.todo : i \in DOMAIN s.blocks /\ Croppable(s.images, s.blocks[i])
  /\ s.pc = "overlays" =>
       \A f \in s.todo : f \in Field /\ Drawable(s.images, s.prov[f])

RowSound ==
  /\ row = [status |-> row.status, blocks |-> row.blocks, prov |-> row.prov,
            values |-> row.values, images |-> row.images, edited |-> row.edited,
            crops |-> row.crops, overlays |-> row.overlays]
  /\ DOMAIN row.values = Field
  /\ GoodBlocks(row.blocks)
  /\ \A f \in Field : Placed(row.prov[f], row.blocks)
  /\ "total" \notin row.edited => TotalRead(row.values, row.prov["total"], row.blocks)

PatchSound ==
  /\ DOMAIN patch = {"open", "values", "settled", "stale"} /\ DOMAIN patch.values = Field
  /\ patch.open /\ ~patch.stale => patch.values = row.values

(* The stored images are of the blocks keys and of the fields drawn.       *)
Depicted(cut, outlined, images, blocks, prov, keys, fields) ==
  /\ \A k \in keys :
       /\ k \in Key /\ k[2] \in DOMAIN blocks
       /\ k[1] = SourcePage(images, blocks[k[2]].page)
       /\ cut[k] = Image(images, blocks[k[2]])
  /\ \A f \in fields :
       f \in Field /\ prov[f] # Nil /\ outlined[f] = Image(images, prov[f])

Alone ==
  /\ \A q, r \in Run : run[q].pc # "idle" /\ run[r].pc # "idle" => q = r
  /\ \A r \in Run : run[r].pc # "idle" =>
       /\ unwritten
       /\ Depicted(crops, overlays, run[r].images, run[r].blocks, run[r].prov,
                   run[r].done, run[r].drawn)
  /\ ~unwritten =>
       Depicted(crops, overlays, row.images, row.blocks, row.prov, row.crops, row.overlays)

ReadingInv ==
  /\ run = [r \in Run |-> run[r]] /\ \A r \in Run : RunSound(run[r])
  /\ RowSound /\ PatchSound
  /\ DOMAIN crops = Key /\ DOMAIN overlays = Field

HighlightInv ==
  /\ ReadingInv
  /\ ~overlapped => Alone

(* A run goes on with what it has read.                                    *)
Continues(s, t) ==
  /\ DOMAIN t = DOMAIN s
  /\ t.blocks = s.blocks /\ t.values = s.values /\ t.prov = s.prov /\ t.images = s.images

LEMMA NothingIsSound ==
  /\ GoodBlocks(<< >>) /\ \A x : Nothing(x) = [f \in Field |-> x]
  /\ RunSound(NoRun) /\ RunSound([NoRun EXCEPT !.pc = "ocr"])
<1>1. GoodBlocks(<< >>)
  BY DEF GoodBlocks
<1>2. \A f \in Field : Nothing(Nil)[f] = Nil
  BY DEF Nothing
<1>3. "total" \in Field /\ DOMAIN Nothing(Nil) = Field
  BY DEF Field, Nothing
<1>. DEFINE s == [NoRun EXCEPT !.pc = "ocr"]
<1>4. /\ DOMAIN NoRun = {"pc", "blocks", "values", "prov", "images", "todo", "done", "drawn"}
      /\ NoRun.pc = "idle" /\ NoRun.blocks = << >> /\ NoRun.values = Nothing(Nil)
      /\ NoRun.prov = Nothing(Nil) /\ NoRun.images = {} /\ NoRun.todo = {}
      /\ NoRun.done = {} /\ NoRun.drawn = {}
  BY DEF NoRun
<1>5. /\ DOMAIN s = DOMAIN NoRun
      /\ s.pc = "ocr" /\ s.blocks = << >> /\ s.values = Nothing(Nil)
      /\ s.prov = Nothing(Nil) /\ s.images = {} /\ s.todo = {}
      /\ s.done = {} /\ s.drawn = {}
  BY <1>4
<1>. HIDE DEF s
<1>6. RunSound(NoRun)
  BY <1>1, <1>2, <1>3, <1>4 DEF RunSound, Placed, TotalRead
<1>7. RunSound(s)
  BY <1>1, <1>2, <1>3, <1>4, <1>5 DEF RunSound, Placed, TotalRead
<1>. QED BY <1>1, <1>6, <1>7 DEF Nothing, s

LEMMA NoRowIsSound ==
  ASSUME row = NoRow
  PROVE  RowSound /\ (patch = NoPatch => PatchSound)
<1>1. \A f \in Field : Nothing(Nil)[f] = Nil
  BY DEF Nothing
<1>2. "total" \in Field /\ DOMAIN Nothing(Nil) = Field
  BY DEF Field, Nothing
<1>3. RowSound
  BY <1>1, <1>2, NothingIsSound DEF NoRow, RowSound, Placed, TotalRead
<1>. QED BY <1>2, <1>3 DEF NoPatch, PatchSound

LEMMA DeletedRow ==
  ASSUME DeleteRow
  PROVE  RowSound' /\ PatchSound'
<1>1. row' = NoRow /\ patch' = NoPatch
  BY DEF DeleteRow
<1>2. \A f \in Field : Nothing(Nil)[f] = Nil
  BY DEF Nothing
<1>3. "total" \in Field /\ DOMAIN Nothing(Nil) = Field
  BY DEF Field, Nothing
<1>4. RowSound'
  BY <1>1, <1>2, <1>3, NothingIsSound DEF NoRow, RowSound, Placed, TotalRead
<1>. QED BY <1>1, <1>3, <1>4 DEF NoPatch, PatchSound

LEMMA OneRunBecomes ==
  ASSUME NEW r \in Run, NEW record, run = [q \in Run |-> run[q]], Become(r, record)
  PROVE  /\ run' = [q \in Run |-> run'[q]]
         /\ run'[r] = record /\ \A q \in Run \ {r} : run'[q] = run[q]
BY DEF Become

(* What an extraction reads is sound. *)
LEMMA ProvenanceIsPlaced ==
  ASSUME NEW blocks, GoodBlocks(blocks), NEW f, NEW v \in Value \cup {Nil}, NEW offered
  PROVE  /\ Placed(Provenance(f, v, offered, blocks), blocks)
         /\ f = "total" /\ v \in Amount \cup {Nil} =>
              LET p == Provenance(f, v, offered, blocks)
              IN p # Nil => (p.index # 0 => ReadWhere(v, blocks[p.index].text, blocks))
<1>. DEFINE p == Provenance(f, v, offered, blocks)
            i == BlockOf(f, v, offered, blocks)
<1>1. CASE v = Nil
  BY <1>1 DEF Provenance, Placed
<1>2. CASE v # Nil /\ i = 0
  <2>1. p = [index |-> 0, page |-> 1, bbox |-> <<0, 0, 0, 0>>, norm |-> Nil, model |-> Nil]
    BY <1>2 DEF Provenance
  <2>. QED BY <2>1 DEF Placed
<1>3. CASE v # Nil /\ i # 0
  <2>1. p = [index |-> i, page |-> blocks[i].page, bbox |-> blocks[i].bbox,
             norm |-> blocks[i].norm, model |-> blocks[i].model]
    BY <1>3 DEF Provenance
  <2>2. i \in DOMAIN blocks
    BY <1>3, BlockIsBest
  <2>3. f = "total" /\ v \in Amount \cup {Nil} => ReadWhere(v, blocks[i].text, blocks)
    BY <1>3, TotalBlock
  <2>. HIDE DEF i, p
  <2>4. p.index = i
    BY <2>1
  <2>5. Placed(p, blocks)
    BY <2>1, <2>2 DEF Placed
  <2>6. f = "total" /\ v \in Amount \cup {Nil} => ReadWhere(v, blocks[p.index].text, blocks)
    BY <2>3, <2>4
  <2>. QED BY <2>5, <2>6 DEF p
<1>. QED BY <1>1, <1>2, <1>3

LEMMA ReadIsSound ==
  ASSUME NEW r \in Run, ReadingInv, Read(r)
  PROVE  RunSound(run'[r]) /\ run'[r].done = {} /\ run'[r].drawn = {}
<1>1. PICK reading \in Readings, images \in Imaged, offered \in SUBSET Value,
           n \in Number \cup {Nil}, t \in Amount \cup {Nil} :
        LET blocks == Accepted(reading)
            values == [f \in Field |-> IF f = "total" THEN t ELSE n]
        IN Become(r, [run[r] EXCEPT !.pc = "crops", !.blocks = blocks, !.images = images,
                        !.values = values,
                        !.prov = [f \in Field |-> Provenance(f, values[f], offered, blocks)],
                        !.todo = {i \in DOMAIN blocks : Croppable(images, blocks[i])}])
  BY DEF Read
<1>. DEFINE q == run[r]
            blocks == Accepted(reading)
            values == [f \in Field |-> IF f = "total" THEN t ELSE n]
            prov == [f \in Field |-> Provenance(f, values[f], offered, blocks)]
            todo == {i \in DOMAIN blocks : Croppable(images, blocks[i])}
            s == [q EXCEPT !.pc = "crops", !.blocks = blocks, !.images = images,
                    !.values = values, !.prov = prov, !.todo = todo]
<1>2. GoodBlocks(blocks) /\ images \subseteq Page
  BY AcceptedIsGood, HighlightAssumption
<1>3. \A f \in Field : values[f] \in Value \cup {Nil}
  BY DEF Value
<1>4. "total" \in Field /\ values["total"] = t /\ DOMAIN values = Field
  BY DEF Field
<1>5. \A f \in Field : prov[f] = Provenance(f, values[f], offered, blocks)
  OBVIOUS
<1>6. run'[r] = s
  BY <1>1, OneRunBecomes DEF ReadingInv
<1>7. \A i \in todo : i \in DOMAIN blocks /\ Croppable(images, blocks[i])
  OBVIOUS
<1>. HIDE DEF blocks, values, prov, todo
<1>8. \A f \in Field : Placed(prov[f], blocks)
  BY <1>2, <1>3, <1>5, ProvenanceIsPlaced
<1>9. TotalRead(values, prov["total"], blocks)
  BY <1>2, <1>3, <1>4, <1>5, ProvenanceIsPlaced DEF TotalRead
<1>10. DOMAIN q = {"pc", "blocks", "values", "prov", "images", "todo", "done", "drawn"}
  BY DEF ReadingInv, RunSound
<1>11. /\ DOMAIN s = DOMAIN q
       /\ s.pc = "crops" /\ s.blocks = blocks /\ s.values = values /\ s.prov = prov
       /\ s.images = images /\ s.todo = todo /\ s.done = q.done /\ s.drawn = q.drawn
  <2>. HIDE DEF q
  <2>. QED BY <1>10
<1>. HIDE DEF s
<1>12. RunSound(s)
  BY <1>2, <1>4, <1>7, <1>8, <1>9, <1>10, <1>11 DEF RunSound
<1>13. run[r].done = {} /\ run[r].drawn = {}
  BY DEF ReadingInv, RunSound, Read
<1>. QED BY <1>6, <1>11, <1>12, <1>13

(* A step that leaves a run its readings, and only stores or ends.         *)
LEMMA LaterIsSound ==
  ASSUME NEW s, RunSound(s), NEW t, Continues(s, t), t.pc # "ocr",
         t.pc \in {"crops", "stray"} =>
           \A i \in t.todo : i \in DOMAIN s.blocks /\ Croppable(s.images, s.blocks[i]),
         t.pc = "overlays" => \A f \in t.todo : f \in Field /\ Drawable(s.images, s.prov[f])
  PROVE  RunSound(t)
BY DEF RunSound, Continues

-----------------------------------------------------------------------------
(* Each step of a run is one of LaterIsSound, but for Begin and Read.      *)
LEMMA PutCropIsSound ==
  ASSUME ReadingInv, NEW r \in Run, NEW i \in Index, PutCrop(r, i)
  PROVE  LET k == <<SourcePage(run[r].images, run[r].blocks[i].page), i>>
         IN /\ RunSound(run'[r]) /\ run'[r].pc = run[r].pc
            /\ run'[r].blocks = run[r].blocks /\ run'[r].prov = run[r].prov
            /\ run'[r].images = run[r].images /\ run'[r].drawn = run[r].drawn
            /\ k \in Key /\ i \in DOMAIN run[r].blocks
            /\ \/ /\ crops' = [crops EXCEPT ![k] = Image(run[r].images, run[r].blocks[i])]
                  /\ run'[r].done = run[r].done \cup {k}
               \/ crops' = crops /\ run'[r].done = run[r].done
<1>. DEFINE s == run[r]
            k == <<SourcePage(s.images, s.blocks[i].page), i>>
<1>1. RunSound(s) /\ s.pc \in {"crops", "stray"} /\ i \in s.todo
  BY DEF ReadingInv, PutCrop
<1>2. i \in DOMAIN s.blocks /\ Croppable(s.images, s.blocks[i])
  BY <1>1 DEF RunSound
<1>3. SourcePage(s.images, s.blocks[i].page) \in s.images
  BY <1>2 DEF Croppable
<1>4. k \in Key
  BY <1>1, <1>3 DEF RunSound, Key
<1>. DEFINE now == [s EXCEPT !.todo = @ \ {i}]
            t == run'[r]
<1>6. \/ /\ crops' = [crops EXCEPT ![k] = Image(s.images, s.blocks[i])]
         /\ t = [now EXCEPT !.done = @ \cup {k}]
      \/ crops' = crops /\ t = now
  <2>1. \/ /\ crops' = [crops EXCEPT ![k] = Image(s.images, s.blocks[i])]
           /\ Become(r, [now EXCEPT !.done = @ \cup {k}])
        \/ crops' = crops /\ Become(r, now)
    BY DEF PutCrop
  <2>. HIDE DEF s, k, now
  <2>. QED BY <2>1, OneRunBecomes DEF ReadingInv
<1>. HIDE DEF s, k, t
<1>7. DOMAIN s = {"pc", "blocks", "values", "prov", "images", "todo", "done", "drawn"}
  BY <1>1 DEF RunSound
<1>8. /\ Continues(s, t) /\ t.pc = s.pc /\ t.todo = s.todo \ {i} /\ t.drawn = s.drawn
      /\ \/ crops' = [crops EXCEPT ![k] = Image(s.images, s.blocks[i])] /\ t.done = s.done \cup {k}
         \/ crops' = crops /\ t.done = s.done
  BY <1>6, <1>7 DEF Continues
<1>9. \A j \in s.todo : j \in DOMAIN s.blocks /\ Croppable(s.images, s.blocks[j])
  BY <1>1 DEF RunSound
<1>10. RunSound(t)
  BY <1>1, <1>8, <1>9, LaterIsSound
<1>. QED BY <1>2, <1>4, <1>8, <1>10 DEF Continues, s, k, t

LEMMA PutOverlayIsSound ==
  ASSUME ReadingInv, NEW r \in Run, NEW f \in Field, PutOverlay(r, f)
  PROVE  /\ RunSound(run'[r]) /\ run'[r].pc = run[r].pc
         /\ run'[r].blocks = run[r].blocks /\ run'[r].prov = run[r].prov
         /\ run'[r].images = run[r].images
         /\ run'[r].done = run[r].done /\ run[r].prov[f] # Nil
         /\ \/ /\ overlays' = [overlays EXCEPT ![f] = Image(run[r].images, run[r].prov[f])]
               /\ run'[r].drawn = run[r].drawn \cup {f}
            \/ overlays' = overlays /\ run'[r].drawn = run[r].drawn
<1>. DEFINE s == run[r]
<1>1. RunSound(s) /\ s.pc = "overlays" /\ f \in s.todo
  BY DEF ReadingInv, PutOverlay
<1>2. Drawable(s.images, s.prov[f])
  BY <1>1 DEF RunSound
<1>3. s.prov[f] # Nil
  BY <1>2 DEF Drawable
<1>. DEFINE now == [s EXCEPT !.todo = @ \ {f}]
            t == run'[r]
<1>4. \/ /\ overlays' = [overlays EXCEPT ![f] = Image(s.images, s.prov[f])]
         /\ t = [now EXCEPT !.drawn = @ \cup {f}]
      \/ overlays' = overlays /\ t = now
  <2>1. \/ /\ overlays' = [overlays EXCEPT ![f] = Image(s.images, s.prov[f])]
           /\ Become(r, [now EXCEPT !.drawn = @ \cup {f}])
        \/ overlays' = overlays /\ Become(r, now)
    BY DEF PutOverlay
  <2>. HIDE DEF s, now
  <2>. QED BY <2>1, OneRunBecomes DEF ReadingInv
<1>. HIDE DEF s, t
<1>5. DOMAIN s = {"pc", "blocks", "values", "prov", "images", "todo", "done", "drawn"}
  BY <1>1 DEF RunSound
<1>6. /\ Continues(s, t) /\ t.pc = s.pc /\ t.todo = s.todo \ {f} /\ t.done = s.done
      /\ \/ /\ overlays' = [overlays EXCEPT ![f] = Image(s.images, s.prov[f])]
            /\ t.drawn = s.drawn \cup {f}
         \/ overlays' = overlays /\ t.drawn = s.drawn
  BY <1>4, <1>5 DEF Continues
<1>7. \A g \in s.todo : g \in Field /\ Drawable(s.images, s.prov[g])
  BY <1>1 DEF RunSound
<1>8. RunSound(t)
  BY <1>1, <1>6, <1>7, LaterIsSound
<1>. QED BY <1>3, <1>6, <1>8 DEF Continues, s, t

LEMMA TurnIsSound ==
  ASSUME ReadingInv, NEW r \in Run, Cropped(r) \/ Fail(r)
  PROVE  /\ RunSound(run'[r]) /\ run'[r].pc # "idle"
         /\ run'[r].blocks = run[r].blocks /\ run'[r].prov = run[r].prov
         /\ run'[r].images = run[r].images
         /\ run'[r].done = run[r].done /\ run'[r].drawn = run[r].drawn
<1>. DEFINE s == run[r]
            t == run'[r]
            todo == {f \in Field : Drawable(s.images, s.prov[f])}
<1>1. RunSound(s)
  BY DEF ReadingInv
<1>2. DOMAIN s = {"pc", "blocks", "values", "prov", "images", "todo", "done", "drawn"}
  BY <1>1 DEF RunSound
<1>3. Cropped(r) => t = [s EXCEPT !.pc = "overlays", !.todo = todo]
  BY OneRunBecomes DEF Cropped, ReadingInv
<1>4. Fail(r) => t = [s EXCEPT !.pc = "stray"] /\ (s.todo = {} \/ s.pc = "crops")
  BY <1>1, OneRunBecomes DEF Fail, ReadingInv, RunSound
<1>5. \A f \in todo : f \in Field /\ Drawable(s.images, s.prov[f])
  OBVIOUS
<1>. HIDE DEF s, t, todo
<1>6. /\ Continues(s, t) /\ t.done = s.done /\ t.drawn = s.drawn
      /\ \/ t.pc = "overlays" /\ t.todo = todo
         \/ t.pc = "stray" /\ t.todo = s.todo /\ (s.todo = {} \/ s.pc = "crops")
  BY <1>2, <1>3, <1>4 DEF Continues
<1>7. t.pc = "stray" =>
        \A i \in t.todo : i \in DOMAIN s.blocks /\ Croppable(s.images, s.blocks[i])
  BY <1>1, <1>6 DEF RunSound
<1>8. RunSound(t)
  BY <1>1, <1>5, <1>6, <1>7, LaterIsSound
<1>. QED BY <1>6, <1>8 DEF Continues, s, t

-----------------------------------------------------------------------------
(* The row: what an extraction, a failure and the reviewer make of it.     *)
LEMMA SaveMarks ==
  ASSUME PatchSound, NEW r \in Run, Save(r)
  PROVE  /\ DOMAIN patch' = DOMAIN patch /\ patch'.values = patch.values
         /\ patch'.open => patch.open
         /\ patch'.open => (patch'.stale <=> patch.stale \/ Awaited)
<1>1. patch' = [patch EXCEPT !.stale = patch.open /\ (@ \/ Awaited)]
  BY DEF Save
<1>2. DOMAIN patch' = DOMAIN patch /\ patch'.values = patch.values /\ patch'.open = patch.open
  BY <1>1
<1>3. "stale" \in DOMAIN patch
  BY DEF PatchSound
<1>4. patch'.stale <=> patch.open /\ (patch.stale \/ Awaited)
  BY <1>1, <1>3, Zenon
<1>. QED BY <1>2, <1>4, Zenon

LEMMA SavedRow ==
  ASSUME ReadingInv, NEW r \in Run, Save(r) \/ Fail(r)
  PROVE  RowSound' /\ PatchSound'
<1>1. RunSound(run[r]) /\ RowSound /\ PatchSound
  BY DEF ReadingInv
<1>2. CASE row' = row
  <2>1. RowSound'
    BY <1>1, <1>2 DEF RowSound
  <2>2. PatchSound'
    <3>1. CASE Fail(r)
      BY <1>1, <1>2, <3>1 DEF Fail, PatchSound
    <3>2. CASE Save(r)
      <4>1. /\ DOMAIN patch' = DOMAIN patch /\ patch'.values = patch.values
            /\ patch'.open => patch.open
            /\ patch'.open => (patch'.stale <=> patch.stale \/ Awaited)
        BY <1>1, <3>2, SaveMarks
      <4>2. patch'.open /\ ~patch'.stale => patch.open /\ ~patch.stale
        BY <4>1, Zenon
      <4>. QED BY <1>1, <1>2, <4>1, <4>2, Zenon DEF PatchSound
    <3>. QED BY <3>1, <3>2
  <2>. QED BY <2>1, <2>2
<1>3. CASE Save(r) /\ row' # row
  <2>1. row' = [status |-> "settled", blocks |-> run[r].blocks, prov |-> run[r].prov,
                values |-> run[r].values, images |-> run[r].images, edited |-> {},
                crops |-> run[r].done, overlays |-> run[r].drawn] /\ Awaited
    BY <1>3 DEF Save, Upsert
  <2>2. RowSound'
    BY <1>1, <2>1 DEF RowSound, RunSound
  <2>3. /\ DOMAIN patch' = DOMAIN patch /\ patch'.values = patch.values
        /\ patch'.open => (patch'.stale <=> patch.stale \/ Awaited)
    BY <1>1, <1>3, SaveMarks
  <2>4. patch'.open => patch'.stale
    BY <2>1, <2>3, Zenon
  <2>. QED BY <1>1, <2>2, <2>3, <2>4, Zenon DEF PatchSound
<1>4. CASE Fail(r) /\ row' # row
  <2>1. PICK blocks, keys :
          blocks \in {<< >>, run[r].blocks} /\ row' = FailedRow(blocks, keys)
    BY <1>4 DEF Fail, Upsert
  <2>2. GoodBlocks(blocks)
    BY <1>1, <2>1, NothingIsSound DEF RunSound
  <2>3. row' = [status |-> "failed", blocks |-> blocks, prov |-> Nothing(Nil),
                values |-> row.values, images |-> row.images, edited |-> row.edited,
                crops |-> keys, overlays |-> {}]
    BY <1>1, <2>1 DEF FailedRow, RowSound
  <2>4. \A f \in Field : Nothing(Nil)[f] = Nil
    BY DEF Nothing
  <2>5. "total" \in Field
    BY DEF Field
  <2>6. RowSound'
    BY <1>1, <2>2, <2>3, <2>4, <2>5 DEF RowSound, Placed, TotalRead
  <2>7. patch' = patch
    BY <1>4 DEF Fail
  <2>. QED BY <1>1, <2>3, <2>6, <2>7 DEF PatchSound
<1>. QED BY <1>2, <1>3, <1>4

LEMMA LoadedPatch ==
  ASSUME RowSound, LoadEdit
  PROVE  PatchSound'
<1>1. patch' = [open |-> TRUE, values |-> row.values,
                settled |-> row.status = "settled", stale |-> FALSE] /\ row' = row
  BY DEF LoadEdit
<1>2. patch'.values = row.values
  BY <1>1
<1>. QED BY <1>1, <1>2 DEF PatchSound, RowSound

LEMMA EditedRow ==
  ASSUME RowSound, PatchSound, NEW f \in Field, SaveEdit(f)
  PROVE  /\ RowSound' /\ PatchSound' /\ row'.blocks = row.blocks
         /\ row'.prov = row.prov /\ row'.images = row.images
         /\ row'.crops = row.crops /\ row'.overlays = row.overlays
<1>1. PICK v \in Typed \cap (Values(f) \cup {Nil}) :
      \E write \in {TRUE, v # patch.values[f]},
         status \in {"settled"} \cup (IF patch.settled THEN {row.status} ELSE {}) :
        row' = [row EXCEPT
                  !.status = status,
                  !.values = IF write THEN [patch.values EXCEPT ![f] = v] ELSE @,
                  !.edited = IF ~write THEN @ ELSE IF patch.stale THEN Field ELSE @ \cup {f}]
  BY DEF SaveEdit
<1>2. PICK write \in {TRUE, v # patch.values[f]},
          status \in {"settled"} \cup (IF patch.settled THEN {row.status} ELSE {}) :
        row' = [row EXCEPT
                  !.status = status,
                  !.values = IF write THEN [patch.values EXCEPT ![f] = v] ELSE @,
                  !.edited = IF ~write THEN @ ELSE IF patch.stale THEN Field ELSE @ \cup {f}]
  BY <1>1
<1>. DEFINE values == IF write THEN [patch.values EXCEPT ![f] = v] ELSE row.values
            edited == IF ~write THEN row.edited
                      ELSE IF patch.stale THEN Field ELSE row.edited \cup {f}
<1>3. row = [status |-> row.status, blocks |-> row.blocks, prov |-> row.prov,
             values |-> row.values, images |-> row.images, edited |-> row.edited,
             crops |-> row.crops, overlays |-> row.overlays]
      /\ DOMAIN row.values = Field /\ DOMAIN patch.values = Field
  BY DEF RowSound, PatchSound
<1>4. row' = [status |-> status, blocks |-> row.blocks, prov |-> row.prov,
              values |-> values, images |-> row.images, edited |-> edited,
              crops |-> row.crops, overlays |-> row.overlays]
  BY <1>2, <1>3
<1>5. DOMAIN values = Field
  BY <1>3
<1>6. "total" \notin edited => "total" \notin row.edited /\ values["total"] = row.values["total"]
  <2>1. CASE ~write
    BY <2>1
  <2>2. CASE write /\ patch.stale
    BY <2>2 DEF Field
  <2>3. CASE write /\ ~patch.stale
    <3>1. patch.values = row.values
      BY <2>3 DEF PatchSound, SaveEdit
    <3>. QED BY <1>3, <2>3, <3>1 DEF Field
  <2>. QED BY <2>1, <2>2, <2>3
<1>. HIDE DEF values, edited
<1>7. "total" \notin edited => TotalRead(values, row.prov["total"], row.blocks)
  <2>1. "total" \notin edited => TotalRead(row.values, row.prov["total"], row.blocks)
    BY <1>6 DEF RowSound
  <2>. QED BY <1>6, <2>1 DEF TotalRead
<1>8. RowSound'
  <2>1. GoodBlocks(row.blocks) /\ \A g \in Field : Placed(row.prov[g], row.blocks)
    BY DEF RowSound
  <2>. QED BY <1>4, <1>5, <1>7, <2>1 DEF RowSound
<1>9. PatchSound'
  <2>1. patch' = NoPatch /\ DOMAIN Nothing(Nil) = Field
    BY DEF SaveEdit, Nothing
  <2>. QED BY <2>1 DEF NoPatch, PatchSound
<1>. QED BY <1>4, <1>8, <1>9

LEMMA RetriedRow ==
  ASSUME RowSound, PatchSound, RetryRow
  PROVE  RowSound' /\ PatchSound'
<1>1. row' = [status |-> "PENDING", blocks |-> row.blocks, prov |-> row.prov,
              values |-> row.values, images |-> row.images, edited |-> row.edited,
              crops |-> row.crops, overlays |-> row.overlays]
  BY DEF RetryRow, RowSound
<1>2. RowSound'
  BY <1>1 DEF RowSound
<1>. QED BY <1>1, <1>2 DEF RetryRow, PatchSound

LEMMA ReadingStep ==
  ASSUME ReadingInv, [HighlightNext]_highlightVars
  PROVE  ReadingInv'
<1>1. /\ run = [r \in Run |-> run[r]] /\ \A r \in Run : RunSound(run[r])
      /\ RowSound /\ PatchSound /\ DOMAIN crops = Key /\ DOMAIN overlays = Field
  BY DEF ReadingInv
<1>2. ASSUME NEW r \in Run, NEW t, Become(r, t), RunSound(t)
      PROVE  run' = [q \in Run |-> run'[q]] /\ \A q \in Run : RunSound(run'[q])
  BY <1>1, <1>2, OneRunBecomes
<1>3. ASSUME UNCHANGED <<row, patch>> PROVE RowSound' /\ PatchSound'
  BY <1>1, <1>3 DEF RowSound, PatchSound
<1>4. ASSUME NEW r \in Run, UNCHANGED <<row, crops, overlays, patch>>,
             \E t : Become(r, t) /\ RunSound(t)
      PROVE  ReadingInv'
  BY <1>1, <1>2, <1>3, <1>4 DEF ReadingInv
<1>5. ASSUME NEW r \in Run, Begin(r) PROVE ReadingInv'
  <2>1. Become(r, [NoRun EXCEPT !.pc = "ocr"]) /\ UNCHANGED <<row, crops, overlays, patch>>
    BY <1>5 DEF Begin
  <2>2. RunSound([NoRun EXCEPT !.pc = "ocr"])
    BY NothingIsSound
  <2>. HIDE DEF Become
  <2>. QED BY <1>4, <2>1, <2>2, Zenon
<1>6. ASSUME NEW r \in Run, Read(r) PROVE ReadingInv'
  <2>1. RunSound(run'[r])
    BY <1>6, ReadIsSound
  <2>2. Become(r, run'[r]) /\ UNCHANGED <<row, crops, overlays, patch>>
    BY <1>1, <1>6, OneRunBecomes DEF Read, Become
  <2>. QED BY <1>4, <2>1, <2>2
<1>7. ASSUME NEW r \in Run, Cropped(r) PROVE ReadingInv'
  <2>1. RunSound(run'[r])
    BY <1>7, TurnIsSound
  <2>2. Become(r, run'[r]) /\ UNCHANGED <<row, crops, overlays, patch>>
    BY <1>1, <1>7, OneRunBecomes DEF Cropped, Become
  <2>. QED BY <1>4, <2>1, <2>2
<1>8. ASSUME NEW r \in Run, Stop(r) PROVE ReadingInv'
  <2>1. Become(r, NoRun) /\ UNCHANGED <<row, crops, overlays, patch>>
    BY <1>8 DEF Stop
  <2>. HIDE DEF Become
  <2>. QED BY <1>4, <2>1, NothingIsSound
<1>9. ASSUME NEW r \in Run, Save(r) PROVE ReadingInv'
  <2>1. Become(r, NoRun) /\ UNCHANGED <<crops, overlays>>
    BY <1>9 DEF Save
  <2>2. RunSound(NoRun) /\ RowSound' /\ PatchSound'
    BY <1>9, NothingIsSound, SavedRow
  <2>. QED BY <1>1, <1>2, <2>1, <2>2 DEF ReadingInv
<1>10. ASSUME NEW r \in Run, Fail(r) PROVE ReadingInv'
  <2>1. RunSound(run'[r]) /\ RowSound' /\ PatchSound'
    BY <1>10, TurnIsSound, SavedRow
  <2>2. Become(r, run'[r]) /\ UNCHANGED <<crops, overlays>>
    BY <1>1, <1>10, OneRunBecomes DEF Fail, Become
  <2>. QED BY <1>1, <1>2, <2>1, <2>2 DEF ReadingInv
<1>11. ASSUME NEW r \in Run, NEW i \in Index, PutCrop(r, i) PROVE ReadingInv'
  <2>1. RunSound(run'[r]) /\ DOMAIN crops' = DOMAIN crops
    BY <1>11, PutCropIsSound
  <2>2. Become(r, run'[r]) /\ UNCHANGED <<row, overlays, patch>>
    BY <1>1, <1>11, OneRunBecomes DEF PutCrop, Become
  <2>. QED BY <1>1, <1>2, <1>3, <2>1, <2>2 DEF ReadingInv
<1>12. ASSUME NEW r \in Run, NEW f \in Field, PutOverlay(r, f) PROVE ReadingInv'
  <2>1. RunSound(run'[r]) /\ DOMAIN overlays' = DOMAIN overlays
    BY <1>12, PutOverlayIsSound
  <2>2. Become(r, run'[r]) /\ UNCHANGED <<row, crops, patch>>
    BY <1>1, <1>12, OneRunBecomes DEF PutOverlay, Become
  <2>. QED BY <1>1, <1>2, <1>3, <2>1, <2>2 DEF ReadingInv
<1>13. ASSUME UNCHANGED <<run, crops, overlays>>, RowSound', PatchSound' PROVE ReadingInv'
  BY <1>1, <1>13 DEF ReadingInv
<1>14. ASSUME NEW f \in Field, SaveEdit(f) PROVE ReadingInv'
  <2>1. RowSound' /\ PatchSound'
    BY <1>1, <1>14, EditedRow
  <2>. QED BY <1>13, <1>14, <2>1 DEF SaveEdit
<1>15. CASE RetryRow
  <2>1. RowSound' /\ PatchSound'
    BY <1>1, <1>15, RetriedRow
  <2>. QED BY <1>13, <1>15, <2>1 DEF RetryRow
<1>16. CASE DeleteRow
  <2>1. RowSound' /\ PatchSound'
    BY <1>16, DeletedRow
  <2>. QED BY <1>13, <1>16, <2>1 DEF DeleteRow
<1>17. CASE LoadEdit
  <2>1. PatchSound'
    BY <1>1, <1>17, LoadedPatch
  <2>2. RowSound'
    BY <1>1, <1>17 DEF LoadEdit, RowSound
  <2>. QED BY <1>13, <1>17, <2>1, <2>2 DEF LoadEdit
<1>18. CASE UNCHANGED highlightVars
  BY <1>3, <1>13, <1>18 DEF highlightVars
<1>. QED BY <1>5, <1>6, <1>7, <1>8, <1>9, <1>10, <1>11, <1>12, <1>14, <1>15, <1>16, <1>17,
            <1>18
         DEF HighlightNext

LEMMA HighlightsBegin ==
  ASSUME HighlightInit
  PROVE  HighlightInv
<1>1. RowSound /\ PatchSound
  BY NoRowIsSound DEF HighlightInit
<1>2. \A r \in Run : run[r] = NoRun
  BY DEF HighlightInit
<1>3. ReadingInv
  BY <1>1, <1>2, NothingIsSound DEF HighlightInit, ReadingInv, Nothing
<1>4. Alone
  BY <1>2 DEF HighlightInit, Alone, NoRun, NoRow, Depicted
<1>. QED BY <1>3, <1>4 DEF HighlightInv

(* A total that no PATCH wrote is marked where it is read, if anywhere:    *)
(* for any readings of any documents, any values and reviewers, and for    *)
(* PATCHes of other fields that were open while an extraction ended.       *)
THEOREM TotalIsReadThere == HighlightSpec => []TotalIsRead
<1>1. HighlightInit => ReadingInv
  BY HighlightsBegin DEF HighlightInv
<1>2. ReadingInv /\ [HighlightNext]_highlightVars => ReadingInv'
  BY ReadingStep
<1>3. ReadingInv => TotalIsRead
  BY DEF ReadingInv, RowSound, TotalRead, TotalIsRead
<1>. QED BY <1>1, <1>2, <1>3, PTL DEF HighlightSpec

-----------------------------------------------------------------------------
(* A step of the run at work, when no other is.                            *)
LEMMA WorkIsAlone ==
  ASSUME ReadingInv, Alone, NEW r \in Run, run[r].pc # "idle",
         \A q \in Run \ {r} : run'[q] = run[q],
         ~unwritten' =>
           /\ run'[r].pc = "idle"
           /\ Depicted(crops', overlays', row'.images, row'.blocks, row'.prov, row'.crops,
                       row'.overlays),
         run'[r].pc # "idle" =>
           Depicted(crops', overlays', run'[r].images, run'[r].blocks, run'[r].prov,
                    run'[r].done, run'[r].drawn)
  PROVE  Alone'
<1>1. \A q \in Run \ {r} : run'[q].pc = "idle"
  BY DEF Alone
<1>. QED BY <1>1 DEF Alone

LEMMA BeginIsAlone ==
  ASSUME ReadingInv, NEW r \in Run, Begin(r), ~overlapped'
  PROVE  Alone'
<1>. DEFINE s == [NoRun EXCEPT !.pc = "ocr"]
<1>1. /\ run'[r] = s /\ \A q \in Run \ {r} : run'[q] = run[q]
      /\ \A q \in Run : run[q].pc = "idle"
      /\ unwritten' = TRUE
  BY OneRunBecomes DEF Begin, ReadingInv
<1>2. s.done = {} /\ s.drawn = {}
  BY DEF NoRun
<1>. HIDE DEF s
<1>3. \A q \in Run \ {r} : run'[q].pc = "idle"
  BY <1>1
<1>. QED BY <1>1, <1>2, <1>3 DEF Alone, Depicted

LEMMA RunIsAlone ==
  ASSUME ReadingInv, Alone, NEW r \in Run,
         Read(r) \/ Cropped(r) \/ Save(r) \/ Fail(r) \/ Stop(r)
  PROVE  Alone'
<1>. DEFINE s == run[r]
<1>1. s.pc # "idle" /\ \A q \in Run \ {r} : run'[q] = run[q]
  BY OneRunBecomes DEF Read, Cropped, Save, Fail, Stop, ReadingInv
<1>2. unwritten /\ Depicted(crops, overlays, s.images, s.blocks, s.prov, s.done, s.drawn)
  BY <1>1 DEF Alone
<1>3. UNCHANGED <<crops, overlays>>
  BY DEF Read, Cropped, Save, Fail, Stop
<1>4. CASE Read(r)
  <2>1. Depicted(crops', overlays', run'[r].images, run'[r].blocks, run'[r].prov,
                 run'[r].done, run'[r].drawn)
    BY <1>4, ReadIsSound DEF Depicted
  <2>2. unwritten' = unwritten
    BY <1>4 DEF Read, history
  <2>. QED BY <1>1, <1>2, <2>1, <2>2, WorkIsAlone
<1>5. CASE Cropped(r) \/ Fail(r)
  <2>1. Depicted(crops', overlays', run'[r].images, run'[r].blocks, run'[r].prov,
                 run'[r].done, run'[r].drawn)
    BY <1>2, <1>3, <1>5, TurnIsSound
  <2>2. unwritten' = unwritten
    BY <1>5 DEF Cropped, Fail, history
  <2>. QED BY <1>1, <1>2, <2>1, <2>2, WorkIsAlone
<1>6. CASE Stop(r)
  <2>1. run'[r].pc = "idle"
    BY <1>6, OneRunBecomes DEF Stop, NoRun, ReadingInv
  <2>2. unwritten' = unwritten
    BY <1>6 DEF Stop, history
  <2>. QED BY <1>1, <1>2, <2>1, <2>2, WorkIsAlone
<1>7. CASE Save(r)
  <2>1. run'[r].pc = "idle"
    BY <1>7, OneRunBecomes DEF Save, NoRun, ReadingInv
  <2>2. unwritten' = (unwritten /\ ~Awaited)
    BY <1>7 DEF Save
  <2>3. Awaited => row' = [status |-> "settled", blocks |-> s.blocks, prov |-> s.prov,
                           values |-> s.values, images |-> s.images, edited |-> {},
                           crops |-> s.done, overlays |-> s.drawn]
    BY <1>7 DEF Save, Upsert
  <2>. HIDE DEF s
  <2>4. ~unwritten' => Awaited
    BY <1>2, <2>2, Zenon
  <2>5. Awaited =>
          Depicted(crops', overlays', row'.images, row'.blocks, row'.prov, row'.crops,
                   row'.overlays)
    BY <1>2, <1>3, <2>3
  <2>. QED BY <1>1, <2>1, <2>4, <2>5, WorkIsAlone DEF s
<1>. QED BY <1>4, <1>5, <1>6, <1>7

LEMMA PutIsAlone ==
  ASSUME ReadingInv, Alone, NEW r \in Run,
         (\E i \in Index : PutCrop(r, i)) \/ \E f \in Field : PutOverlay(r, f)
  PROVE  Alone'
<1>. DEFINE s == run[r]
            t == run'[r]
<1>1. s.pc # "idle" /\ \A q \in Run \ {r} : run'[q] = run[q]
  BY OneRunBecomes DEF PutCrop, PutOverlay, ReadingInv
<1>2. unwritten /\ Depicted(crops, overlays, s.images, s.blocks, s.prov, s.done, s.drawn)
  BY <1>1 DEF Alone
<1>3. unwritten' = unwritten
  BY DEF PutCrop, PutOverlay, history
<1>4. ASSUME NEW i \in Index, PutCrop(r, i)
      PROVE  Depicted(crops', overlays', t.images, t.blocks, t.prov, t.done, t.drawn)
  <2>. DEFINE k == <<SourcePage(s.images, s.blocks[i].page), i>>
  <2>1. /\ t.images = s.images /\ t.blocks = s.blocks /\ t.prov = s.prov
        /\ t.drawn = s.drawn
        /\ k \in Key /\ i \in DOMAIN s.blocks
        /\ \/ crops' = [crops EXCEPT ![k] = Image(s.images, s.blocks[i])] /\ t.done = s.done \cup {k}
           \/ crops' = crops /\ t.done = s.done
    BY <1>4, PutCropIsSound
  <2>2. k[1] = SourcePage(s.images, s.blocks[i].page) /\ k[2] = i
    OBVIOUS
  <2>3. overlays' = overlays /\ DOMAIN crops = Key
    BY <1>4 DEF PutCrop, ReadingInv
  <2>. HIDE DEF k, s, t
  <2>4. CASE crops' = crops /\ t.done = s.done
    BY <1>2, <2>1, <2>3, <2>4
  <2>5. CASE crops' = [crops EXCEPT ![k] = Image(s.images, s.blocks[i])] /\ t.done = s.done \cup {k}
    <3>1. crops'[k] = Image(s.images, s.blocks[i])
      BY <2>1, <2>3, <2>5
    <3>2. \A j \in s.done : j # k => crops'[j] = crops[j]
      BY <1>2, <2>3, <2>5 DEF Depicted
    <3>. QED BY <1>2, <2>1, <2>2, <2>3, <2>5, <3>1, <3>2 DEF Depicted
  <2>. QED BY <2>1, <2>4, <2>5
<1>5. ASSUME NEW f \in Field, PutOverlay(r, f)
      PROVE  Depicted(crops', overlays', t.images, t.blocks, t.prov, t.done, t.drawn)
  <2>1. /\ t.images = s.images /\ t.blocks = s.blocks /\ t.prov = s.prov
        /\ t.done = s.done /\ s.prov[f] # Nil
        /\ \/ /\ overlays' = [overlays EXCEPT ![f] = Image(s.images, s.prov[f])]
              /\ t.drawn = s.drawn \cup {f}
           \/ overlays' = overlays /\ t.drawn = s.drawn
    BY <1>5, PutOverlayIsSound
  <2>2. crops' = crops /\ DOMAIN overlays = Field
    BY <1>5 DEF PutOverlay, ReadingInv
  <2>. HIDE DEF s, t
  <2>3. CASE overlays' = overlays /\ t.drawn = s.drawn
    BY <1>2, <2>1, <2>2, <2>3
  <2>4. CASE /\ overlays' = [overlays EXCEPT ![f] = Image(s.images, s.prov[f])]
             /\ t.drawn = s.drawn \cup {f}
    <3>1. overlays'[f] = Image(s.images, s.prov[f])
      BY <2>2, <2>4
    <3>2. \A g \in s.drawn : g # f => overlays'[g] = overlays[g]
      BY <1>2, <2>2, <2>4 DEF Depicted
    <3>. QED BY <1>2, <2>1, <2>2, <2>4, <3>1, <3>2 DEF Depicted
  <2>. QED BY <2>1, <2>3, <2>4
<1>6. Depicted(crops', overlays', t.images, t.blocks, t.prov, t.done, t.drawn)
  BY <1>4, <1>5
<1>. QED BY <1>1, <1>2, <1>3, <1>6, WorkIsAlone

LEMMA RowIsAlone ==
  ASSUME ReadingInv, Alone,
         LoadEdit \/ (\E f \in Field : SaveEdit(f)) \/ RetryRow \/ DeleteRow
  PROVE  Alone'
<1>1. UNCHANGED <<run, crops, overlays>> /\ unwritten' = unwritten
  BY DEF LoadEdit, SaveEdit, RetryRow, DeleteRow, history
<1>2. CASE LoadEdit \/ (\E f \in Field : SaveEdit(f)) \/ RetryRow
  <2>1. /\ row'.blocks = row.blocks /\ row'.prov = row.prov /\ row'.images = row.images
        /\ row'.crops = row.crops /\ row'.overlays = row.overlays
    <3>1. CASE \E f \in Field : SaveEdit(f)
      BY <3>1, EditedRow DEF ReadingInv
    <3>2. CASE LoadEdit
      BY <3>2 DEF LoadEdit
    <3>3. CASE RetryRow
      BY <3>3 DEF RetryRow, ReadingInv, RowSound
    <3>. QED BY <1>2, <3>1, <3>2, <3>3
  <2>. QED BY <1>1, <2>1 DEF Alone
<1>3. CASE DeleteRow
  <2>1. row'.crops = {} /\ row'.overlays = {}
    BY <1>3 DEF DeleteRow, NoRow
  <2>. QED BY <1>1, <2>1 DEF Alone, Depicted
<1>. QED BY <1>2, <1>3

LEMMA HighlightStep ==
  ASSUME HighlightInv, [HighlightNext]_highlightVars
  PROVE  HighlightInv'
<1>1. ReadingInv'
  BY ReadingStep DEF HighlightInv
<1>2. ASSUME ~overlapped' PROVE Alone'
  <2>1. ASSUME NEW r \in Run, Begin(r) PROVE Alone'
    BY <1>2, <2>1, BeginIsAlone DEF HighlightInv
  <2>2. ASSUME NEW r \in Run, Read(r) \/ Cropped(r) \/ Save(r) \/ Fail(r) \/ Stop(r)
        PROVE  Alone'
    <3>1. ~overlapped
      BY <1>2, <2>2 DEF Read, Cropped, Save, Fail, Stop, history
    <3>. QED BY <2>2, <3>1, RunIsAlone DEF HighlightInv
  <2>3. ASSUME NEW r \in Run,
               (\E i \in Index : PutCrop(r, i)) \/ \E f \in Field : PutOverlay(r, f)
        PROVE  Alone'
    <3>1. ~overlapped
      BY <1>2, <2>3 DEF PutCrop, PutOverlay, history
    <3>. QED BY <2>3, <3>1, PutIsAlone DEF HighlightInv
  <2>4. CASE LoadEdit \/ (\E f \in Field : SaveEdit(f)) \/ RetryRow \/ DeleteRow
    <3>1. ~overlapped
      BY <1>2, <2>4 DEF LoadEdit, SaveEdit, RetryRow, DeleteRow, history
    <3>. QED BY <2>4, <3>1, RowIsAlone DEF HighlightInv
  <2>5. CASE UNCHANGED highlightVars
    BY <1>2, <2>5 DEF highlightVars, history, HighlightInv, Alone
  <2>. QED BY <2>1, <2>2, <2>3, <2>4, <2>5 DEF HighlightNext
<1>. QED BY <1>1, <1>2 DEF HighlightInv

-----------------------------------------------------------------------------
(* The place the page rounds and the one an image is cut from is the same. *)
Spot(k) ==
  IF k.norm # Nil THEN Fraction(k.norm, Unit, Unit) ELSE Fraction(k.model, Model, Model)

LEMMA SpotIsNear ==
  ASSUME NEW k, k.norm # Nil \/ k.model # Nil,
         GoodBox(k.norm, 0..Unit), GoodBox(k.model, 0..Model)
  PROVE  OnPage(k) = Spot(k) /\ Near(Rounded(Spot(k)), Region(OnPage(k)))
<1>1. CASE k.norm # Nil
  <2>1. Proper(k.norm) /\ k.norm \in [1..4 -> 0..Unit] /\ Unit \in Nat \ {0}
    BY <1>1, HighlightAssumption DEF GoodBox
  <2>2. Within(k.norm, Unit, Unit) /\ k.norm[1] < k.norm[3] /\ k.norm[2] < k.norm[4]
    BY <2>1 DEF Within, Proper
  <2>3. Spot(k) = Fraction(k.norm, Unit, Unit) /\ OnPage(k) = Spot(k)
    BY <1>1, <2>1, <2>2 DEF Spot, OnPage
  <2>4. IsPlace(Spot(k), k.norm, Unit)
    BY <2>1, <2>2, <2>3 DEF IsPlace
  <2>. QED BY <2>3, <2>4, PlaceIsNear
<1>2. CASE k.norm = Nil
  <2>1. Proper(k.model) /\ k.model \in [1..4 -> 0..Model] /\ Model \in Nat \ {0}
    BY <1>2 DEF GoodBox, Model
  <2>2. k.model[1] < k.model[3] /\ k.model[2] < k.model[4]
    BY <2>1 DEF Proper
  <2>3. Spot(k) = Fraction(k.model, Model, Model) /\ OnPage(k) = Spot(k)
    BY <1>2, <2>1 DEF Spot, OnPage, Proper
  <2>4. IsPlace(Spot(k), k.model, Model)
    BY <2>1, <2>2, <2>3 DEF IsPlace
  <2>. QED BY <2>3, <2>4, PlaceIsNear
<1>. QED BY <1>1, <1>2

LEMMA HighlightIsSpot ==
  ASSUME ReadingInv, NEW f \in Field, row.prov[f] # Nil,
         row.prov[f].norm # Nil \/ row.prov[f].model # Nil, Highlight(f) # Nil
  PROVE  LET p == row.prov[f]
             b == row.blocks[p.index]
         IN /\ p.index \in DOMAIN row.blocks /\ GoodBlock(b) /\ p.page = b.page
            /\ p.norm = b.norm /\ p.model = b.model
            /\ Highlight(f) = [index |-> p.index, page |-> p.page, box |-> Rounded(Spot(p))]
<1>. DEFINE p == row.prov[f]
            b == row.blocks[p.index]
<1>1. Placed(p, row.blocks) /\ GoodBlocks(row.blocks)
  BY DEF ReadingInv, RowSound
<1>2. /\ p.index \in DOMAIN row.blocks /\ p.page = b.page /\ p.bbox = b.bbox
      /\ p.norm = b.norm /\ p.model = b.model
  BY <1>1 DEF Placed
<1>3. GoodBlock(b)
  BY <1>1, <1>2 DEF GoodBlocks
<1>4. Proper(p.bbox) /\ GoodBox(p.norm, 0..Unit) /\ GoodBox(p.model, 0..Model)
  BY <1>2, <1>3 DEF GoodBlock
<1>5. Matched(f) = p.index
  BY <1>2 DEF Matched
<1>. DEFINE given(field) == IF p # Nil /\ Proper(p[field]) THEN p[field] ELSE Nil
            found(field) == IF Matched(f) # 0 THEN row.blocks[Matched(f)][field] ELSE Nil
            either(field) == IF given(field) # Nil THEN given(field) ELSE found(field)
            page == IF p # Nil THEN p.page ELSE row.blocks[Matched(f)].page
            place == IF given("norm") # Nil THEN Rounded(Fraction(given("norm"), Unit, Unit))
                     ELSE IF Proper(either("model"))
                       THEN Rounded(Fraction(either("model"), Model, Model))
                     ELSE IF Proper(found("norm"))
                       THEN Rounded(Fraction(found("norm"), Unit, Unit))
                     ELSE Rounded(WithinPage(either("bbox"), page))
<1>6. Highlight(f) = [index |-> Matched(f), page |-> page, box |-> place]
  BY DEF Highlight
<1>7. place = Rounded(Spot(p))
  <2>1. CASE p.norm # Nil
    <3>1. given("norm") = p.norm
      BY <1>4, <2>1 DEF GoodBox
    <3>. QED BY <2>1, <3>1 DEF Spot
  <2>2. CASE p.norm = Nil
    <3>1. given("norm") = Nil
      BY <2>2 DEF Proper
    <3>2. Proper(p.model) /\ p.model # Nil
      BY <1>4, <2>2 DEF GoodBox
    <3>3. either("model") = p.model
      BY <3>2
    <3>. HIDE DEF given, either, found
    <3>. QED BY <2>2, <3>1, <3>2, <3>3 DEF Spot
  <2>. QED BY <2>1, <2>2
<1>. QED BY <1>2, <1>3, <1>5, <1>6, <1>7

LEMMA DepictedShows ==
  ASSUME HighlightInv
  PROVE  ImagesShowTheirPlace
<1>. SUFFICES ASSUME row.status = "settled", ~overlapped, ~unwritten, NEW f \in Field,
                     row.prov[f] # Nil,
                     row.prov[f].norm # Nil \/ row.prov[f].model # Nil,
                     Highlight(f) # Nil
              PROVE  /\ \A k \in row.crops : k[2] = Highlight(f).index =>
                           Shows(crops[k], Highlight(f))
                     /\ f \in row.overlays => Shows(overlays[f], Highlight(f))
  BY DEF ImagesShowTheirPlace
<1>. DEFINE p == row.prov[f]
            b == row.blocks[p.index]
            h == Highlight(f)
<1>1. Depicted(crops, overlays, row.images, row.blocks, row.prov, row.crops, row.overlays)
  BY DEF HighlightInv, Alone
<1>2. /\ p.index \in DOMAIN row.blocks /\ GoodBlock(b) /\ p.page = b.page
      /\ p.norm = b.norm /\ p.model = b.model
      /\ h = [index |-> p.index, page |-> p.page, box |-> Rounded(Spot(p))]
  BY HighlightIsSpot DEF HighlightInv
<1>3. ASSUME NEW c, c = p \/ c = b PROVE Shows(Image(row.images, c), h)
  <2>1. /\ c.norm = p.norm /\ c.model = p.model /\ c.page = p.page /\ c.page \in Page
        /\ GoodBox(c.norm, 0..Unit) /\ GoodBox(c.model, 0..Model)
    BY <1>2, <1>3 DEF GoodBlock
  <2>2. Spot(c) = Spot(p) /\ Near(Rounded(Spot(c)), Region(OnPage(c)))
    BY <2>1, SpotIsNear DEF Spot
  <2>3. /\ Image(row.images, c).page = SourcePage(row.images, c.page)
        /\ Image(row.images, c).region = Region(OnPage(c))
    BY DEF Image
  <2>. HIDE DEF h, p, b
  <2>. QED BY <1>2, <2>1, <2>2, <2>3 DEF Shows
<1>4. ASSUME NEW k \in row.crops, k[2] = h.index PROVE Shows(crops[k], h)
  <2>1. k[2] = p.index
    BY <1>2, <1>4
  <2>2. crops[k] = Image(row.images, b)
    BY <1>1, <2>1 DEF Depicted
  <2>. QED BY <1>3, <2>2
<1>5. ASSUME f \in row.overlays PROVE Shows(overlays[f], h)
  BY <1>1, <1>3, <1>5 DEF Depicted
<1>. QED BY <1>4, <1>5

(* The crop and the overlay of a value show the page and the place that    *)
(* the page marks, to the pixel, at every resolution, for any number of    *)
(* runs, failures, crashes, retries and PATCHes and any pages that have an *)
(* image - unless the last extraction of the document began while another  *)
(* went on, or has not written the row that a PATCH settled meanwhile.     *)
THEOREM ImagesShowIt == HighlightSpec => []ImagesShowTheirPlace
<1>1. HighlightInit => HighlightInv
  BY HighlightsBegin
<1>2. HighlightInv /\ [HighlightNext]_highlightVars => HighlightInv'
  BY HighlightStep
<1>3. HighlightInv => ImagesShowTheirPlace
  BY DepictedShows
<1>. QED BY <1>1, <1>2, <1>3, PTL DEF HighlightSpec

===============================================================================

--------------------------- MODULE SourceHighlights ---------------------------
(***************************************************************************)
(* Where a value was read: the boxes OCR reports for the blocks of a       *)
(* document, the block the pipeline chooses for each extracted field, the  *)
(* images the ingestion cuts out and stores for blocks and fields, and the *)
(* box and images the page shows for a value of the invoice.               *)
(*                                                                         *)
(* The row is written in one command when an extraction ends, the images   *)
(* one by one before that, under keys that depend on the document only: a  *)
(* second run of the ingestion, a retry or a run that never ends puts its  *)
(* images in the place of those the row points to.  A PATCH writes values  *)
(* and status from a copy of the row that it loaded before.                *)
(*                                                                         *)
(* Coordinates are integers: pixels, 0 to 999 (Model), or 0 to Unit for a  *)
(* fraction of the page that the code rounds to six decimals; Python's way *)
(* with halves and the error of floating point are left out.               *)
(***************************************************************************)
EXTENDS Integers, Sequences, FiniteSets

CONSTANTS
  Nil,
  Run,          \* ingestion runs that may take the document
  Pages,        \* the document has pages 1..Pages
  Blocks,       \* and no more blocks than this
  Width, Height,  \* of a page's image
  Unit,         \* resolution of normalized coordinates: 10^6 in the code
  Number, Amount,   \* invoice numbers and totals
  Typed,        \* values a reviewer may type
  Readings,     \* what OCR may answer: sequences of blocks
  Imaged,       \* the pages it may come with an image of: sets of pages
  MaxReadings   \* bound: extractions begun

Page  == 1..Pages
Model == 999
Field == {"number", "total"}
Value == Number \cup Amount
Values(f) == IF f = "total" THEN Amount ELSE Number

ASSUME HighlightAssumption ==
  /\ Pages \in Nat \ {0} /\ Width \in Nat \ {0} /\ Height \in Nat \ {0}
  /\ Unit \in Nat \ {0} /\ MaxReadings \in Nat /\ Blocks \in Nat
  /\ Nil \notin Value /\ Typed \subseteq Value \cup {Nil}
  /\ Imaged \subseteq SUBSET Page

(* OCR answers with blocks on pages of the document, with boxes of whole   *)
(* pixels, of the model's coordinates or of fractions of the page.  A text *)
(* that is but a spelling of a total, a number, has no word for one.       *)
ASSUME ReadingAssumption ==
  \A answer \in Readings :
    /\ Len(answer) \in Nat /\ DOMAIN answer = 1..Len(answer)
    /\ \A i \in DOMAIN answer :
         LET k == answer[i]
         IN /\ k = [text |-> k.text, page |-> k.page, bbox |-> k.bbox,
                    norm |-> k.norm, model |-> k.model]
            /\ k.page \in Page /\ k.bbox \in [1..4 -> Int]
            /\ k.norm = Nil \/ k.norm \in [1..4 -> 0..Unit]
            /\ k.model = Nil \/ k.model \in [1..4 -> 0..Model]
            /\ k.text.reads \in [Value -> Nat] /\ k.text.bulk \in Nat
            /\ k.text.alone \cap Amount # {} => k.text.label \notin {"total", "charge"}

-----------------------------------------------------------------------------
(* Boxes: <<left, top, right, bottom>>, and a box as a fraction of the     *)
(* page, at divided by of = <<width, height>>.                             *)
Lesser(a, b)  == IF a < b THEN a ELSE b
Greater(a, b) == IF a > b THEN a ELSE b
Clamp(low, high, v) == Greater(low, Lesser(high, v))
RoundDiv(a, b) == (2 * a + b) \div (2 * b)
CeilDiv(a, b)  == -((-a) \div b)

Proper(b) == b # Nil /\ b[1] < b[3] /\ b[2] < b[4]

(* The x coordinates through F, the y coordinates through G *)
Map(b, F(_), G(_)) == <<F(b[1]), G(b[2]), F(b[3]), G(b[4])>>

Fraction(b, w, h) ==
  [at |-> Map(b, LAMBDA x : Clamp(0, w, x), LAMBDA y : Clamp(0, h, y)),
   of |-> <<w, h>>]

Within(b, w, h) == b[1] >= 0 /\ b[2] >= 0 /\ b[3] <= w /\ b[4] <= h

(***************************************************************************)
(* What the OCR services make of a box: a model that answers in            *)
(* coordinates of its own, one that answers in fractions of the page, and  *)
(* a remote one that reports pixels.  Text is described below.             *)
(***************************************************************************)
PixelBox(b) ==
  Map(b, LAMBDA x : RoundDiv(x * Width, Model),
         LAMBDA y : RoundDiv(y * Height, Model))

OfPixels(b) ==
  Map(b, LAMBDA x : Clamp(0, Unit, RoundDiv(x * Unit, Width)),
         LAMBDA y : Clamp(0, Unit, RoundDiv(y * Unit, Height)))

GroundedBlock(text, page, b) ==
  LET m == Map(b, LAMBDA x : Clamp(0, Model, x), LAMBDA y : Clamp(0, Model, y))
  IN [text |-> text, page |-> page, bbox |-> PixelBox(m),
      norm |-> OfPixels(PixelBox(m)), model |-> m]

VisionBlock(text, page, n) ==
  LET left == Clamp(0, Width - 1, RoundDiv(n[1] * Width, Unit))
      top  == Clamp(0, Height - 1, RoundDiv(n[2] * Height, Unit))
  IN [text |-> text, page |-> page, norm |-> n, model |-> Nil,
      bbox |-> <<left, top,
                 Greater(left + 1, Lesser(Width, RoundDiv(n[3] * Width, Unit))),
                 Greater(top + 1, Lesser(Height, RoundDiv(n[4] * Height, Unit)))>>]

RemoteBlock(text, page, b) ==
  [text |-> text, page |-> page, bbox |-> b, norm |-> Nil, model |-> Nil]

(* The backend's client puts corners in order and drops a block whose      *)
(* pixel box is empty, and a box of the other two kinds that is.           *)
Ordered(b) ==
  IF b = Nil THEN Nil
  ELSE LET o == <<Lesser(b[1], b[3]), Lesser(b[2], b[4]),
                  Greater(b[1], b[3]), Greater(b[2], b[4])>>
       IN IF Proper(o) THEN o ELSE Nil

Accepted(blocks) ==
  LET Orderly(k) == [k EXCEPT !.bbox = Ordered(@), !.norm = Ordered(@),
                              !.model = Ordered(@)]
      upTo[i \in 0..Len(blocks)] ==
        IF i = 0 THEN << >>
        ELSE IF Ordered(blocks[i].bbox) = Nil THEN upTo[i - 1]
        ELSE Append(upTo[i - 1], Orderly(blocks[i]))
  IN upTo[Len(blocks)]

-----------------------------------------------------------------------------
(***************************************************************************)
(* findBlockForField.  The text of a block is                              *)
(*   label   "total", "charge" (tax, subtotal), "number" (invoice) or Nil *)
(*   reads   how many spellings of a value it contains: a total such as    *)
(*           1200.00 has several, one written 1,200.00 has none            *)
(*   within  values it contains only inside of a longer number             *)
(*   alone   values of which a spelling is all it says                     *)
(*   shows   values it contains as the page writes them                    *)
(*   bulk    what its length, its lines and its being a table cost         *)
(* and a spelling has four characters or more.                             *)
(***************************************************************************)
KeywordBonus(f, text) ==
  CASE f = "total" /\ text.label = "total"   -> 6
    [] f = "total" /\ text.label = "charge"  -> -3
    [] f = "number" /\ text.label = "number" -> 4
    [] OTHER -> 0

(* buildFieldRegions: the blocks that contain a candidate of the field;    *)
(* offered holds the candidates, which need not include the value.         *)
Preferred(f, offered, text) ==
  \E v \in offered \cap Values(f) : text.reads[v] > 0 \/ v \in text.within

BlockScore(f, v, offered, text) ==
  KeywordBonus(f, text) + 4 * text.reads[v]
    + (IF v \in text.alone THEN 2 ELSE 0)
    + (IF Preferred(f, offered, text) THEN 4 ELSE 0) - text.bulk

(* A bug: a total need not be read where it is shown. *)
EligibleAny(f, v, offered, text) == BlockScore(f, v, offered, text) > 0

Eligible(f, v, offered, text) ==
  /\ BlockScore(f, v, offered, text) > 0
  /\ f = "total" => /\ text.reads[v] > 0
                    /\ text.label = "total" \/ text.reads[v] >= 2

(* The first of the best blocks, or 0 *)
BlockOf(f, v, offered, blocks) ==
  LET able == {i \in DOMAIN blocks : Eligible(f, v, offered, blocks[i].text)}
      score(i) == BlockScore(f, v, offered, blocks[i].text)
  IN IF able = {} THEN 0
     ELSE CHOOSE i \in able : \A k \in able :
            score(k) < score(i) \/ (score(k) = score(i) /\ i <= k)

(* addFieldDiagnosticsToMetadata: the provenance of a field *)
Provenance(f, v, offered, blocks) ==
  IF v = Nil THEN Nil
  ELSE LET i == BlockOf(f, v, offered, blocks)
       IN IF i = 0
            THEN [index |-> 0, page |-> 1, bbox |-> <<0, 0, 0, 0>>,
                  norm |-> Nil, model |-> Nil]
            ELSE [index |-> i, page |-> blocks[i].page, bbox |-> blocks[i].bbox,
                  norm |-> blocks[i].norm, model |-> blocks[i].model]

-----------------------------------------------------------------------------
(* The ingestion's way to place a block or a provenance k on the page *)
OnPageByPixels(k) ==   \* a bug: the pixels are looked at first
  IF Proper(k.bbox) /\ Within(k.bbox, Width, Height) THEN Fraction(k.bbox, Unit, Unit)
  ELSE Nil

OnPage(k) ==
  IF Proper(k.norm) /\ Within(k.norm, Unit, Unit) THEN Fraction(k.norm, Unit, Unit)
  ELSE IF Proper(k.model) THEN Fraction(k.model, Model, Model)
  ELSE IF ~Proper(k.bbox) THEN Nil
  ELSE IF Within(k.bbox, 1, 1) THEN Fraction(k.bbox, 1, 1)
  ELSE Fraction(k.bbox, Width, Height)

(* The pixels an image is cut from, or a rectangle drawn on *)
Region(place) ==
  LET left  == Clamp(0, Width - 1, (place.at[1] * Width) \div place.of[1])
      top   == Clamp(0, Height - 1, (place.at[2] * Height) \div place.of[2])
  IN <<left, top,
       Greater(left + 1, Lesser(Width, CeilDiv(place.at[3] * Width, place.of[1]))),
       Greater(top + 1, Lesser(Height, CeilDiv(place.at[4] * Height, place.of[2])))>>

(* The image of a page, or of the first page in its place *)
SourcePage(images, p) == IF p \in images THEN p ELSE 1

Image(images, k) ==
  [page |-> SourcePage(images, k.page), region |-> Region(OnPage(k))]

(* No image is cut of a single column or row of pixels. *)
Croppable(images, k) ==
  /\ SourcePage(images, k.page) \in images
  /\ OnPage(k) # Nil
  /\ LET r == Region(OnPage(k)) IN r[3] - r[1] > 1 /\ r[4] - r[2] > 1

Drawable(images, k) ==
  k # Nil /\ SourcePage(images, k.page) \in images /\ OnPage(k) # Nil

-----------------------------------------------------------------------------
VARIABLES
  row,        \* the invoice of the document
  crops,      \* stored images of blocks, by page and index
  overlays,   \* stored images of fields
  run,        \* the runs
  patch,      \* the PATCH that is open, one at a time: of two that are, one
              \* is refused for its __v and might as well not have begun
  readings,   \* extractions begun
  overlapped, \* history: the last extraction began while another went on
  unwritten   \* history: it has not written what it read to the row (yet)

history       == <<overlapped, unwritten>>
highlightVars == <<row, crops, overlays, run, patch, readings, history>>

Nothing(x) == [f \in Field |-> x]

(* images: the pages the extraction had an image of (history); edited: the *)
(* fields whose value a PATCH wrote.                                       *)
NoRow == [status |-> "none", blocks |-> << >>, prov |-> Nothing(Nil),
          values |-> Nothing(Nil), images |-> {}, edited |-> {},
          crops |-> {}, overlays |-> {}]

(* settled: the status it loaded; stale: the row was written anew since    *)
(* (history)                                                               *)
NoPatch == [open |-> FALSE, values |-> Nothing(Nil), settled |-> FALSE,
            stale |-> FALSE]

(* todo: the images still to be stored: crops by index, then overlays by   *)
(* field; done: keys of the crops stored, drawn: fields of the overlays.   *)
NoRun == [pc |-> "idle", blocks |-> << >>, values |-> Nothing(Nil),
         prov |-> Nothing(Nil), images |-> {}, todo |-> {}, done |-> {}, drawn |-> {}]

Index == 1..Blocks
Key   == Page \X Index

HighlightInit ==
  /\ row = NoRow
  /\ crops = [k \in Key |-> Nil] /\ overlays = Nothing(Nil)
  /\ run = [r \in Run |-> NoRun] /\ patch = NoPatch
  /\ readings = 0 /\ overlapped = FALSE /\ unwritten = FALSE

Become(r, record) == run' = [run EXCEPT ![r] = record]

(* A document without a row, or with one that waits, is taken. *)
Begin(r) ==
  /\ run[r].pc = "idle" /\ row.status \in {"none", "PENDING"}
  /\ readings < MaxReadings /\ readings' = readings + 1
  /\ Become(r, [NoRun EXCEPT !.pc = "ocr"])
  /\ overlapped' = \E q \in Run : run[q].pc # "idle"
  /\ unwritten' = TRUE
  /\ UNCHANGED <<row, crops, overlays, patch>>

(* The extraction answers, with images of some pages: one that cannot be   *)
(* decoded or measured is passed over.                                     *)
Read(r) ==
  /\ run[r].pc = "ocr"
  /\ \E answer \in Readings, images \in Imaged, offered \in SUBSET Value,
        n \in Number \cup {Nil}, t \in Amount \cup {Nil} :
       LET blocks == Accepted(answer)
           values == [f \in Field |-> IF f = "total" THEN t ELSE n]
       IN Become(r, [run[r] EXCEPT !.pc = "crops", !.blocks = blocks, !.images = images,
                       !.values = values,
                       !.prov = [f \in Field |-> Provenance(f, values[f], offered, blocks)],
                       !.todo = {i \in DOMAIN blocks : Croppable(images, blocks[i])}])
  /\ UNCHANGED <<row, crops, overlays, patch, readings, history>>

(* One image is stored, or could not be and is left out. *)
PutCrop(r, i) ==
  LET k   == <<SourcePage(run[r].images, run[r].blocks[i].page), i>>
      now == [run[r] EXCEPT !.todo = @ \ {i}]
  IN /\ run[r].pc \in {"crops", "stray"} /\ i \in run[r].todo
     /\ \/ /\ crops' = [crops EXCEPT ![k] = Image(run[r].images, run[r].blocks[i])]
           /\ Become(r, [now EXCEPT !.done = @ \cup {k}])
        \/ UNCHANGED crops /\ Become(r, now)
     /\ UNCHANGED <<row, overlays, patch, readings, history>>

Cropped(r) ==
  /\ run[r].pc = "crops" /\ run[r].todo = {}
  /\ Become(r, [run[r] EXCEPT !.pc = "overlays",
                  !.todo = {f \in Field : Drawable(run[r].images, run[r].prov[f])}])
  /\ UNCHANGED <<row, crops, overlays, patch, readings, history>>

PutOverlay(r, f) ==
  LET now == [run[r] EXCEPT !.todo = @ \ {f}]
  IN /\ run[r].pc = "overlays" /\ f \in run[r].todo
     /\ \/ /\ overlays' = [overlays EXCEPT ![f] = Image(run[r].images, run[r].prov[f])]
           /\ Become(r, [now EXCEPT !.drawn = @ \cup {f}])
        \/ UNCHANGED overlays /\ Become(r, now)
     /\ UNCHANGED <<row, crops, patch, readings, history>>

(***************************************************************************)
(* upsertFromPending: the row is written if it waits or there is none, and *)
(* otherwise the result is dropped as a duplicate.                         *)
(***************************************************************************)
Awaited == row.status \in {"none", "PENDING"}

Upsert(new) == row' = IF Awaited THEN new ELSE row

Save(r) ==
  /\ run[r].pc = "overlays" /\ run[r].todo = {}
  /\ Upsert([status |-> "settled", blocks |-> run[r].blocks, prov |-> run[r].prov,
             values |-> run[r].values, images |-> run[r].images, edited |-> {},
             crops |-> run[r].done, overlays |-> run[r].drawn])
  /\ patch' = [patch EXCEPT !.stale = patch.open /\ (@ \/ Awaited)]
  /\ Become(r, NoRun)
  /\ unwritten' = (unwritten /\ ~Awaited)
  /\ UNCHANGED <<crops, overlays, readings, overlapped>>

(* A failure of OCR, of a preview image that cannot be written while crops *)
(* still are, or of the row: the row keeps its values and loses where they *)
(* were read.  The crops go on being stored.                               *)
FailedRow(blocks, keys) ==
  [row EXCEPT !.status = "failed", !.blocks = blocks, !.prov = Nothing(Nil),
              !.crops = keys, !.overlays = {}]

Fail(r) ==
  /\ \/ run[r].pc = "ocr" /\ Upsert(FailedRow(<< >>, {}))
     \/ run[r].pc = "crops" /\ Upsert(FailedRow(run[r].blocks, {}))
     \/ /\ run[r].pc = "overlays" /\ run[r].todo = {}
        /\ Upsert(FailedRow(run[r].blocks, run[r].done))
  /\ Become(r, [run[r] EXCEPT !.pc = "stray"])
  /\ UNCHANGED <<crops, overlays, patch, readings, history>>

(* The last image of a failed extraction is stored, or the process ends. *)
Stop(r) ==
  /\ run[r].pc # "idle"
  /\ Become(r, NoRun)
  /\ UNCHANGED <<row, crops, overlays, patch, readings, history>>

(***************************************************************************)
(* PATCH loads the row and saves values and status from that copy.  It     *)
(* settles every row that is not approved, one that waits or has failed,   *)
(* too; the status it computes may be the one it loaded and stays          *)
(* unwritten then.  A value that was there already may leave all unwritten *)
(* (InvoiceReview!Save).  An approved or exported row is settled as well:  *)
(* one that no edit reaches.                                               *)
(***************************************************************************)
LoadEdit ==
  /\ row.status # "none" /\ ~patch.open
  /\ patch' = [open |-> TRUE, values |-> row.values,
               settled |-> row.status = "settled", stale |-> FALSE]
  /\ UNCHANGED <<row, crops, overlays, run, readings, history>>

SaveEdit(f) ==
  /\ patch.open /\ row.status # "none"
  /\ \E v \in Typed \cap (Values(f) \cup {Nil}) :
     \E write \in {TRUE, v # patch.values[f]},
        status \in {"settled"} \cup (IF patch.settled THEN {row.status} ELSE {}) :
       row' = [row EXCEPT
                 !.status = status,
                 !.values = IF write THEN [patch.values EXCEPT ![f] = v] ELSE @,
                 !.edited = IF ~write THEN @ ELSE IF patch.stale THEN Field ELSE @ \cup {f}]
  /\ patch' = NoPatch
  /\ UNCHANGED <<crops, overlays, run, readings, history>>

(* Retry changes the status; delete leaves the images behind, and the save *)
(* of a PATCH finds nothing.                                               *)
RetryRow ==
  /\ row.status # "none"
  /\ row' = [row EXCEPT !.status = "PENDING"]
  /\ UNCHANGED <<crops, overlays, run, patch, readings, history>>

DeleteRow ==
  /\ row.status # "none"
  /\ row' = NoRow /\ patch' = NoPatch
  /\ UNCHANGED <<crops, overlays, run, readings, history>>

HighlightNext ==
  \/ \E r \in Run : \/ Begin(r) \/ Read(r) \/ Cropped(r) \/ Save(r) \/ Fail(r) \/ Stop(r)
                   \/ \E i \in Index : PutCrop(r, i)
                   \/ \E f \in Field : PutOverlay(r, f)
  \/ LoadEdit \/ \E f \in Field : SaveEdit(f)
  \/ RetryRow \/ DeleteRow

HighlightSpec == HighlightInit /\ [][HighlightNext]_highlightVars

-----------------------------------------------------------------------------
(***************************************************************************)
(* What the page shows for a value (getInvoiceSourceHighlights): the block *)
(* and the box of its provenance, and what is missing from the first block *)
(* that contains the value.                                                *)
(***************************************************************************)
First(S) == IF S = {} THEN 0 ELSE CHOOSE i \in S : \A k \in S : i <= k

Matched(f) ==
  IF row.prov[f] # Nil /\ row.prov[f].index \in DOMAIN row.blocks
    THEN row.prov[f].index
  ELSE First({i \in DOMAIN row.blocks : row.values[f] \in row.blocks[i].text.shows})

Rounded(place) ==
  Map(place.at, LAMBDA x : RoundDiv(x * Unit, place.of[1]),
                LAMBDA y : RoundDiv(y * Unit, place.of[2]))

(* Pixels, when the size of the page is not known: relative to the extent  *)
(* of the page's blocks                                                    *)
Largest(S) == CHOOSE x \in S : \A y \in S : y <= x

WithinPage(b, page) ==
  LET on == {i \in DOMAIN row.blocks : row.blocks[i].page = page}
  IN IF b[3] <= 1 /\ b[4] <= 1 THEN Fraction(b, 1, 1)
     ELSE Fraction(b, Largest({1, b[3]} \cup {row.blocks[i].bbox[3] : i \in on}),
                      Largest({1, b[4]} \cup {row.blocks[i].bbox[4] : i \in on}))

Highlight(f) ==
  LET p     == row.prov[f]
      i     == Matched(f)
      given(field) == IF p # Nil /\ Proper(p[field]) THEN p[field] ELSE Nil
      found(field) == IF i # 0 THEN row.blocks[i][field] ELSE Nil
      either(field) == IF given(field) # Nil THEN given(field) ELSE found(field)
      bbox  == either("bbox")
      page  == IF p # Nil THEN p.page ELSE row.blocks[i].page
      place == IF given("norm") # Nil THEN Rounded(Fraction(given("norm"), Unit, Unit))
               ELSE IF Proper(either("model"))
                 THEN Rounded(Fraction(either("model"), Model, Model))
               ELSE IF Proper(found("norm"))
                 THEN Rounded(Fraction(found("norm"), Unit, Unit))
               ELSE Rounded(WithinPage(bbox, page))
  IN IF row.values[f] = Nil \/ bbox = Nil \/ ~Proper(place) THEN Nil
     ELSE [index |-> i, page |-> page, box |-> place]

-----------------------------------------------------------------------------
(***************************************************************************)
(* Properties.                                                             *)
(***************************************************************************)
(* To the pixel, but for the rounding of the fraction *)
Near(box, region) ==
  LET close(v, pixel, size) ==
        v * size - pixel * Unit \in -(Unit + size)..(Unit + size)
  IN /\ close(box[1], region[1], Width) /\ close(box[3], region[3], Width)
     /\ close(box[2], region[2], Height) /\ close(box[4], region[4], Height)

Shows(image, h) ==
  /\ image.page = SourcePage(row.images, h.page)
  /\ Near(h.box, image.region)

(* The crop and the overlay a reviewer opens for a value show the page and *)
(* the place that the page would mark itself, to the pixel: after retries, *)
(* edits, failures and crashes of earlier extractions, and for any way OCR *)
(* reports boxes but pixels alone (docs/PRD.md:55-56).  The exceptions:    *)
(* the last extraction of the document began while another went on, or it  *)
(* has not written the row, which a PATCH has settled instead; of a page   *)
(* without an image they show that place on the first page.                *)
ImagesShowTheirPlace ==
  row.status = "settled" /\ ~overlapped /\ ~unwritten =>
    \A f \in Field :
      LET p == row.prov[f]
          h == Highlight(f)
      IN p # Nil /\ (p.norm # Nil \/ p.model # Nil) /\ h # Nil =>
           /\ \A k \in row.crops : k[2] = h.index => Shows(crops[k], h)
           /\ f \in row.overlays => Shows(overlays[f], h)

(* A total that no PATCH wrote is marked, if at all, where it is read: in  *)
(* a block that says it, and in no line of tax or of a subtotal if a line  *)
(* labelled as the total, no longer than that one, says it, too - unless   *)
(* the charge says it in two spellings more, as "120000" besides "1200.00" *)
(* and "1200" (findBlockForField).  A PATCH of another field that was      *)
(* loaded before the extraction wrote the row puts the older total back.   *)
ReadWhere(total, text, blocks) ==
  /\ text.reads[total] > 0
  /\ text.label = "charge" =>
       \A i \in DOMAIN blocks :
         LET other == blocks[i].text
         IN other.label = "total" /\ other.bulk <= text.bulk /\ other.reads[total] > 0 =>
              text.reads[total] >= other.reads[total] + 2

TotalIsRead ==
  LET p == row.prov["total"]
  IN "total" \notin row.edited /\ p # Nil =>
       (p.index # 0 => ReadWhere(row.values["total"], row.blocks[p.index].text, row.blocks))
=============================================================================

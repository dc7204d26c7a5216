----------------------------- MODULE Extraction ------------------------------
(***************************************************************************)
(* InvoiceExtractionPipeline.extract, as the worker and the API server run *)
(* it at the same time: a document is fingerprinted, a vendor template is  *)
(* looked up, OCR reads the text, the template or the heuristics read the  *)
(* fields, the language-model service verifies them, once more with the    *)
(* page images if the score is low, and what changed is learned.  The two  *)
(* stores, of vendor templates and of corrections, are shared by all       *)
(* extractions and are read in one command and written in another.         *)
(*                                                                         *)
(* The code between two awaits is one step.  The services answer what they *)
(* like, late, with an error or not at all (a timeout is an error).        *)
(***************************************************************************)
EXTENDS ExtractionRules

CONSTANTS
  Job,             \* extractions; each is of one document
  Tenant, Fingerprint,   \* tenants, and keys computeVendorFingerprint may give
  Documents,       \* whose document each job may have: [tenant, print] per job
  Readings,        \* for each job, what the parser may make of its text
  OcrConfidence,   \* calibrated confidences of OCR, in percent
  Payloads,        \* what the language model may answer: [selected, issues]
  Type,            \* invoice types the model may name
  Other,           \* "other", the type of an invoice before it was named
  MaxCorrections,  \* MAX_CORRECTIONS_PER_DOCUMENT
  Verifier         \* is a field verifier configured?

MaxAttempts == 3

ASSUME ExtractionAssumption ==
  /\ Documents \subseteq [Job -> [tenant : Tenant, print : Fingerprint]]
  /\ Other \in Type /\ MaxCorrections \in Nat \ {0} /\ Verifier \in BOOLEAN
  /\ IsFiniteSet(Job) /\ OcrConfidence \subseteq 0..100

VARIABLES
  templates,   \* the vendor template of a tenant and a fingerprint, or None
  learned,     \* the corrections of a group: [count, seen, by] per field
  clock,       \* time, as far as the order of corrections needs it
  job,         \* the extractions
  applied,     \* history: writes of a correction per group and field
  overlapped   \* history: groups two recordings of which overlapped

vars == <<templates, learned, clock, job, applied, overlapped>>

(* A group of corrections: an invoice type or a vendor, of one tenant. *)
Group == [tenant : Tenant, kind : {"type"}, of : Type]
           \cup [tenant : Tenant, kind : {"vendor"}, of : Fingerprint]

(* A bug: the group's key lacks the tenant. *)
SharedGroup(d) == [tenant |-> CHOOSE t \in Tenant : TRUE, kind |-> "vendor", of |-> d.print]

TypeGroup(d, t) == [tenant |-> d.tenant, kind |-> "type", of |-> t]
VendorGroup(d) == [tenant |-> d.tenant, kind |-> "vendor", of |-> d.print]

NoCorrection == [count |-> 0, seen |-> 0, by |-> None]
Nothing      == [f \in Field |-> NoCorrection]
Known(store) == {f \in Field : store[f] # NoCorrection}

NoTemplate == [vendor |-> None, currency |-> None, prefix |-> None, by |-> {}]
Unread     == [f \in Field |-> None]
NoReading  == [parsed |-> Unread, warnings |-> {}, alt |-> [f \in Offered |-> {}],
               tax |-> 0, precise |-> TRUE, short |-> FALSE]

(* What an extraction carries, as long as it needs it.  left and held are  *)
(* the groups it has still to read and those it has read, with what it     *)
(* read, but not written; answered: history, whose selection was used in   *)
(* the relaxed pass, the model's, the candidates' or nobody's.             *)
Waiting(d) ==
        [doc |-> d, pc |-> "idle", attempts |-> 0, template |-> NoTemplate, ocr |-> 0,
         images |-> FALSE, reading |-> NoReading, offers |-> NoReading.alt,
         parsed |-> Unread, warnings |-> {}, score |-> 0, risks |-> {},
         valid |-> FALSE, type |-> Other, prior |-> {}, changed |-> {}, at |-> 0,
         left |-> {}, held |-> << >>, answered |-> None, fromTemplate |-> FALSE,
         status |-> None]

Init ==
  /\ templates = [d \in [tenant : Tenant, print : Fingerprint] |-> NoTemplate]
  /\ learned = [g \in Group |-> Nothing]
  /\ clock = 0
  /\ \E d \in Documents : job = [j \in Job |-> Waiting(d[j])]
  /\ applied = [g \in Group |-> [f \in Field |-> 0]]
  /\ overlapped = {}

Become(j, r) == job' = [job EXCEPT ![j] = r]

-----------------------------------------------------------------------------
(* The template of the document's fingerprint; a lookup that fails finds   *)
(* none.                                                                   *)
Start(j) ==
  /\ job[j].pc = "idle"
  /\ \E t \in {templates[job[j].doc], NoTemplate} :
       Become(j, [job[j] EXCEPT !.pc = "ocr", !.template = t])
  /\ UNCHANGED <<templates, learned, clock, applied, overlapped>>

(* A request that failed for the network or with a status of 500 or more   *)
(* is sent again, three times in all.                                      *)
OcrRetry(j) ==
  /\ job[j].pc = "ocr"
  /\ job[j].attempts + 1 < MaxAttempts
  /\ Become(j, [job[j] EXCEPT !.attempts = @ + 1])
  /\ UNCHANGED <<templates, learned, clock, applied, overlapped>>

(* OCR has failed for good, or found no text. *)
OcrFail(j) ==
  /\ job[j].pc = "ocr"
  /\ Become(j, [Waiting(job[j].doc) EXCEPT !.pc = "done", !.status = "FAILED_OCR"])
  /\ UNCHANGED <<templates, learned, clock, applied, overlapped>>

(* The confidence in r's fields and their validity, as of now. *)
Assessed(r, ocr) ==
  [r EXCEPT !.score = Score(r.parsed, ocr, Cardinality(r.warnings)),
            !.risks = Risks(r.parsed),
            !.valid = Issues(r.parsed, r.reading) = {}]

(* A bug: the issues of invalid fields are not added to the warnings. *)
FinishUnwarned(r) == [r EXCEPT !.pc = "cache"]

(* The end of every path but the template's: invalid fields are warned of. *)
Finish(r) ==
  [r EXCEPT !.pc = "cache",
            !.warnings = IF r.valid THEN @ ELSE @ \cup Issues(r.parsed, r.reading)]

(***************************************************************************)
(* OCR answers with texts to choose from.  Fields that a vendor template   *)
(* completes are the result, unverified, if they are valid; otherwise the  *)
(* fields are what the parser read, and the service is asked.              *)
(***************************************************************************)
OcrAnswer(j) ==
  /\ job[j].pc = "ocr"
  /\ \E c \in OcrConfidence, images \in BOOLEAN,
        texts \in SUBSET Readings[j] \ {{}} : \E best \in Best(texts, c) :
       LET t    == job[j].template
           base == [job[j] EXCEPT !.attempts = 0, !.ocr = c, !.images = images, !.reading = best,
                                  !.parsed = best.parsed, !.warnings = best.warnings]
           byTemplate == Assessed([base EXCEPT !.parsed = ApplyTemplate(t, @)], c)
           read == Assessed([base EXCEPT !.offers = Offers(best, best.parsed, t)], c)
       IN Become(j,
            IF t # NoTemplate /\ byTemplate.valid
              THEN [byTemplate EXCEPT !.pc = "cache", !.fromTemplate = TRUE]
            ELSE IF Verifier
              THEN [read EXCEPT !.pc = "lookup",
                                !.left = {TypeGroup(read.doc, read.type), VendorGroup(read.doc)}]
            ELSE Finish(read))
  /\ UNCHANGED <<templates, learned, clock, applied, overlapped>>

(***************************************************************************)
(* The corrections of the vendor and of the invoice's type, read at the    *)
(* same time, the vendor's taking precedence.  The type is not known yet:  *)
(* the group asked for is always that of "other".  If one read fails, the  *)
(* lookup has found nothing.                                               *)
(***************************************************************************)
Prior(prior, g) ==
  LET ofGroup == {[field |-> f, by |-> learned[g][f].by] : f \in Known(learned[g])}
      Clash(c, S) == \E d \in S : d.field = c.field
  IN IF g.kind = "vendor" THEN ofGroup \cup {c \in prior : ~Clash(c, ofGroup)}
                          ELSE prior \cup {c \in ofGroup : ~Clash(c, prior)}

Lookup(j, g) ==
  /\ job[j].pc = "lookup"
  /\ g \in job[j].left
  /\ \/ Become(j, [job[j] EXCEPT !.pc = IF job[j].left = {g} THEN "verify" ELSE @,
                                 !.left = @ \ {g}, !.prior = Prior(@, g)])
     \/ Become(j, [job[j] EXCEPT !.pc = "verify", !.left = {}, !.prior = {}])
  /\ UNCHANGED <<templates, learned, clock, applied, overlapped>>

-----------------------------------------------------------------------------
(***************************************************************************)
(* HttpFieldVerifier.verify: the request may fail, in which case the       *)
(* fields come back as they were, with an issue; the service may have no   *)
(* working model, its model may select anything, or answer nonsense.       *)
(***************************************************************************)
Unserved(mode, p, offers) ==
  {[parsed |-> p, issues |-> {"request failed"}, answered |-> None]}
    \cup UNION {WithoutModel(mode, p, offers, i) : i \in {{}, {"unavailable"}}}

Selected(mode, p, offers) ==
  UNION {SelectWithFallback(mode, p, offers, a.selected, a.issues, "model") :
           a \in Payloads}

Answers(mode, r) ==
  Unserved(mode, r.parsed, r.offers) \cup Selected(mode, r.parsed, r.offers)
    \cup Guessed(mode, r.parsed, r.offers,
                 FirstCandidates(r.reading.parsed, r.template, r.offers))

(* The images, the corrections and the template are of no further use. *)
Shown(r) == [r EXCEPT !.images = FALSE, !.prior = {}, !.template = NoTemplate]

(* The relaxed pass.  Its issues become warnings; the fields it returns    *)
(* are assessed anew; a low score with page images asks for another pass.  *)
(* Only a model names the invoice's type.                                  *)
Verify(j) ==
  /\ job[j].pc = "verify"
  /\ \E a \in Answers("relaxed", job[j]), t \in Type :
       LET r == Assessed([job[j] EXCEPT !.parsed   = MergeParsed("relaxed", @, a.parsed),
                                        !.warnings = @ \cup a.issues,
                                        !.type     = t,
                                        !.answered = a.answered], job[j].ocr)
       IN /\ t # Other => a \in Selected("relaxed", job[j].parsed, job[j].offers)
          /\ Become(j, IF r.score < AssistThreshold /\ r.images
                         THEN [r EXCEPT !.pc = "assist"] ELSE Finish(Shown(r)))
  /\ UNCHANGED <<templates, learned, clock, applied, overlapped>>

(***************************************************************************)
(* The strict pass with page images.  Its issues are dropped; what it      *)
(* changed is assessed with a confidence in OCR of at least 88 percent and *)
(* recorded for the invoice's type and for the vendor.                     *)
(***************************************************************************)
Assist(j) ==
  /\ job[j].pc = "assist"
  /\ \E a \in Answers("strict", job[j]) :
       LET merged  == MergeParsed("strict", job[j].parsed, a.parsed)
           changed == {f \in Field : merged[f] # job[j].parsed[f]}
           r       == Assessed([job[j] EXCEPT !.parsed = merged], Maximum(job[j].ocr, 88))
       IN IF changed = {}
            THEN Become(j, Finish(Shown(job[j]))) /\ UNCHANGED clock
            ELSE /\ Become(j, [Shown(r) EXCEPT !.pc = "learn", !.changed = changed, !.at = clock + 1,
                                        !.left = {TypeGroup(r.doc, r.type), VendorGroup(r.doc)}])
                 /\ clock' = clock + 1
  /\ UNCHANGED <<templates, learned, applied, overlapped>>

-----------------------------------------------------------------------------
(* recordCorrections, for both groups at the same time: read the group's   *)
(* document, ...                                                           *)
LearnRead(j, g) ==
  /\ job[j].pc = "learn"
  /\ g \in job[j].left
  /\ Become(j, [job[j] EXCEPT !.left = @ \ {g},
                              !.held = [h \in DOMAIN @ \cup {g} |->
                                          IF h = g THEN learned[g] ELSE @[h]]])
  /\ overlapped' = IF \E k \in Job : g \in DOMAIN job[k].held
                     THEN overlapped \cup {g} ELSE overlapped
  /\ UNCHANGED <<templates, learned, clock, applied>>

(* A bug: a field corrected before starts to count anew. *)
UpsertsAnew(store, fields, at, j) ==
  {[f \in Field |-> IF f \in fields THEN [count |-> 1, seen |-> at, by |-> j]
                                    ELSE store[f]]}

(* ... merge the corrections in, keep the newest, and write.               *)
Upserts(store, fields, at, j) ==
  LET all == [f \in Field |->
                IF f \in fields
                  THEN [count |-> store[f].count + 1, seen |-> Maximum(at, store[f].seen),
                        by |-> j]
                  ELSE store[f]]
      kept == {K \in SUBSET Known(all) :
                 /\ Cardinality(K) = Minimum(MaxCorrections, Cardinality(Known(all)))
                 /\ \A f \in K, h \in Known(all) \ K : all[f].seen >= all[h].seen}
  IN {[f \in Field |-> IF f \in K THEN all[f] ELSE NoCorrection] : K \in kept}

Drop(r, g) == [r EXCEPT !.held = [h \in DOMAIN @ \ {g} |-> @[h]]]

LearnWrite(j, g) ==
  /\ job[j].pc = "learn"
  /\ g \in DOMAIN job[j].held
  /\ \E store \in Upserts(job[j].held[g], job[j].changed, job[j].at, j) :
       learned' = [learned EXCEPT ![g] = store]
  /\ applied' = [applied EXCEPT ![g] =
                   [f \in Field |-> IF f \in job[j].changed THEN @[f] + 1 ELSE @[f]]]
  /\ Become(j, Drop(job[j], g))
  /\ UNCHANGED <<templates, clock, overlapped>>

(* Either command may fail: the corrections are lost, and nobody is told.  *)
LearnFail(j, g) ==
  /\ job[j].pc = "learn"
  /\ g \in job[j].left \cup DOMAIN job[j].held
  /\ Become(j, [Drop(job[j], g) EXCEPT !.left = @ \ {g}])
  /\ UNCHANGED <<templates, learned, clock, applied, overlapped>>

LearnDone(j) ==
  /\ job[j].pc = "learn"
  /\ job[j].left = {} /\ DOMAIN job[j].held = {}
  /\ Become(j, Finish([job[j] EXCEPT !.changed = {}, !.at = 0]))
  /\ UNCHANGED <<templates, learned, clock, applied, overlapped>>

-----------------------------------------------------------------------------
(***************************************************************************)
(* cacheTemplate and the status ingestion derives from the result.  The    *)
(* template is written if the score is high, valid fields or not, and the  *)
(* write may fail unnoticed.  What the new template lacks is not part of   *)
(* the update and stays as an earlier extraction left it.                  *)
(***************************************************************************)
Stored(old, t, j) ==
  [vendor   |-> t.vendor,
   currency |-> IF t.currency = None THEN old.currency ELSE t.currency,
   prefix   |-> IF t.prefix = None THEN old.prefix ELSE t.prefix,
   by       |-> old.by \cup {j}]

Cache(j) ==
  /\ job[j].pc = "cache"
  /\ LET r  == job[j]
     IN /\ \/ /\ r.score >= AutoSelectMin /\ r.parsed.vendor # None
              /\ templates' = [templates EXCEPT ![r.doc] = Stored(@, TemplateOf(r.parsed), j)]
           \/ UNCHANGED templates
        /\ Become(j, [Waiting(r.doc) EXCEPT !.pc = "done", !.parsed = r.parsed,
             !.reading = r.reading, !.answered = r.answered, !.fromTemplate = r.fromTemplate,
             !.status = IF r.warnings = {} /\ r.risks = {} THEN "PARSED"
                                                           ELSE "NEEDS_REVIEW"])
  /\ UNCHANGED <<learned, clock, applied, overlapped>>

(* The process ends in the middle; the document is another job later.      *)
Crash(j) ==
  /\ job[j].pc \notin {"idle", "done", "crashed"}
  /\ Become(j, [Waiting(job[j].doc) EXCEPT !.pc = "crashed"])
  /\ UNCHANGED <<templates, learned, clock, applied, overlapped>>

Step(j) ==
  \/ Start(j) \/ OcrRetry(j) \/ OcrFail(j) \/ OcrAnswer(j)
  \/ Verify(j) \/ Assist(j)
  \/ \E g \in Group : Lookup(j, g) \/ LearnRead(j, g) \/ LearnWrite(j, g) \/ LearnFail(j, g)
  \/ LearnDone(j) \/ Cache(j)

Next == \E j \in Job : Step(j) \/ Crash(j)

Spec == Init /\ [][Next]_vars

-----------------------------------------------------------------------------
(***************************************************************************)
(* Properties.                                                             *)
(***************************************************************************)
(* What the code takes for a reading: no address or label for a vendor,    *)
(* and a total that is positive.                                           *)
Plausible(f, v) ==
  /\ v # None
  /\ f = "vendor" => ~IsWeakVendor(v)
  /\ f = "total" => Minor[v] > 0

(* A document becomes PARSED, past the reviewer's list of doubts, only if  *)
(* its fields, whatever template, model pass or merge changed them last,   *)
(* pass the validation and bear no risk, and, with a verifier configured,  *)
(* a vendor template vouches for them, or a model answered for them, or    *)
(* the service took the candidates for the model's answer, which no        *)
(* warning tells: then what the parser had plausibly read still stands.    *)
(* An outage of the service lets nothing pass.                             *)
PassedIsEarned ==
  \A j \in Job : job[j].status = "PARSED" =>
    /\ Issues(job[j].parsed, job[j].reading) = {}
    /\ Risks(job[j].parsed) = {}
    /\ Verifier =>
         \/ job[j].fromTemplate
         \/ job[j].answered = "model"
         \/ /\ job[j].answered = "candidates"
            /\ \A f \in Field : Plausible(f, job[j].reading.parsed[f]) =>
                 job[j].parsed[f] = job[j].reading.parsed[f]

(* What an extraction takes from templates and from corrections was        *)
(* learned from the same tenant's documents only.                          *)
MemoryIsOwn ==
  \A j \in Job :
    /\ \A k \in job[j].template.by : job[k].doc = job[j].doc
    /\ \A c \in job[j].prior : job[c.by].doc.tenant = job[j].doc.tenant

(* A group keeps its newest corrections, within its limit; a correction    *)
(* never counts more often than it was made, and exactly as often unless   *)
(* two extractions recorded at the same time or the limit dropped it.      *)
CountsAreExact ==
  \A g \in Group :
    LET made == {f \in Field : applied[g][f] > 0}
    IN /\ Cardinality(Known(learned[g])) <= MaxCorrections
       /\ \A f \in Field : learned[g][f].count <= applied[g][f]
       /\ g \notin overlapped /\ Cardinality(made) <= MaxCorrections =>
            \A f \in Field : learned[g][f].count = applied[g][f]

(* A value the verification gives a field is one of those it was offered, *)
(* if it was offered any, and the second pass, with images, fills only     *)
(* what is missing or plainly wrong (docs/RFC.md:155), whatever the model   *)
(* and however often its answer is merged.                                 *)
VerifierIsBounded ==
  [][\A j \in Job : \A f \in Field :
       job[j].pc \in {"verify", "assist"} /\ job'[j].parsed[f] # job[j].parsed[f]
         /\ job'[j].pc # "crashed" =>
           /\ f \in Offered /\ job[j].offers[f] # {} =>
                job'[j].parsed[f] \in job[j].offers[f]
           /\ job[j].pc = "assist" =>
                \/ job[j].parsed[f] = None
                \/ f = "vendor" /\ IsWeakVendor(job[j].parsed[f])
                \/ f = "total" /\ Minor[job[j].parsed[f]] = 0]_vars

=============================================================================

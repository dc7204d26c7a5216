-------------------------- MODULE Extraction_proofs ---------------------------
(***************************************************************************)
(* Proofs about Extraction for any tenants, fingerprints, texts, answers   *)
(* of the services, thresholds and number of concurrent extractions: what  *)
(* is learned stays within a tenant, what passes review was read by        *)
(* somebody, what the verification changes it was offered, and corrections *)
(* are counted as they were made.                                          *)
(***************************************************************************)
EXTENDS Extraction, FiniteSetTheorems, TLAPS

(* r is a record with the fields of an extraction, of whatever types. *)
IsExtraction(r) ==
  r \in [doc : {r.doc}, pc : {r.pc}, attempts : {r.attempts},
         template : {r.template}, ocr : {r.ocr}, images : {r.images},
         reading : {r.reading}, offers : {r.offers}, parsed : {r.parsed},
         warnings : {r.warnings}, score : {r.score}, risks : {r.risks},
         valid : {r.valid}, type : {r.type}, prior : {r.prior},
         changed : {r.changed}, at : {r.at}, left : {r.left}, held : {r.held},
         answered : {r.answered}, fromTemplate : {r.fromTemplate},
         status : {r.status}]

(* Validity and risks are those of the fields the extraction has now.      *)
UpToDate(r) ==
  /\ r.valid <=> Issues(r.parsed, r.reading) = {}
  /\ r.risks = Risks(r.parsed)

(* What the parser plausibly read still stands.                            *)
Stands(r) ==
  \A f \in Field : Plausible(f, r.reading.parsed[f]) =>
    r.parsed[f] = r.reading.parsed[f]

(* The fields were vouched for: by a template, by a model, or by what was  *)
(* read.                                                                   *)
VouchedFor(r) ==
  \/ r.fromTemplate
  \/ r.answered = "model"
  \/ r.answered = "candidates" /\ Stands(r)

(* If they were not, a warning says so.                                    *)
Vouched(r) == Verifier => VouchedFor(r) \/ r.warnings # {}

Earned(r) ==
  r.status = "PARSED" =>
    /\ Issues(r.parsed, r.reading) = {}
    /\ Risks(r.parsed) = {}
    /\ Verifier => VouchedFor(r)

(* Before the verification the fields are those read, and an offer for one *)
(* of them that is plausible contains it.                                  *)
Fresh(r) ==
  /\ r.parsed = r.reading.parsed
  /\ \A f \in Offered : r.offers[f] # {} /\ Plausible(f, r.parsed[f]) =>
       r.parsed[f] \in r.offers[f]

(* What makes PassedIsEarned inductive: what an extraction knows of its    *)
(* fields at each stage.                                                   *)
Sound(r) ==
  /\ r.pc \in {"lookup", "verify"} => Fresh(r)
  /\ r.pc \in {"assist", "learn", "cache"} => UpToDate(r) /\ Vouched(r)
  /\ r.pc = "cache" => r.valid \/ r.warnings # {}
  /\ r.pc # "done" => r.status # "PARSED"
  /\ Earned(r)

LEMMA WaitingIsSound ==
  ASSUME NEW d
  PROVE  /\ IsExtraction(Waiting(d)) /\ Waiting(d).doc = d
         /\ Waiting(d).status = None /\ Waiting(d).pc = "idle"
         /\ Sound(Waiting(d))
<1>1. /\ IsExtraction(Waiting(d)) /\ Waiting(d).doc = d
      /\ Waiting(d).status = None /\ Waiting(d).pc = "idle"
  BY DEF IsExtraction, Waiting
<1>2. None # "PARSED"
  BY DEF None
<1> QED
  BY <1>1, <1>2 DEF Sound, Earned

LEMMA WaitingAtIsSound ==
  ASSUME NEW d, NEW pc \in {"done", "crashed"}, NEW st \in {None, "FAILED_OCR"}
  PROVE  LET r == [Waiting(d) EXCEPT !.pc = pc, !.status = st]
         IN IsExtraction(r) /\ r.doc = d /\ Sound(r) /\ r.pc = pc
              /\ r.left = {} /\ DOMAIN r.held = {} /\ r.prior = {}
              /\ r.template = NoTemplate /\ r.type = Other
<1> DEFINE r == [Waiting(d) EXCEPT !.pc = pc, !.status = st]
<1>1. /\ IsExtraction(r) /\ r.doc = d /\ r.pc = pc /\ r.status = st
      /\ r.left = {} /\ r.held = << >> /\ r.prior = {} /\ r.template = NoTemplate
      /\ r.type = Other
  BY DEF IsExtraction, Waiting
<1>2. st # "PARSED"
  BY DEF None
<1>3. DOMAIN << >> = {}
  OBVIOUS
<1> HIDE DEF r
<1>4. Sound(r)
  BY <1>1, <1>2 DEF Sound, Earned
<1> QED
  BY <1>1, <1>3, <1>4 DEF r

(* What assessing fields leaves, and what the end of a path adds.          *)
LEMMA AssessedEffect ==
  ASSUME NEW r, IsExtraction(r), NEW ocr
  PROVE  LET s == Assessed(r, ocr)
         IN /\ IsExtraction(s) /\ UpToDate(s)
            /\ s.doc = r.doc /\ s.pc = r.pc /\ s.template = r.template
            /\ s.prior = r.prior /\ s.left = r.left /\ s.held = r.held
            /\ s.parsed = r.parsed /\ s.reading = r.reading
            /\ s.warnings = r.warnings /\ s.answered = r.answered
            /\ s.fromTemplate = r.fromTemplate /\ s.status = r.status
            /\ s.images = r.images /\ s.offers = r.offers /\ s.type = r.type
BY DEF IsExtraction, Assessed, UpToDate

LEMMA FinishEffect ==
  ASSUME NEW r, IsExtraction(r)
  PROVE  LET s == Finish(r)
         IN /\ IsExtraction(s) /\ s.pc = "cache" /\ s.valid = r.valid
            /\ s.risks = r.risks
            /\ s.warnings = IF r.valid THEN r.warnings
                            ELSE r.warnings \cup Issues(r.parsed, r.reading)
            /\ s.doc = r.doc /\ s.template = r.template
            /\ s.prior = r.prior /\ s.left = r.left /\ s.held = r.held
            /\ s.parsed = r.parsed /\ s.reading = r.reading
            /\ s.answered = r.answered /\ s.type = r.type
            /\ s.fromTemplate = r.fromTemplate /\ s.status = r.status
BY DEF IsExtraction, Finish

LEMMA ShownEffect ==
  ASSUME NEW r, IsExtraction(r)
  PROVE  LET s == Shown(r)
         IN /\ IsExtraction(s) /\ s.prior = {} /\ s.template = NoTemplate
            /\ s.valid = r.valid /\ s.risks = r.risks /\ s.warnings = r.warnings
            /\ s.doc = r.doc /\ s.pc = r.pc /\ s.left = r.left /\ s.held = r.held
            /\ s.parsed = r.parsed /\ s.reading = r.reading
            /\ s.answered = r.answered /\ s.type = r.type
            /\ s.fromTemplate = r.fromTemplate /\ s.status = r.status
BY DEF IsExtraction, Shown

(* A path that ends with fields assessed and vouched for ends soundly.     *)
LEMMA FinishIsSound ==
  ASSUME NEW r, IsExtraction(r), UpToDate(r), Vouched(r), r.status # "PARSED"
  PROVE  Sound(Finish(r))
<1> DEFINE s == Finish(r)
<1>1. /\ s.pc = "cache" /\ s.valid = r.valid /\ s.risks = r.risks
      /\ s.parsed = r.parsed /\ s.reading = r.reading /\ s.status = r.status
      /\ s.answered = r.answered /\ s.fromTemplate = r.fromTemplate
      /\ s.warnings = IF r.valid THEN r.warnings
                      ELSE r.warnings \cup Issues(r.parsed, r.reading)
  BY FinishEffect
<1> HIDE DEF s
<1>2. UpToDate(s)
  BY <1>1 DEF UpToDate
<1>3. r.warnings # {} => s.warnings # {}
  BY <1>1
<1>4. s.valid \/ s.warnings # {}
  BY <1>1 DEF UpToDate
<1>5. Vouched(s)
  BY <1>1, <1>3 DEF Vouched, VouchedFor, Stands
<1> QED
  BY <1>1, <1>2, <1>4, <1>5 DEF Sound, Earned, s

(* An offer for a field that was plausibly read contains what was read.    *)
LEMMA OffersContainRead ==
  ASSUME NEW reading, NEW t, NEW f \in Offered,
         Offers(reading, reading.parsed, t)[f] # {}, Plausible(f, reading.parsed[f])
  PROVE  reading.parsed[f] \in Offers(reading, reading.parsed, t)[f]
<1> DEFINE p == reading.parsed
           fromTemplate(g) == IF g \in {"vendor", "currency"} THEN {t[g]} ELSE {}
           all(g) == {v \in {p[g]} \cup reading.alt[g] \cup fromTemplate(g) :
                        v # None /\ ~(g = "vendor" /\ LooksLikeAddress(v))}
<1>1. Offers(reading, p, t)[f] = IF Cardinality(all(f)) > 1 \/ p[f] = None
                                   THEN all(f) ELSE {}
  BY DEF Offers
<1>2. p[f] \in all(f)
  BY DEF Plausible, LooksLikeAddress, IsWeakVendor, Addresses
<1> QED
  BY <1>1, <1>2

(* So the first candidate is it. *)
LEMMA FirstIsRead ==
  ASSUME NEW r, Fresh(r), NEW t, NEW f \in Field, Plausible(f, r.parsed[f]),
         NEW s \in FirstCandidates(r.reading.parsed, t, r.offers)
  PROVE  s[f] \in {None, r.parsed[f]}
<1> DEFINE p == r.reading.parsed
           first(g) == IF g \notin Offered \/ r.offers[g] = {} THEN {None}
                       ELSE IF p[g] \in r.offers[g] THEN {p[g]}
                       ELSE IF g \in {"vendor", "currency"} /\ t[g] \in r.offers[g]
                         THEN {t[g]}
                       ELSE r.offers[g]
           choices == [number : first("number"), vendor : first("vendor"), date : {None},
                       due : {None}, currency : first("currency"), total : first("total")]
<1>1. PICK choice \in choices : s = [g \in Field |-> choice[g]]
  BY DEF FirstCandidates
<1>2. first(f) \subseteq {None, r.parsed[f]}
  BY DEF Fresh
<1>3. first("date") = {None} /\ first("due") = {None}
  BY DEF Offered
<1> HIDE DEF first
<1>4. /\ choice.number \in first("number") /\ choice.vendor \in first("vendor")
      /\ choice.date \in first("date") /\ choice.due \in first("due")
      /\ choice.currency \in first("currency") /\ choice.total \in first("total")
  BY <1>1, <1>3
<1>5. choice[f] \in first(f)
  BY <1>4 DEF Field
<1> QED
  BY <1>1, <1>2, <1>5

(* A relaxed pass leaves a plausible field alone to which the answer gives *)
(* nothing else.                                                           *)
LEMMA RelaxedLeaves ==
  ASSUME NEW p, NEW offers, NEW selected, NEW i, NEW w, NEW f \in Field,
         Plausible(f, p[f]), selected[f] \in {None, p[f]},
         NEW b, b \in WithModel("relaxed", p, offers, selected, i, w)
  PROVE  b.parsed[f] = p[f]
<1> DEFINE valid == Validated(selected, offers)
           q     == ApplyMode("relaxed", p, valid)
<1>1. b.parsed \in Repaired(q, offers)
  BY DEF WithModel
<1>2. valid[f] \in {None, p[f]}
  BY DEF Validated
<1>3. DOMAIN q = Field /\ q[f] = p[f]
  <2> HIDE DEF valid
  <2> QED
    BY <1>2 DEF ApplyMode, Overwrite
<1> HIDE DEF q
<1>4. \/ b.parsed = q
      \/ \E v : b.parsed = [q EXCEPT !.vendor = v] /\ f # "vendor"
  <2>1. f = "vendor" => q.vendor # None /\ ~Banned(q.vendor)
    BY <1>3 DEF Plausible, Banned, BannedVendors, IsWeakVendor
  <2> QED
    BY <1>1, <2>1 DEF Repaired
<1> QED
  BY <1>3, <1>4

(* An answer is a model's, or the candidates', which leave alone what was  *)
(* plausibly read, or comes with an issue.                                 *)
LEMMA AnswersSay ==
  ASSUME NEW r, Fresh(r), NEW a \in Answers("relaxed", r)
  PROVE  \/ a.answered = "model"
         \/ a.issues # {}
         \/ /\ a.answered = "candidates"
            /\ \A f \in Field : Plausible(f, r.parsed[f]) => a.parsed[f] = r.parsed[f]
<1>1. ASSUME NEW i, NEW b \in WithoutModel("relaxed", r.parsed, r.offers, i)
      PROVE  b.issues # {}
  <2>1. PICK s \in HeuristicSelections("relaxed", r.parsed, r.offers) :
          b = [parsed   |-> ApplyMode("relaxed", r.parsed, s),
               issues   |-> i \cup {"heuristic fallback"}
                              \cup Remarks(ApplyMode("relaxed", r.parsed, s)),
               answered |-> None]
    BY <1>1 DEF WithoutModel
  <2> QED
    BY <2>1
<1>2. ASSUME NEW s, NEW i, NEW w, NEW b \in WithModel("relaxed", r.parsed, r.offers, s, i, w)
      PROVE  b.answered = w
  BY <1>2 DEF WithModel
<1>3. CASE a \in Unserved("relaxed", r.parsed, r.offers)
  <2>1. CASE a = [parsed |-> r.parsed, issues |-> {"request failed"}, answered |-> None]
    BY <2>1
  <2>2. CASE \E i : a \in WithoutModel("relaxed", r.parsed, r.offers, i)
    BY <1>1, <2>2
  <2> QED
    BY <1>3, <2>1, <2>2 DEF Unserved
<1>4. CASE a \in Selected("relaxed", r.parsed, r.offers)
  <2>1. PICK s, i : a \in SelectWithFallback("relaxed", r.parsed, r.offers, s, i, "model")
    BY <1>4 DEF Selected
  <2> QED
    BY <1>1, <1>2, <2>1 DEF SelectWithFallback
<1>5. CASE a \in Guessed("relaxed", r.parsed, r.offers,
                         FirstCandidates(r.reading.parsed, r.template, r.offers))
  <2>1. PICK s \in FirstCandidates(r.reading.parsed, r.template, r.offers) : \E i :
          a \in SelectWithFallback("relaxed", r.parsed, r.offers, s, i, "candidates")
    BY <1>5 DEF Guessed
  <2>2. PICK i : a \in SelectWithFallback("relaxed", r.parsed, r.offers, s, i, "candidates")
    BY <2>1
  <2>3. CASE a \in WithModel("relaxed", r.parsed, r.offers, s, i, "candidates")
    <3>1. a.answered = "candidates"
      BY <1>2, <2>3
    <3>2. ASSUME NEW f \in Field, Plausible(f, r.parsed[f])
          PROVE  a.parsed[f] = r.parsed[f]
      <4>1. s[f] \in {None, r.parsed[f]}
        BY <2>1, <3>2, FirstIsRead
      <4> DEFINE p == r.parsed
                 offers == r.offers
      <4>2. /\ Plausible(f, p[f]) /\ s[f] \in {None, p[f]}
            /\ a \in WithModel("relaxed", p, offers, s, i, "candidates")
        BY <2>3, <3>2, <4>1
      <4> HIDE DEF p, offers
      <4>3. a.parsed[f] = p[f]
        BY <4>2, RelaxedLeaves
      <4> QED
        BY <4>3 DEF p
    <3> QED
      BY <3>1, <3>2
  <2> QED
    BY <1>1, <2>2, <2>3 DEF SelectWithFallback
<1> QED
  BY <1>3, <1>4, <1>5 DEF Answers

-------------------------------------------------------------------------------
(***************************************************************************)
(* The inductive invariant.  Whose documents the extractions are of never  *)
(* changes (DocOf), so it can be asked of every record that names an       *)
(* extraction whether that one was of the same tenant.                     *)
(***************************************************************************)
Docs  == [tenant : Tenant, print : Fingerprint]
DocOf == [k \in Job |-> job[k].doc]

(* Corrections, each made by an extraction of tenant t. *)
Own(of, store, t) ==
  \A f \in Field : store[f] # NoCorrection =>
    store[f].by \in Job /\ of[store[f].by].tenant = t

(* What extraction r has taken or is about to write is its own tenant's.   *)
Remembers(of, r) ==
  /\ r.type \in Type
  /\ \A k \in r.template.by : k \in Job /\ of[k] = r.doc
  /\ \A c \in r.prior : c.by \in Job /\ of[c.by].tenant = r.doc.tenant
  /\ \A g \in r.left : g \in Group /\ g.tenant = r.doc.tenant
  /\ \A g \in DOMAIN r.held :
       g \in Group /\ g.tenant = r.doc.tenant /\ Own(of, r.held[g], g.tenant)

Correct(of, r) ==
  IsExtraction(r) /\ r.doc \in Docs /\ Sound(r) /\ Remembers(of, r)

JobInv == /\ DOMAIN job = Job
          /\ \A j \in Job : Correct(DocOf, job[j])

StoreInv == /\ DOMAIN learned = Group
            /\ \A g \in Group : Own(DocOf, learned[g], g.tenant)

TemplateInv == /\ DOMAIN templates = Docs
               /\ \A d \in Docs : \A k \in templates[d].by :
                    k \in Job /\ DocOf[k] = d

IInv == JobInv /\ StoreInv /\ TemplateInv

LEMMA InitIInv == Init => IInv
<1> SUFFICES ASSUME Init PROVE IInv
  OBVIOUS
<1>1. PICK d \in Documents : job = [j \in Job |-> Waiting(d[j])]
  BY DEF Init
<1>2. \A j \in Job : d[j] \in Docs
  BY ExtractionAssumption DEF Docs
<1>3. ASSUME NEW j \in Job PROVE Correct(DocOf, job[j])
  <2>1. job[j] = Waiting(d[j])
    BY <1>1
  <2>2. /\ job[j].template = NoTemplate /\ job[j].prior = {} /\ job[j].left = {}
        /\ job[j].held = << >> /\ job[j].type \in Type
    BY <2>1, ExtractionAssumption DEF Waiting
  <2>3. NoTemplate.by = {} /\ DOMAIN << >> = {}
    BY DEF NoTemplate
  <2>4. Remembers(DocOf, job[j])
    BY <2>2, <2>3 DEF Remembers
  <2>5. QED
    BY <1>2, <2>1, <2>4, WaitingIsSound DEF Correct
<1>4. JobInv
  <2>1. DOMAIN job = Job
    BY <1>1
  <2>2. QED
    BY <1>3, <2>1 DEF JobInv
<1>5. StoreInv
  <2>1. learned = [g \in Group |-> Nothing]
    BY DEF Init
  <2>2. \A of, t : Own(of, Nothing, t)
    BY DEF Own, Nothing
  <2> QED
    BY <2>1, <2>2 DEF StoreInv
<1>6. TemplateInv
  BY DEF Init, TemplateInv, NoTemplate, Docs
<1> QED
  BY <1>4, <1>5, <1>6 DEF IInv

(* Extraction j becomes rec: the others stay, and so do the documents.     *)
LEMMA JobStep ==
  ASSUME IInv, NEW j \in Job, NEW rec, Become(j, rec), rec.doc = job[j].doc,
         Correct(DocOf, rec)
  PROVE  JobInv' /\ DocOf' = DocOf
<1>1. job'[j] = rec /\ \A k \in Job : k # j => job'[k] = job[k]
  BY DEF Become, IInv, JobInv
<1>2. DocOf' = DocOf
  BY <1>1 DEF DocOf
<1>3. \A k \in Job : Correct(DocOf, job'[k])
  BY <1>1 DEF IInv, JobInv
<1>4. DOMAIN job' = Job
  BY DEF Become, IInv, JobInv
<1>5. \A k \in Job : Correct(DocOf, job[k])'
  BY <1>2, <1>3
<1> QED
  BY <1>2, <1>4, <1>5 DEF JobInv

(* A step that writes neither store.                                       *)
LEMMA QuietStep ==
  ASSUME IInv, NEW j \in Job, NEW rec, Become(j, rec), rec.doc = job[j].doc,
         IsExtraction(rec), Sound(rec), Remembers(DocOf, rec),
         UNCHANGED <<templates, learned>>
  PROVE  IInv'
<1>1. job[j].doc \in Docs
  BY DEF IInv, JobInv, Correct
<1>2. Correct(DocOf, rec)
  BY <1>1 DEF Correct
<1>3. JobInv' /\ DocOf' = DocOf
  BY <1>2, JobStep
<1>4. StoreInv' /\ TemplateInv'
  BY <1>3 DEF IInv, StoreInv, TemplateInv, Own
<1> QED
  BY <1>3, <1>4 DEF IInv

LEMMA SameMemory ==
  ASSUME NEW of, NEW r, NEW s, Remembers(of, r), s.doc = r.doc,
         s.template \in {r.template, NoTemplate}, s.prior \in {r.prior, {}},
         s.left = r.left, s.held = r.held, s.type = r.type
  PROVE  Remembers(of, s)
<1>1. NoTemplate.by = {}
  BY DEF NoTemplate
<1>2. \A k \in s.template.by : k \in r.template.by
  BY <1>1
<1> QED
  BY <1>2 DEF Remembers

(* Before the fields are vouched for they are those read.                  *)
LEMMA EarlyIsSound ==
  ASSUME NEW r, r.pc \in {"ocr", "lookup", "verify"}, r.status # "PARSED",
         r.pc # "ocr" => Fresh(r)
  PROVE  Sound(r)
BY DEF Sound, Earned

(* The groups an extraction asks for and writes are its own tenant's.      *)
LEMMA GroupsAreOwn ==
  ASSUME NEW d \in Docs, NEW t \in Type
  PROVE  /\ VendorGroup(d) \in Group /\ VendorGroup(d).tenant = d.tenant
         /\ TypeGroup(d, t) \in Group /\ TypeGroup(d, t).tenant = d.tenant
BY DEF Docs, Group, VendorGroup, TypeGroup

(* The steps up to the verification. *)
LEMMA ReadingKeeps ==
  ASSUME IInv, NEW j \in Job,
         Start(j) \/ OcrRetry(j) \/ OcrFail(j) \/ OcrAnswer(j)
  PROVE  IInv'
<1> DEFINE r == job[j]
<1>0. IsExtraction(r) /\ Sound(r) /\ Remembers(DocOf, r) /\ r.doc \in Docs
  BY DEF IInv, JobInv, Correct
<1>1. CASE Start(j)
  <2>1. PICK t \in {templates[r.doc], NoTemplate} :
          Become(j, [r EXCEPT !.pc = "ocr", !.template = t])
    BY <1>1 DEF Start
  <2> DEFINE s == [r EXCEPT !.pc = "ocr", !.template = t]
  <2>2. r.pc = "idle" /\ UNCHANGED <<templates, learned>>
    BY <1>1 DEF Start
  <2>3. /\ IsExtraction(s) /\ s.pc = "ocr" /\ s.doc = r.doc /\ s.template = t
        /\ s.prior = r.prior /\ s.left = r.left /\ s.held = r.held
        /\ s.status = r.status /\ s.type = r.type
    BY <1>0 DEF IsExtraction
  <2>4. \A k \in t.by : k \in Job /\ DocOf[k] = r.doc
    BY <1>0, <2>1 DEF IInv, TemplateInv, NoTemplate
  <2> HIDE DEF s
  <2>5. Remembers(DocOf, s)
    BY <1>0, <2>3, <2>4 DEF Remembers
  <2>6. Sound(s)
    BY <1>0, <2>2, <2>3, EarlyIsSound DEF Sound
  <2>7. QED
    BY <2>1, <2>2, <2>3, <2>5, <2>6, QuietStep DEF s
<1>2. CASE OcrRetry(j)
  <2> DEFINE s == [r EXCEPT !.attempts = @ + 1]
  <2>1. Become(j, s) /\ r.pc = "ocr" /\ UNCHANGED <<templates, learned>>
    BY <1>2 DEF OcrRetry
  <2>2. /\ IsExtraction(s) /\ s.pc = r.pc /\ s.doc = r.doc
        /\ s.template = r.template /\ s.prior = r.prior /\ s.left = r.left
        /\ s.held = r.held /\ s.status = r.status /\ s.type = r.type
    BY <1>0 DEF IsExtraction
  <2> HIDE DEF s
  <2>3. Remembers(DocOf, s)
    BY <1>0, <2>2, SameMemory
  <2>4. Sound(s)
    BY <1>0, <2>1, <2>2, EarlyIsSound DEF Sound
  <2>5. QED
    BY <2>1, <2>2, <2>3, <2>4, QuietStep
<1>3. CASE OcrFail(j)
  <2> DEFINE s == [Waiting(r.doc) EXCEPT !.pc = "done", !.status = "FAILED_OCR"]
  <2>1. Become(j, s) /\ UNCHANGED <<templates, learned>>
    BY <1>3 DEF OcrFail
  <2>2. /\ IsExtraction(s) /\ s.doc = r.doc /\ Sound(s) /\ s.left = {}
        /\ DOMAIN s.held = {} /\ s.prior = {} /\ s.template = NoTemplate
        /\ s.type = Other
    BY WaitingAtIsSound
  <2> HIDE DEF s
  <2>3. Remembers(DocOf, s)
    BY <2>2, ExtractionAssumption DEF Remembers, NoTemplate
  <2>4. QED
    BY <2>1, <2>2, <2>3, QuietStep
<1>4. CASE OcrAnswer(j)
  <2>1. PICK c \in OcrConfidence, images \in BOOLEAN,
             texts \in SUBSET Readings[j] \ {{}} : \E best \in Best(texts, c) :
          LET t    == r.template
              base == [r EXCEPT !.attempts = 0, !.ocr = c, !.images = images,
                                !.reading = best, !.parsed = best.parsed,
                                !.warnings = best.warnings]
              byTemplate == Assessed([base EXCEPT !.parsed = ApplyTemplate(t, @)], c)
              read == Assessed([base EXCEPT !.offers = Offers(best, best.parsed, t)], c)
          IN Become(j,
               IF t # NoTemplate /\ byTemplate.valid
                 THEN [byTemplate EXCEPT !.pc = "cache", !.fromTemplate = TRUE]
               ELSE IF Verifier
                 THEN [read EXCEPT !.pc = "lookup",
                         !.left = {TypeGroup(read.doc, read.type), VendorGroup(read.doc)}]
               ELSE Finish(read))
    BY <1>4 DEF OcrAnswer
  <2>2. PICK best \in Best(texts, c) :
          LET t    == r.template
              base == [r EXCEPT !.attempts = 0, !.ocr = c, !.images = images,
                                !.reading = best, !.parsed = best.parsed,
                                !.warnings = best.warnings]
              byTemplate == Assessed([base EXCEPT !.parsed = ApplyTemplate(t, @)], c)
              read == Assessed([base EXCEPT !.offers = Offers(best, best.parsed, t)], c)
          IN Become(j,
               IF t # NoTemplate /\ byTemplate.valid
                 THEN [byTemplate EXCEPT !.pc = "cache", !.fromTemplate = TRUE]
               ELSE IF Verifier
                 THEN [read EXCEPT !.pc = "lookup",
                         !.left = {TypeGroup(read.doc, read.type), VendorGroup(read.doc)}]
               ELSE Finish(read))
    BY <2>1
  <2> DEFINE t    == r.template
             base == [r EXCEPT !.attempts = 0, !.ocr = c, !.images = images,
                               !.reading = best, !.parsed = best.parsed,
                               !.warnings = best.warnings]
             given == [base EXCEPT !.parsed = ApplyTemplate(t, @)]
             asked == [base EXCEPT !.offers = Offers(best, best.parsed, t)]
             byTemplate == Assessed(given, c)
             read == Assessed(asked, c)
             groups == {TypeGroup(read.doc, read.type), VendorGroup(read.doc)}
             Same(s) == /\ IsExtraction(s) /\ s.doc = r.doc
                        /\ s.template = r.template /\ s.prior = r.prior
                        /\ s.left = r.left /\ s.held = r.held
                        /\ s.status = r.status /\ s.type = r.type
  <2>3. \/ byTemplate.valid /\ Become(j, [byTemplate EXCEPT !.pc = "cache",
                                             !.fromTemplate = TRUE])
        \/ Verifier /\ Become(j, [read EXCEPT !.pc = "lookup", !.left = groups])
        \/ ~ Verifier /\ Become(j, Finish(read))
    BY <2>2
  <2>4. r.pc = "ocr" /\ r.status # "PARSED" /\ UNCHANGED <<templates, learned>>
    BY <1>0, <1>4 DEF OcrAnswer, Sound
  <2>5. /\ Same(given) /\ Same(asked)
        /\ asked.reading = best /\ asked.parsed = best.parsed
        /\ asked.offers = Offers(best, best.parsed, t)
    BY <1>0 DEF IsExtraction
  <2> HIDE DEF base, given, asked
  <2>6. /\ Same(byTemplate) /\ Same(read) /\ UpToDate(byTemplate) /\ UpToDate(read)
        /\ read.reading = best /\ read.parsed = best.parsed
        /\ read.offers = Offers(best, best.parsed, t)
    BY <2>5, AssessedEffect
  <2> HIDE DEF byTemplate, read
  <2>7. CASE byTemplate.valid /\ Become(j, [byTemplate EXCEPT !.pc = "cache",
                                              !.fromTemplate = TRUE])
    <3> DEFINE s == [byTemplate EXCEPT !.pc = "cache", !.fromTemplate = TRUE]
    <3>1. /\ Same(s) /\ s.pc = "cache" /\ s.fromTemplate
          /\ s.valid = byTemplate.valid /\ s.risks = byTemplate.risks
          /\ s.parsed = byTemplate.parsed /\ s.reading = byTemplate.reading
      BY <2>6 DEF IsExtraction
    <3> HIDE DEF s
    <3>2. UpToDate(s) /\ Vouched(s)
      BY <2>6, <3>1 DEF UpToDate, Vouched, VouchedFor
    <3>3. Sound(s)
      BY <2>4, <2>7, <3>1, <3>2 DEF Sound, Earned
    <3>4. Remembers(DocOf, s)
      BY <1>0, <3>1, SameMemory
    <3>5. QED
      BY <2>4, <2>7, <3>1, <3>3, <3>4, QuietStep DEF s
  <2>8. CASE Verifier /\ Become(j, [read EXCEPT !.pc = "lookup", !.left = groups])
    <3> DEFINE s == [read EXCEPT !.pc = "lookup", !.left = groups]
    <3>1. /\ IsExtraction(s) /\ s.pc = "lookup" /\ s.doc = r.doc
          /\ s.template = r.template /\ s.prior = r.prior /\ s.held = r.held
          /\ s.status = r.status /\ s.type = r.type
          /\ s.left = {TypeGroup(r.doc, r.type), VendorGroup(r.doc)}
          /\ s.reading = best /\ s.parsed = best.parsed
          /\ s.offers = Offers(best, best.parsed, t)
      BY <2>6 DEF IsExtraction
    <3> HIDE DEF s
    <3>2. Fresh(s)
      BY <3>1, OffersContainRead DEF Fresh
    <3>3. Sound(s)
      BY <2>4, <3>1, <3>2, EarlyIsSound
    <3>4. Remembers(DocOf, s)
      <4>1. r.type \in Type
        BY <1>0 DEF Remembers
      <4> QED
        BY <1>0, <3>1, <4>1, GroupsAreOwn DEF Remembers
    <3>5. QED
      BY <2>4, <2>8, <3>1, <3>3, <3>4, QuietStep DEF s
  <2>9. CASE ~ Verifier /\ Become(j, Finish(read))
    <3>1. Vouched(read)
      BY <2>9 DEF Vouched
    <3>2. Sound(Finish(read))
      BY <2>4, <2>6, <3>1, FinishIsSound
    <3>3. Same(Finish(read))
      BY <2>6, FinishEffect
    <3>4. Remembers(DocOf, Finish(read))
      BY <1>0, <3>3, SameMemory
    <3>5. QED
      BY <2>4, <2>9, <3>2, <3>3, <3>4, QuietStep
  <2>10. QED
    BY <2>3, <2>7, <2>8, <2>9
<1> QED
  BY <1>1, <1>2, <1>3, <1>4

(* A record with the same fields and the same warnings is as sound.        *)
LEMMA SameIsSound ==
  ASSUME NEW r, NEW s, Sound(r), s.pc = r.pc, s.valid = r.valid,
         s.risks = r.risks, s.parsed = r.parsed, s.reading = r.reading,
         s.warnings = r.warnings, s.answered = r.answered,
         s.fromTemplate = r.fromTemplate, s.status = r.status, s.offers = r.offers
  PROVE  Sound(s)
BY DEF Sound, Earned, UpToDate, Vouched, VouchedFor, Stands, Fresh

LEMMA LookupKeeps ==
  ASSUME IInv, NEW j \in Job, NEW g \in Group, Lookup(j, g)
  PROVE  IInv'
<1> DEFINE r == job[j]
           pc == IF r.left = {g} THEN "verify" ELSE "lookup"
           s == [r EXCEPT !.pc = pc, !.left = @ \ {g}, !.prior = Prior(@, g)]
           e == [r EXCEPT !.pc = "verify", !.left = {}, !.prior = {}]
           From(c) == c.by \in Job /\ DocOf[c.by].tenant = r.doc.tenant
<1>0. IsExtraction(r) /\ Sound(r) /\ Remembers(DocOf, r) /\ r.doc \in Docs
  BY DEF IInv, JobInv, Correct
<1>1. /\ r.pc = "lookup" /\ g \in r.left /\ UNCHANGED <<templates, learned>>
      /\ Become(j, s) \/ Become(j, e)
  BY DEF Lookup
<1>2. Fresh(r) /\ r.status # "PARSED"
  BY <1>0, <1>1 DEF Sound
<1>3. ASSUME NEW c \in Prior(r.prior, g) PROVE From(c)
  <2> DEFINE ofGroup == {[field |-> f, by |-> learned[g][f].by] : f \in Known(learned[g])}
  <2>1. c \in ofGroup \/ c \in r.prior
    BY <1>3 DEF Prior
  <2>2. CASE c \in ofGroup
    <3>1. PICK f \in Known(learned[g]) : c = [field |-> f, by |-> learned[g][f].by]
      BY <2>2
    <3>2. c.by = learned[g][f].by
      BY <3>1
    <3>3. Own(DocOf, learned[g], g.tenant) /\ g.tenant = r.doc.tenant
      BY <1>0, <1>1 DEF IInv, StoreInv, Remembers
    <3> QED
      BY <3>1, <3>2, <3>3 DEF Own, Known
  <2> QED
    BY <1>0, <2>1, <2>2 DEF Remembers
<1>4. /\ IsExtraction(s) /\ s.pc \in {"lookup", "verify"} /\ s.doc = r.doc
      /\ s.template = r.template /\ s.prior = Prior(r.prior, g) /\ s.left \subseteq r.left
      /\ s.held = r.held /\ s.status = r.status /\ s.type = r.type
      /\ s.parsed = r.parsed /\ s.reading = r.reading /\ s.offers = r.offers
  BY <1>0 DEF IsExtraction
<1>5. /\ IsExtraction(e) /\ e.pc \in {"lookup", "verify"} /\ e.doc = r.doc
      /\ e.template = r.template /\ e.prior = {} /\ e.left = {}
      /\ e.held = r.held /\ e.status = r.status /\ e.type = r.type
      /\ e.parsed = r.parsed /\ e.reading = r.reading /\ e.offers = r.offers
  BY <1>0 DEF IsExtraction
<1> HIDE DEF s, e
<1>6. Fresh(s) /\ Fresh(e)
  BY <1>2, <1>4, <1>5 DEF Fresh
<1>7. Sound(s) /\ Sound(e)
  BY <1>2, <1>4, <1>5, <1>6, EarlyIsSound
<1>8. Remembers(DocOf, s)
  BY <1>0, <1>3, <1>4 DEF Remembers
<1>9. Remembers(DocOf, e)
  BY <1>0, <1>5 DEF Remembers
<1> QED
  BY <1>1, <1>4, <1>5, <1>7, <1>8, <1>9, QuietStep

LEMMA VerifyKeeps ==
  ASSUME IInv, NEW j \in Job, Verify(j)
  PROVE  IInv'
<1> DEFINE r == job[j]
<1>0. IsExtraction(r) /\ Sound(r) /\ Remembers(DocOf, r) /\ r.doc \in Docs
  BY DEF IInv, JobInv, Correct
<1>1. r.pc = "verify" /\ UNCHANGED <<templates, learned>>
  BY DEF Verify
<1>2. PICK a \in Answers("relaxed", r) : \E t \in Type :
        LET n == Assessed([r EXCEPT !.parsed = MergeParsed("relaxed", @, a.parsed),
                                    !.warnings = @ \cup a.issues,
                                    !.type = t, !.answered = a.answered], r.ocr)
        IN Become(j, IF n.score < AssistThreshold /\ n.images
                       THEN [n EXCEPT !.pc = "assist"] ELSE Finish(Shown(n)))
  BY DEF Verify
<1>3. PICK t \in Type :
        LET n == Assessed([r EXCEPT !.parsed = MergeParsed("relaxed", @, a.parsed),
                                    !.warnings = @ \cup a.issues,
                                    !.type = t, !.answered = a.answered], r.ocr)
        IN Become(j, IF n.score < AssistThreshold /\ n.images
                       THEN [n EXCEPT !.pc = "assist"] ELSE Finish(Shown(n)))
  BY <1>2
<1> DEFINE asked == [r EXCEPT !.parsed = MergeParsed("relaxed", @, a.parsed),
                              !.warnings = @ \cup a.issues,
                              !.type = t, !.answered = a.answered]
           n == Assessed(asked, r.ocr)
           Same(s) == /\ IsExtraction(s) /\ s.doc = r.doc
                      /\ s.template \in {r.template, NoTemplate}
                      /\ s.prior \in {r.prior, {}} /\ s.left = r.left
                      /\ s.held = r.held /\ s.status = r.status /\ s.type = t
<1>4. \/ Become(j, [n EXCEPT !.pc = "assist"])
      \/ Become(j, Finish(Shown(n)))
  BY <1>3
<1>5. /\ Same(asked) /\ asked.answered = a.answered
      /\ asked.warnings = r.warnings \cup a.issues
      /\ asked.parsed = MergeParsed("relaxed", r.parsed, a.parsed)
      /\ asked.reading = r.reading
  BY <1>0 DEF IsExtraction
<1> HIDE DEF asked
<1>6. /\ Same(n) /\ UpToDate(n) /\ n.answered = a.answered
      /\ n.warnings = r.warnings \cup a.issues
      /\ n.parsed = MergeParsed("relaxed", r.parsed, a.parsed)
      /\ n.reading = r.reading
  BY <1>5, AssessedEffect
<1> HIDE DEF n
<1>7. Vouched(n)
  <2>1. Fresh(r)
    BY <1>0, <1>1 DEF Sound
  <2>2. \/ a.answered = "model"
        \/ a.issues # {}
        \/ /\ a.answered = "candidates"
           /\ \A f \in Field : Plausible(f, r.parsed[f]) => a.parsed[f] = r.parsed[f]
    BY <1>2, <2>1, AnswersSay
  <2>3. ASSUME \A f \in Field : Plausible(f, r.parsed[f]) => a.parsed[f] = r.parsed[f]
        PROVE  Stands(n)
    BY <1>6, <2>1, <2>3 DEF Stands, Fresh, MergeParsed, Overwrite
  <2> QED
    BY <1>6, <2>2, <2>3 DEF Vouched, VouchedFor
<1>8. r.status # "PARSED"
  BY <1>0, <1>1 DEF Sound
<1>9. ASSUME NEW s, Same(s) PROVE Remembers(DocOf, s)
  <2>1. \A k \in s.template.by : k \in r.template.by
    BY <1>9 DEF NoTemplate
  <2> QED
    BY <1>0, <1>3, <1>9, <2>1 DEF Remembers
<1>10. CASE Become(j, [n EXCEPT !.pc = "assist"])
  <2> DEFINE s == [n EXCEPT !.pc = "assist"]
  <2>1. /\ Same(s) /\ s.pc = "assist" /\ s.valid = n.valid /\ s.risks = n.risks
        /\ s.parsed = n.parsed /\ s.reading = n.reading
        /\ s.answered = n.answered /\ s.fromTemplate = n.fromTemplate
        /\ s.warnings = n.warnings
    BY <1>6 DEF IsExtraction
  <2> HIDE DEF s
  <2>2. UpToDate(s) /\ Vouched(s)
    BY <1>6, <1>7, <2>1 DEF UpToDate, Vouched, VouchedFor, Stands
  <2>3. Sound(s)
    BY <1>8, <2>1, <2>2 DEF Sound, Earned
  <2>4. Remembers(DocOf, s)
    BY <1>9, <2>1
  <2>5. QED
    BY <1>1, <1>10, <2>1, <2>3, <2>4, QuietStep DEF s
<1>11. CASE Become(j, Finish(Shown(n)))
  <2> DEFINE s == Shown(n)
  <2>1. /\ Same(s) /\ s.valid = n.valid /\ s.risks = n.risks
        /\ s.parsed = n.parsed /\ s.reading = n.reading
        /\ s.answered = n.answered /\ s.fromTemplate = n.fromTemplate
        /\ s.warnings = n.warnings
    BY <1>6, ShownEffect
  <2> HIDE DEF s
  <2>2. UpToDate(s) /\ Vouched(s)
    BY <1>6, <1>7, <2>1 DEF UpToDate, Vouched, VouchedFor, Stands
  <2>3. Sound(Finish(s))
    BY <1>8, <2>1, <2>2, FinishIsSound
  <2>4. Same(Finish(s))
    BY <2>1, FinishEffect
  <2>5. Remembers(DocOf, Finish(s))
    BY <1>9, <2>4
  <2>6. QED
    BY <1>1, <1>11, <2>3, <2>4, <2>5, QuietStep DEF s
<1> QED
  BY <1>4, <1>10, <1>11

(* A strict pass leaves a plausible field alone, whatever the answer.      *)
LEMMA StrictLeaves ==
  ASSUME NEW p, NEW answer, NEW f \in Field, Plausible(f, p[f])
  PROVE  MergeParsed("strict", p, answer)[f] = p[f]
<1>1. p[f] # None /\ ~(f = "vendor" /\ p[f] \in Addresses)
  BY DEF Plausible, IsWeakVendor, Addresses
<1>2. ~(f = "total" /\ Minor[p[f]] = 0)
  BY DEF Plausible
<1> QED
  BY <1>1, <1>2 DEF MergeParsed, Fill

LEMMA AssistKeeps ==
  ASSUME IInv, NEW j \in Job, Assist(j)
  PROVE  IInv'
<1> DEFINE r == job[j]
<1>0. IsExtraction(r) /\ Sound(r) /\ Remembers(DocOf, r) /\ r.doc \in Docs
  BY DEF IInv, JobInv, Correct
<1>1. r.pc = "assist" /\ UNCHANGED <<templates, learned>>
  BY DEF Assist
<1>2. UpToDate(r) /\ Vouched(r) /\ r.status # "PARSED"
  BY <1>0, <1>1 DEF Sound
<1>3. PICK a \in Answers("strict", r) :
        LET merged  == MergeParsed("strict", r.parsed, a.parsed)
            changed == {f \in Field : merged[f] # r.parsed[f]}
            n       == Assessed([r EXCEPT !.parsed = merged], Maximum(r.ocr, 88))
        IN \/ Become(j, Finish(Shown(r)))
           \/ Become(j, [Shown(n) EXCEPT !.pc = "learn", !.changed = changed,
                           !.at = clock + 1,
                           !.left = {TypeGroup(n.doc, n.type), VendorGroup(n.doc)}])
  BY DEF Assist
<1> DEFINE merged  == MergeParsed("strict", r.parsed, a.parsed)
           changed == {f \in Field : merged[f] # r.parsed[f]}
           asked   == [r EXCEPT !.parsed = merged]
           n       == Assessed(asked, Maximum(r.ocr, 88))
           s       == [Shown(n) EXCEPT !.pc = "learn", !.changed = changed,
                         !.at = clock + 1,
                         !.left = {TypeGroup(n.doc, n.type), VendorGroup(n.doc)}]
<1>4. Become(j, Finish(Shown(r))) \/ Become(j, s)
  BY <1>3
<1>5. CASE Become(j, Finish(Shown(r)))
  <2> DEFINE q == Shown(r)
  <2>1. /\ IsExtraction(q) /\ q.doc = r.doc /\ q.template = NoTemplate
        /\ q.prior = {} /\ q.left = r.left /\ q.held = r.held
        /\ q.status = r.status /\ q.type = r.type
        /\ q.valid = r.valid /\ q.risks = r.risks
        /\ q.parsed = r.parsed /\ q.reading = r.reading
        /\ q.answered = r.answered /\ q.fromTemplate = r.fromTemplate
        /\ q.warnings = r.warnings
    BY <1>0, ShownEffect
  <2> HIDE DEF q
  <2>2. UpToDate(q) /\ Vouched(q)
    BY <1>2, <2>1 DEF UpToDate, Vouched, VouchedFor, Stands
  <2>3. Sound(Finish(q))
    BY <1>2, <2>1, <2>2, FinishIsSound
  <2> DEFINE e == Finish(q)
  <2>4. /\ IsExtraction(e) /\ e.doc = r.doc /\ e.template = NoTemplate
        /\ e.prior = {} /\ e.left = r.left /\ e.held = r.held
        /\ e.type = r.type
    BY <2>1, FinishEffect
  <2> HIDE DEF e
  <2>5. Remembers(DocOf, e)
    BY <1>0, <2>4, SameMemory
  <2>6. QED
    BY <1>1, <1>5, <2>3, <2>4, <2>5, QuietStep DEF q, e
<1>6. CASE Become(j, s)
  <2>1. /\ IsExtraction(asked) /\ asked.doc = r.doc /\ asked.held = r.held
        /\ asked.status = r.status /\ asked.type = r.type
        /\ asked.answered = r.answered /\ asked.fromTemplate = r.fromTemplate
        /\ asked.warnings = r.warnings
        /\ asked.parsed = merged /\ asked.reading = r.reading
    BY <1>0 DEF IsExtraction
  <2> HIDE DEF asked
  <2>2. /\ IsExtraction(n) /\ UpToDate(n) /\ n.doc = r.doc /\ n.held = r.held
        /\ n.status = r.status /\ n.type = r.type
        /\ n.answered = r.answered /\ n.fromTemplate = r.fromTemplate
        /\ n.warnings = r.warnings
        /\ n.parsed = merged /\ n.reading = r.reading
    BY <2>1, AssessedEffect
  <2> HIDE DEF n
  <2> DEFINE q == Shown(n)
  <2>3. /\ IsExtraction(q) /\ q.doc = r.doc /\ q.held = r.held
        /\ q.template = NoTemplate /\ q.prior = {} /\ q.type = r.type
        /\ q.status = r.status
        /\ q.answered = r.answered /\ q.fromTemplate = r.fromTemplate
        /\ q.warnings = r.warnings /\ q.valid = n.valid /\ q.risks = n.risks
        /\ q.parsed = n.parsed /\ q.reading = n.reading
    BY <2>2, ShownEffect
  <2> HIDE DEF q
  <2> DEFINE u == [q EXCEPT !.pc = "learn", !.changed = changed, !.at = clock + 1,
                     !.left = {TypeGroup(n.doc, n.type), VendorGroup(n.doc)}]
  <2> HIDE DEF changed
  <2>4. /\ IsExtraction(u) /\ u.pc = "learn" /\ u.doc = r.doc /\ u.held = r.held
        /\ u.template = NoTemplate /\ u.prior = {} /\ u.type = r.type
        /\ u.status = r.status
        /\ u.answered = r.answered /\ u.fromTemplate = r.fromTemplate
        /\ u.warnings = r.warnings /\ u.valid = n.valid /\ u.risks = n.risks
        /\ u.parsed = n.parsed /\ u.reading = n.reading
        /\ u.left = {TypeGroup(r.doc, r.type), VendorGroup(r.doc)}
    BY <2>2, <2>3 DEF IsExtraction
  <2>5. s = u
    BY DEF q
  <2> HIDE DEF u, s
  <2>6. UpToDate(u) /\ Vouched(u)
    <3>1. UpToDate(u)
      BY <2>2, <2>4 DEF UpToDate
    <3>2. Stands(r) => Stands(u)
      <4>1. \A f \in Field : Plausible(f, r.parsed[f]) => merged[f] = r.parsed[f]
        BY StrictLeaves
      <4> HIDE DEF merged
      <4> QED
        BY <2>2, <2>4, <4>1 DEF Stands
    <3>3. Vouched(u)
      BY <1>2, <2>4, <3>2 DEF Vouched, VouchedFor
    <3> QED
      BY <3>1, <3>3
  <2>7. Sound(u)
    BY <1>2, <2>4, <2>6 DEF Sound, Earned
  <2>8. Remembers(DocOf, u)
    <3>1. r.type \in Type /\ NoTemplate.by = {}
      BY <1>0 DEF Remembers, NoTemplate
    <3> QED
      BY <1>0, <2>4, <3>1, GroupsAreOwn DEF Remembers
  <2>9. QED
    BY <1>1, <1>6, <2>4, <2>5, <2>7, <2>8, QuietStep
<1> QED
  BY <1>4, <1>5, <1>6

-------------------------------------------------------------------------------
LEMMA DropEffect ==
  ASSUME NEW r, IsExtraction(r), NEW g
  PROVE  LET s == Drop(r, g)
         IN /\ IsExtraction(s) /\ s.pc = r.pc /\ s.doc = r.doc
            /\ s.template = r.template /\ s.prior = r.prior /\ s.left = r.left
            /\ s.type = r.type /\ s.valid = r.valid /\ s.risks = r.risks
            /\ s.parsed = r.parsed /\ s.reading = r.reading
            /\ s.warnings = r.warnings /\ s.answered = r.answered
            /\ s.fromTemplate = r.fromTemplate /\ s.status = r.status
            /\ s.offers = r.offers
            /\ s.held = [h \in DOMAIN r.held \ {g} |-> r.held[h]]
BY DEF IsExtraction, Drop

(* A group that gains a tenant's corrections remains the tenant's.         *)
LEMMA UpsertsOwn ==
  ASSUME NEW of, NEW store, NEW fields, NEW at, NEW j \in Job, NEW t,
         of[j].tenant = t, Own(of, store, t),
         NEW new \in Upserts(store, fields, at, j)
  PROVE  Own(of, new, t)
<1> DEFINE entry(f) == [count |-> store[f].count + 1,
                        seen |-> Maximum(at, store[f].seen), by |-> j]
           all == [f \in Field |-> IF f \in fields THEN entry(f) ELSE store[f]]
<1>1. PICK K \in SUBSET Known(all) :
        new = [f \in Field |-> IF f \in K THEN all[f] ELSE NoCorrection]
  BY DEF Upserts
<1>2. \A f \in Field : entry(f).by = j
  OBVIOUS
<1> HIDE DEF entry
<1>3. ASSUME NEW f \in Field, new[f] # NoCorrection
      PROVE  new[f].by \in Job /\ of[new[f].by].tenant = t
  <2>1. new[f] = entry(f) \/ new[f] = store[f]
    BY <1>1, <1>3
  <2> QED
    BY <1>2, <1>3, <2>1 DEF Own
<1> QED
  BY <1>3 DEF Own

LEMMA LearnKeeps ==
  ASSUME IInv, NEW j \in Job, NEW g \in Group,
         LearnRead(j, g) \/ LearnWrite(j, g) \/ LearnFail(j, g)
  PROVE  IInv'
<1> DEFINE r == job[j]
<1>0. IsExtraction(r) /\ Sound(r) /\ Remembers(DocOf, r) /\ r.doc \in Docs
  BY DEF IInv, JobInv, Correct
<1>1. CASE LearnRead(j, g)
  <2> DEFINE s == [r EXCEPT !.left = @ \ {g},
                            !.held = [h \in DOMAIN @ \cup {g} |->
                                        IF h = g THEN learned[g] ELSE @[h]]]
  <2>1. Become(j, s) /\ g \in r.left /\ UNCHANGED <<templates, learned>>
    BY <1>1 DEF LearnRead
  <2>2. /\ IsExtraction(s) /\ s.pc = r.pc /\ s.doc = r.doc
        /\ s.template = r.template /\ s.prior = r.prior /\ s.left = r.left \ {g}
        /\ s.type = r.type /\ s.valid = r.valid /\ s.risks = r.risks
        /\ s.parsed = r.parsed /\ s.reading = r.reading
        /\ s.warnings = r.warnings /\ s.answered = r.answered
        /\ s.fromTemplate = r.fromTemplate /\ s.status = r.status
        /\ s.offers = r.offers
        /\ s.held = [h \in DOMAIN r.held \cup {g} |->
                       IF h = g THEN learned[g] ELSE r.held[h]]
    BY <1>0 DEF IsExtraction
  <2> HIDE DEF s
  <2>3. Own(DocOf, learned[g], g.tenant) /\ g.tenant = r.doc.tenant
    BY <1>0, <2>1 DEF IInv, StoreInv, Remembers
  <2>4. \A h \in DOMAIN s.held :
          h \in Group /\ h.tenant = r.doc.tenant /\ Own(DocOf, s.held[h], h.tenant)
    BY <1>0, <2>2, <2>3 DEF Remembers
  <2>5. Remembers(DocOf, s)
    <3>1. /\ s.type = r.type /\ s.doc = r.doc /\ s.template = r.template
          /\ s.prior = r.prior /\ s.left \subseteq r.left
      BY <2>2
    <3> QED
      BY <1>0, <2>4, <3>1 DEF Remembers
  <2>6. Sound(s)
    BY <1>0, <2>2, SameIsSound
  <2>7. QED
    BY <2>1, <2>2, <2>5, <2>6, QuietStep
<1> DEFINE d == Drop(r, g)
<1>2. /\ IsExtraction(d) /\ d.pc = r.pc /\ d.doc = r.doc
      /\ d.template = r.template /\ d.prior = r.prior /\ d.left = r.left
      /\ d.type = r.type /\ d.valid = r.valid /\ d.risks = r.risks
      /\ d.parsed = r.parsed /\ d.reading = r.reading
      /\ d.warnings = r.warnings /\ d.answered = r.answered
      /\ d.fromTemplate = r.fromTemplate /\ d.status = r.status
      /\ d.offers = r.offers
      /\ d.held = [h \in DOMAIN r.held \ {g} |-> r.held[h]]
  BY <1>0, DropEffect
<1> HIDE DEF d
<1>3. Sound(d)
  BY <1>0, <1>2, SameIsSound
<1>4. \A h \in DOMAIN d.held :
        h \in Group /\ h.tenant = r.doc.tenant /\ Own(DocOf, d.held[h], h.tenant)
  BY <1>0, <1>2 DEF Remembers
<1>5. CASE LearnFail(j, g)
  <2> DEFINE s == [d EXCEPT !.left = @ \ {g}]
  <2>1. Become(j, s) /\ UNCHANGED <<templates, learned>>
    BY <1>5 DEF LearnFail, d
  <2>2. /\ IsExtraction(s) /\ s.pc = r.pc /\ s.doc = r.doc
        /\ s.template = r.template /\ s.prior = r.prior /\ s.left = r.left \ {g}
        /\ s.type = r.type /\ s.valid = r.valid /\ s.risks = r.risks
        /\ s.parsed = r.parsed /\ s.reading = r.reading
        /\ s.warnings = r.warnings /\ s.answered = r.answered
        /\ s.fromTemplate = r.fromTemplate /\ s.status = r.status
        /\ s.offers = r.offers
        /\ s.held = d.held
    BY <1>2 DEF IsExtraction
  <2> HIDE DEF s
  <2>3. Sound(s)
    BY <1>0, <2>2, SameIsSound
  <2>4. Remembers(DocOf, s)
    BY <1>0, <1>4, <2>2 DEF Remembers
  <2>5. QED
    BY <2>1, <2>2, <2>3, <2>4, QuietStep
<1>6. CASE LearnWrite(j, g)
  <2>1. /\ g \in DOMAIN r.held /\ Become(j, d) /\ UNCHANGED templates
        /\ \E store \in Upserts(r.held[g], r.changed, r.at, j) :
             learned' = [learned EXCEPT ![g] = store]
    BY <1>6 DEF LearnWrite, d
  <2>2. PICK store \in Upserts(r.held[g], r.changed, r.at, j) :
          learned' = [learned EXCEPT ![g] = store]
    BY <2>1
  <2>3. DocOf[j].tenant = g.tenant /\ Own(DocOf, r.held[g], g.tenant)
    BY <1>0, <2>1 DEF Remembers, DocOf
  <2>4. Own(DocOf, store, g.tenant)
    BY <2>2, <2>3, UpsertsOwn
  <2>5. Remembers(DocOf, d)
    BY <1>0, <1>2, <1>4 DEF Remembers
  <2>6. Correct(DocOf, d)
    BY <1>0, <1>2, <1>3, <2>5 DEF Correct
  <2>7. JobInv' /\ DocOf' = DocOf
    BY <1>2, <2>1, <2>6, JobStep
  <2>8. TemplateInv'
    BY <2>1, <2>7 DEF IInv, TemplateInv
  <2>9. DOMAIN learned' = Group
    BY <2>2 DEF IInv, StoreInv
  <2>10. \A h \in Group : Own(DocOf, learned'[h], h.tenant)
    BY <2>2, <2>4 DEF IInv, StoreInv
  <2>11. StoreInv'
    BY <2>7, <2>9, <2>10 DEF StoreInv
  <2>12. QED
    BY <2>7, <2>8, <2>11 DEF IInv
<1> QED
  BY <1>1, <1>5, <1>6

LEMMA LearnDoneKeeps ==
  ASSUME IInv, NEW j \in Job, LearnDone(j)
  PROVE  IInv'
<1> DEFINE r == job[j]
           s == [r EXCEPT !.changed = {}, !.at = 0]
           e == Finish(s)
<1>0. IsExtraction(r) /\ Sound(r) /\ Remembers(DocOf, r) /\ r.doc \in Docs
  BY DEF IInv, JobInv, Correct
<1>1. r.pc = "learn" /\ Become(j, e) /\ UNCHANGED <<templates, learned>>
  BY DEF LearnDone
<1>2. /\ IsExtraction(s) /\ s.pc = r.pc /\ s.doc = r.doc
      /\ s.template = r.template /\ s.prior = r.prior /\ s.left = r.left
      /\ s.type = r.type /\ s.valid = r.valid /\ s.risks = r.risks
      /\ s.parsed = r.parsed /\ s.reading = r.reading /\ s.held = r.held
      /\ s.warnings = r.warnings /\ s.answered = r.answered
      /\ s.fromTemplate = r.fromTemplate /\ s.status = r.status
      /\ s.offers = r.offers
  BY <1>0 DEF IsExtraction
<1> HIDE DEF s
<1>3. Sound(s)
  BY <1>0, <1>2, SameIsSound
<1>4. UpToDate(s) /\ Vouched(s) /\ s.status # "PARSED"
  BY <1>1, <1>2, <1>3 DEF Sound
<1>5. Sound(e)
  BY <1>2, <1>4, FinishIsSound
<1>6. /\ IsExtraction(e) /\ e.doc = r.doc /\ e.template = r.template
      /\ e.prior = r.prior /\ e.left = r.left /\ e.held = r.held
      /\ e.type = r.type
  BY <1>2, FinishEffect
<1> HIDE DEF e
<1>7. Remembers(DocOf, e)
  BY <1>0, <1>6, SameMemory
<1> QED
  BY <1>1, <1>5, <1>6, <1>7, QuietStep

LEMMA CacheKeeps ==
  ASSUME IInv, NEW j \in Job, Cache(j)
  PROVE  IInv'
<1> DEFINE r == job[j]
           st == IF r.warnings = {} /\ r.risks = {} THEN "PARSED"
                                                    ELSE "NEEDS_REVIEW"
           s == [Waiting(r.doc) EXCEPT !.pc = "done", !.parsed = r.parsed,
                   !.reading = r.reading, !.answered = r.answered,
                   !.fromTemplate = r.fromTemplate, !.status = st]
<1>0. IsExtraction(r) /\ Sound(r) /\ Remembers(DocOf, r) /\ r.doc \in Docs
  BY DEF IInv, JobInv, Correct
<1>1. /\ r.pc = "cache" /\ UNCHANGED learned
      /\ \/ templates' = [templates EXCEPT ![r.doc] =
                            Stored(@, TemplateOf(r.parsed), j)]
         \/ UNCHANGED templates
      /\ Become(j, s)
  BY DEF Cache
<1>2. /\ UpToDate(r) /\ Vouched(r) /\ (r.valid \/ r.warnings # {})
  BY <1>0, <1>1 DEF Sound
<1>3. st \in {"PARSED", "NEEDS_REVIEW"}
      /\ (st = "PARSED" => r.warnings = {} /\ r.risks = {})
  OBVIOUS
<1> HIDE DEF st
<1>4. /\ IsExtraction(s) /\ s.doc = r.doc /\ s.pc = "done" /\ s.status = st
      /\ s.parsed = r.parsed /\ s.reading = r.reading
      /\ s.answered = r.answered /\ s.fromTemplate = r.fromTemplate
      /\ s.left = {} /\ s.held = << >> /\ s.prior = {}
      /\ s.template = NoTemplate /\ s.type = Other
  BY DEF IsExtraction, Waiting
<1> HIDE DEF s
<1>5. Sound(s)
  BY <1>2, <1>3, <1>4 DEF Sound, Earned, UpToDate, Vouched, VouchedFor, Stands
<1>6. Remembers(DocOf, s)
  <2>1. NoTemplate.by = {} /\ DOMAIN << >> = {}
    BY DEF NoTemplate
  <2> QED
    BY <1>4, <2>1, ExtractionAssumption DEF Remembers
<1>7. Correct(DocOf, s)
  BY <1>0, <1>4, <1>5, <1>6 DEF Correct
<1>8. JobInv' /\ DocOf' = DocOf
  BY <1>1, <1>4, <1>7, JobStep
<1>9. StoreInv'
  BY <1>1, <1>8 DEF IInv, StoreInv
<1>10. TemplateInv'
  <2>1. DOMAIN templates' = Docs
    BY <1>1 DEF IInv, TemplateInv
  <2>2. ASSUME NEW d \in Docs, NEW k \in templates'[d].by
        PROVE  k \in Job /\ DocOf[k] = d
    <3>1. templates'[d] = templates[d]
            \/ (d = r.doc /\ templates'[d] = Stored(templates[d], TemplateOf(r.parsed), j))
      BY <1>1 DEF IInv, TemplateInv
    <3>2. CASE templates'[d] = templates[d]
      BY <2>2, <3>2 DEF IInv, TemplateInv
    <3>3. CASE d = r.doc /\ templates'[d] = Stored(templates[d], TemplateOf(r.parsed), j)
      <4>1. k \in templates[d].by \/ k = j
        BY <2>2, <3>3 DEF Stored
      <4>2. DocOf[j] = r.doc
        BY DEF DocOf
      <4> QED
        BY <3>3, <4>1, <4>2 DEF IInv, TemplateInv
    <3> QED
      BY <3>1, <3>2, <3>3
  <2> QED
    BY <1>8, <2>1, <2>2 DEF TemplateInv
<1> QED
  BY <1>8, <1>9, <1>10 DEF IInv

LEMMA CrashKeeps ==
  ASSUME IInv, NEW j \in Job, Crash(j)
  PROVE  IInv'
<1> DEFINE d == job[j].doc
           s == [Waiting(d) EXCEPT !.pc = "crashed"]
<1>1. Become(j, s) /\ UNCHANGED <<templates, learned>>
  BY DEF Crash
<1>2. /\ IsExtraction(s) /\ s.doc = d /\ s.pc = "crashed" /\ s.status = None
      /\ s.left = {} /\ s.held = << >> /\ s.prior = {}
      /\ s.template = NoTemplate /\ s.type = Other
  BY DEF IsExtraction, Waiting
<1> HIDE DEF s
<1>3. Sound(s)
  BY <1>2 DEF Sound, Earned, None
<1>4. Remembers(DocOf, s)
  <2>1. NoTemplate.by = {} /\ DOMAIN << >> = {}
    BY DEF NoTemplate
  <2> QED
    BY <1>2, <2>1, ExtractionAssumption DEF Remembers
<1> QED
  BY <1>1, <1>2, <1>3, <1>4, QuietStep

LEMMA StutterKeeps == IInv /\ UNCHANGED vars => IInv'
BY DEF IInv, JobInv, StoreInv, TemplateInv, DocOf, vars

-------------------------------------------------------------------------------
LEMMA Inductive == Spec => []IInv
<1>1. Init => IInv
  BY InitIInv
<1>2. IInv /\ [Next]_vars => IInv'
  <2>1. ASSUME IInv, NEW j \in Job, Step(j) \/ Crash(j)
        PROVE  IInv'
    <3>1. CASE Start(j) \/ OcrRetry(j) \/ OcrFail(j) \/ OcrAnswer(j)
      BY <2>1, <3>1, ReadingKeeps
    <3>2. CASE \E g \in Group : \/ Lookup(j, g) \/ LearnRead(j, g) \/ LearnWrite(j, g)
                               \/ LearnFail(j, g)
      BY <2>1, <3>2, LookupKeeps, LearnKeeps
    <3> QED
      BY <2>1, <3>1, <3>2, VerifyKeeps, AssistKeeps,
         LearnDoneKeeps, CacheKeeps, CrashKeeps DEF Step
  <2> QED
    BY <2>1, StutterKeeps DEF Next
<1> QED
  BY <1>1, <1>2, PTL DEF Spec

(* What an extraction takes from templates and corrections was learned     *)
(* from documents of its own tenant (MemoryIsOwn).                         *)
THEOREM MemoryOwn == Spec => []MemoryIsOwn
<1>1. IInv => MemoryIsOwn
  <2> SUFFICES ASSUME IInv, NEW j \in Job
               PROVE  /\ \A k \in job[j].template.by : job[k].doc = job[j].doc
                      /\ \A c \in job[j].prior :
                           job[c.by].doc.tenant = job[j].doc.tenant
    BY DEF MemoryIsOwn
  <2>1. Remembers(DocOf, job[j])
    BY DEF IInv, JobInv, Correct
  <2>2. \A k \in Job : DocOf[k] = job[k].doc
    BY DEF DocOf
  <2> QED
    BY <2>1, <2>2 DEF Remembers
<1> QED
  BY <1>1, Inductive, PTL

(* What passes the reviewer's list of doubts is valid, bears no risk and   *)
(* was vouched for by a template or a model, or stands as it was read      *)
(* where the service took the candidates for an answer (PassedIsEarned).   *)
THEOREM PassedEarned == Spec => []PassedIsEarned
<1>1. IInv => PassedIsEarned
  BY DEF IInv, JobInv, Correct, Sound, Earned, VouchedFor, Stands, PassedIsEarned
<1> QED
  BY <1>1, Inductive, PTL

-------------------------------------------------------------------------------
(***************************************************************************)
(* What the verification changes.  An answer is merged by the service and  *)
(* once more by the pipeline; either leaves a field or takes the answer's  *)
(* value of it.                                                            *)
(***************************************************************************)
Mode == {"relaxed", "strict"}

LEMMA FillEffect ==
  ASSUME NEW mode \in Mode, NEW p, NEW answer, NEW f \in Field,
         NEW q, q \in {ApplyMode(mode, p, answer), MergeParsed(mode, p, answer)}
  PROVE  \/ q[f] = p[f]
         \/ (q[f] = answer[f] /\ answer[f] # None)
BY DEF Mode, ApplyMode, MergeParsed, Overwrite, Fill

(* A heuristic selection is one of the offers, or what is there.           *)
LEMMA HeuristicIsOffered ==
  ASSUME NEW mode, NEW p, NEW offers, NEW f \in Field, f \in Offered,
         NEW s \in HeuristicSelections(mode, p, offers), s[f] # None
  PROVE  s[f] = p[f] \/ s[f] \in offers[f]
<1> DEFINE orNone(S)  == IF S = {} THEN {None} ELSE S
           totals     == {v \in offers["total"] : Minor[v] > 0}
           largest    == {v \in totals : \A w \in totals : Minor[w] <= Minor[v]}
           keep       == mode = "strict" /\ p.total # None /\ Minor[p.total] > 0
           currencies == IF p.currency \in offers["currency"] THEN {p.currency}
                                                              ELSE offers["currency"]
           vendors    == {v \in offers["vendor"] : ~Banned(v)}
           choices    == [number   : orNone(offers["number"]),
                          vendor   : orNone(vendors),
                          currency : orNone(currencies),
                          total    : orNone(largest)]
<1>1. PICK choice \in choices :
        s = [g \in Field |->
               IF g \notin Offered THEN None
               ELSE IF g = "total" /\ keep /\ totals # {} THEN p.total
               ELSE choice[g]]
  BY DEF HeuristicSelections
<1>2. \A S, v : v \in orNone(S) => v = None \/ v \in S
  OBVIOUS
<1>3. /\ choice.number \in orNone(offers["number"])
      /\ choice.vendor \in orNone(vendors)
      /\ choice.currency \in orNone(currencies)
      /\ choice.total \in orNone(largest)
  BY <1>1
<1>4. /\ vendors \subseteq offers["vendor"] /\ largest \subseteq offers["total"]
      /\ currencies \subseteq offers["currency"]
  OBVIOUS
<1> HIDE DEF orNone, vendors, currencies, largest, totals, keep
<1>5. f \in {"number", "vendor", "currency", "total"}
  BY DEF Offered
<1>6. s[f] = p[f] \/ s[f] = choice[f]
  BY <1>1
<1>7. choice[f] = None \/ choice[f] \in offers[f]
  BY <1>2, <1>3, <1>4, <1>5
<1> QED
  BY <1>6, <1>7

(* So is what the service makes of an answer. *)
LEMMA AnswerIsOffered ==
  ASSUME NEW mode \in Mode, NEW p, NEW offers, NEW firsts,
         NEW a,
         \/ a \in Unserved(mode, p, offers)
         \/ a \in Selected(mode, p, offers)
         \/ a \in Guessed(mode, p, offers, firsts),
         NEW f \in Field, f \in Offered, offers[f] # {}
  PROVE  a.parsed[f] = p[f] \/ a.parsed[f] \in offers[f]
<1>1. ASSUME NEW i, NEW b \in WithoutModel(mode, p, offers, i)
      PROVE  b.parsed[f] = p[f] \/ b.parsed[f] \in offers[f]
  <2>1. PICK s \in HeuristicSelections(mode, p, offers) :
          b = [parsed   |-> ApplyMode(mode, p, s),
               issues   |-> i \cup {"heuristic fallback"}
                              \cup Remarks(ApplyMode(mode, p, s)),
               answered |-> None]
    BY <1>1 DEF WithoutModel
  <2>2. b.parsed = ApplyMode(mode, p, s)
    BY <2>1
  <2> QED
    BY <2>2, FillEffect, HeuristicIsOffered
<1>2. ASSUME NEW s, NEW i, NEW w, NEW b \in WithModel(mode, p, offers, s, i, w)
      PROVE  b.parsed[f] = p[f] \/ b.parsed[f] \in offers[f]
  <2> DEFINE valid == Validated(s, offers)
             q     == ApplyMode(mode, p, valid)
  <2>1. b.parsed \in Repaired(q, offers)
    BY <1>2 DEF WithModel
  <2>2. valid[f] = None \/ valid[f] \in offers[f]
    BY DEF Validated, Allowed
  <2>3. q[f] = p[f] \/ q[f] \in offers[f]
    <3> HIDE DEF valid
    <3> QED
      BY <2>2, FillEffect
  <2>4. DOMAIN q = Field
    BY DEF ApplyMode, Overwrite, Fill
  <2> HIDE DEF q
  <2>5. \/ b.parsed = q
        \/ \E v \in offers["vendor"] : b.parsed = [q EXCEPT !.vendor = v]
    BY <2>1 DEF Repaired
  <2> QED
    BY <2>3, <2>4, <2>5 DEF Field
<1>3. CASE a = [parsed |-> p, issues |-> {"request failed"}, answered |-> None]
  BY <1>3
<1>4. CASE \E i : a \in WithoutModel(mode, p, offers, i)
  BY <1>1, <1>4
<1>5. CASE \E s, i, w : a \in SelectWithFallback(mode, p, offers, s, i, w)
  BY <1>1, <1>2, <1>5 DEF SelectWithFallback
<1>6. \/ a = [parsed |-> p, issues |-> {"request failed"}, answered |-> None]
      \/ \E i : a \in WithoutModel(mode, p, offers, i)
      \/ \E s, i, w : a \in SelectWithFallback(mode, p, offers, s, i, w)
  <2>1. CASE a \in Unserved(mode, p, offers)
    BY <2>1 DEF Unserved
  <2>2. CASE a \in Selected(mode, p, offers)
    <3>1. PICK s, i : a \in SelectWithFallback(mode, p, offers, s, i, "model")
      BY <2>2 DEF Selected
    <3> QED
      BY <3>1
  <2>3. CASE a \in Guessed(mode, p, offers, firsts)
    <3>1. PICK s \in firsts : \E i :
            a \in SelectWithFallback(mode, p, offers, s, i, "candidates")
      BY <2>3 DEF Guessed
    <3> QED
      BY <3>1
  <2> QED
    BY <2>1, <2>2, <2>3
<1> QED
  BY <1>3, <1>4, <1>5, <1>6

(* May the field f of an extraction r become v? *)
Permitted(r, f, v) ==
  /\ f \in Offered /\ r.offers[f] # {} => v \in r.offers[f]
  /\ r.pc = "assist" =>
       \/ r.parsed[f] = None
       \/ f = "vendor" /\ IsWeakVendor(r.parsed[f])
       \/ f = "total" /\ Minor[r.parsed[f]] = 0

LEMMA MergeIsPermitted ==
  ASSUME NEW r, NEW mode \in Mode, r.pc = "assist" <=> mode = "strict",
         NEW a \in Answers(mode, r), NEW f \in Field,
         MergeParsed(mode, r.parsed, a.parsed)[f] # r.parsed[f]
  PROVE  Permitted(r, f, MergeParsed(mode, r.parsed, a.parsed)[f])
<1> DEFINE q == MergeParsed(mode, r.parsed, a.parsed)
<1>1. q[f] = a.parsed[f]
  <2> DEFINE p      == r.parsed
             answer == a.parsed
  <2>1. q \in {ApplyMode(mode, p, answer), MergeParsed(mode, p, answer)} /\ q[f] # p[f]
    OBVIOUS
  <2> HIDE DEF p, answer, q
  <2>2. q[f] = answer[f]
    BY <2>1, FillEffect
  <2> QED
    BY <2>2 DEF answer
<1>2. f \in Offered /\ r.offers[f] # {} => q[f] \in r.offers[f]
  <2> DEFINE guess  == FirstCandidates(r.reading.parsed, r.template, r.offers)
             p      == r.parsed
             offers == r.offers
  <2>1. /\ \/ a \in Unserved(mode, p, offers)
           \/ a \in Selected(mode, p, offers)
           \/ a \in Guessed(mode, p, offers, guess)
        /\ q[f] # p[f] /\ q[f] = a.parsed[f]
    BY <1>1 DEF Answers
  <2> HIDE DEF guess, q, p, offers
  <2>2. ASSUME f \in Offered, offers[f] # {} PROVE q[f] \in offers[f]
    <3>1. a.parsed[f] = p[f] \/ a.parsed[f] \in offers[f]
      BY <2>1, <2>2, AnswerIsOffered
    <3> QED
      BY <2>1, <3>1
  <2> QED
    BY <2>2 DEF offers
<1>3. ASSUME mode = "strict"
      PROVE  \/ r.parsed[f] = None
             \/ f = "vendor" /\ IsWeakVendor(r.parsed[f])
             \/ f = "total" /\ Minor[r.parsed[f]] = 0
  BY <1>3 DEF MergeParsed, Fill, Addresses, IsWeakVendor
<1> QED
  BY <1>2, <1>3 DEF Permitted

LEMMA StepIsPermitted ==
  ASSUME IInv, [Next]_vars, NEW j \in Job, NEW f \in Field,
         job[j].pc \in {"verify", "assist"},
         job'[j].parsed[f] # job[j].parsed[f], job'[j].pc # "crashed"
  PROVE  Permitted(job[j], f, job'[j].parsed[f])
<1> DEFINE r == job[j]
<1>0. IsExtraction(r) /\ DOMAIN job = Job
  BY DEF IInv, JobInv, Correct
<1>1. job' # job
  OBVIOUS
<1>2. ASSUME NEW k \in Job, NEW rec, Become(k, rec)
      PROVE  (k = j => job'[j] = rec) /\ (k # j => job'[j] = job[j])
  BY <1>0, <1>2 DEF Become
<1>3. PICK k \in Job : Step(k) \/ Crash(k)
  BY <1>1 DEF Next, vars
<1>4. \E rec : Become(k, rec)
  <2>1. CASE Start(k) \/ OcrRetry(k) \/ OcrFail(k)
    BY <2>1 DEF Start, OcrRetry, OcrFail
  <2>2. CASE OcrAnswer(k)
    BY <2>2 DEF OcrAnswer
  <2>3. CASE Verify(k)
    BY <2>3 DEF Verify
  <2>4. CASE Assist(k)
    BY <2>4 DEF Assist
  <2>5. CASE \E g \in Group : \/ Lookup(k, g) \/ LearnRead(k, g) \/ LearnWrite(k, g)
                             \/ LearnFail(k, g)
    BY <2>5 DEF Lookup, LearnRead, LearnWrite, LearnFail
  <2>6. CASE LearnDone(k) \/ Cache(k) \/ Crash(k)
    BY <2>6 DEF LearnDone, Cache, Crash
  <2> QED
    BY <1>3, <2>1, <2>2, <2>3, <2>4, <2>5, <2>6 DEF Step
<1>5. k = j
  BY <1>2, <1>4
<1>6. CASE Crash(j)
  <2>1. Become(j, [Waiting(r.doc) EXCEPT !.pc = "crashed"])
    BY <1>6 DEF Crash
  <2>2. [Waiting(r.doc) EXCEPT !.pc = "crashed"].pc = "crashed"
    BY DEF Waiting
  <2> QED
    BY <1>2, <2>1, <2>2
<1>7. CASE Verify(j)
  <2>1. PICK a \in Answers("relaxed", r) : \E t \in Type :
          LET n == Assessed([r EXCEPT !.parsed = MergeParsed("relaxed", @, a.parsed),
                                      !.warnings = @ \cup a.issues,
                                      !.type = t, !.answered = a.answered], r.ocr)
          IN Become(j, IF n.score < AssistThreshold /\ n.images
                         THEN [n EXCEPT !.pc = "assist"] ELSE Finish(Shown(n)))
    BY <1>7 DEF Verify
  <2>2. PICK t \in Type :
          LET n == Assessed([r EXCEPT !.parsed = MergeParsed("relaxed", @, a.parsed),
                                      !.warnings = @ \cup a.issues,
                                      !.type = t, !.answered = a.answered], r.ocr)
          IN Become(j, IF n.score < AssistThreshold /\ n.images
                         THEN [n EXCEPT !.pc = "assist"] ELSE Finish(Shown(n)))
    BY <2>1
  <2> DEFINE asked == [r EXCEPT !.parsed = MergeParsed("relaxed", @, a.parsed),
                                !.warnings = @ \cup a.issues,
                                !.type = t, !.answered = a.answered]
             n == Assessed(asked, r.ocr)
             q == MergeParsed("relaxed", r.parsed, a.parsed)
  <2>3. Become(j, [n EXCEPT !.pc = "assist"]) \/ Become(j, Finish(Shown(n)))
    BY <2>2
  <2>4. IsExtraction(asked) /\ asked.parsed = q
    BY <1>0 DEF IsExtraction
  <2> HIDE DEF asked
  <2>5. IsExtraction(n) /\ n.parsed = q
    BY <2>4, AssessedEffect
  <2> HIDE DEF n
  <2>6. [n EXCEPT !.pc = "assist"].parsed = q
    BY <2>5 DEF IsExtraction
  <2>7. Finish(Shown(n)).parsed = q
    <3>1. IsExtraction(Shown(n)) /\ Shown(n).parsed = q
      BY <2>5, ShownEffect
    <3> QED
      BY <3>1, FinishEffect
  <2>8. job'[j].parsed = q
    BY <1>2, <2>3, <2>6, <2>7
  <2>9. r.pc = "verify"
    BY <1>7 DEF Verify
  <2> QED
    BY <2>1, <2>8, <2>9, MergeIsPermitted DEF Mode
<1>8. CASE Assist(j)
  <2>1. PICK a \in Answers("strict", r) :
          LET merged  == MergeParsed("strict", r.parsed, a.parsed)
              changed == {g \in Field : merged[g] # r.parsed[g]}
              n       == Assessed([r EXCEPT !.parsed = merged], Maximum(r.ocr, 88))
          IN \/ Become(j, Finish(Shown(r)))
             \/ Become(j, [Shown(n) EXCEPT !.pc = "learn", !.changed = changed,
                             !.at = clock + 1,
                             !.left = {TypeGroup(n.doc, n.type), VendorGroup(n.doc)}])
    BY <1>8 DEF Assist
  <2> DEFINE merged  == MergeParsed("strict", r.parsed, a.parsed)
             changed == {g \in Field : merged[g] # r.parsed[g]}
             asked   == [r EXCEPT !.parsed = merged]
             n       == Assessed(asked, Maximum(r.ocr, 88))
             s       == [Shown(n) EXCEPT !.pc = "learn", !.changed = changed,
                           !.at = clock + 1,
                           !.left = {TypeGroup(n.doc, n.type), VendorGroup(n.doc)}]
  <2>2. Become(j, Finish(Shown(r))) \/ Become(j, s)
    BY <2>1
  <2>3. Finish(Shown(r)).parsed = r.parsed
    <3>1. IsExtraction(Shown(r)) /\ Shown(r).parsed = r.parsed
      BY <1>0, ShownEffect
    <3> QED
      BY <3>1, FinishEffect
  <2> HIDE DEF merged, changed
  <2>4. IsExtraction(asked) /\ asked.parsed = merged
    BY <1>0 DEF IsExtraction
  <2> HIDE DEF asked
  <2>5. IsExtraction(n) /\ n.parsed = merged
    BY <2>4, AssessedEffect
  <2> HIDE DEF n
  <2>6. IsExtraction(Shown(n)) /\ Shown(n).parsed = merged
    BY <2>5, ShownEffect
  <2>7. s.parsed = merged
    BY <2>6 DEF IsExtraction
  <2> HIDE DEF s
  <2>8. job'[j].parsed = merged
    BY <1>2, <2>2, <2>3, <2>7
  <2>9. r.pc = "assist"
    BY <1>8 DEF Assist
  <2> QED
    BY <2>1, <2>8, <2>9, MergeIsPermitted DEF Mode, merged
<1> QED
  BY <1>3, <1>5, <1>6, <1>7, <1>8 DEF Step, Start, OcrRetry, OcrFail, OcrAnswer,
     Lookup, LearnRead, LearnWrite, LearnFail, LearnDone, Cache

(* The verification changes a field only to what it was offered, if there  *)
(* was an offer, and the second pass only what is missing or plainly wrong *)
(* (VerifierIsBounded).                                                    *)
THEOREM VerifierBounded == Spec => VerifierIsBounded
<1> DEFINE A == \A j \in Job : \A f \in Field :
                  job[j].pc \in {"verify", "assist"}
                    /\ job'[j].parsed[f] # job[j].parsed[f]
                    /\ job'[j].pc # "crashed" =>
                      Permitted(job[j], f, job'[j].parsed[f])
<1>1. IInv /\ [Next]_vars => A
  BY StepIsPermitted
<1>2. [A]_vars => [\A j \in Job : \A f \in Field :
       job[j].pc \in {"verify", "assist"} /\ job'[j].parsed[f] # job[j].parsed[f]
         /\ job'[j].pc # "crashed" =>
           /\ f \in Offered /\ job[j].offers[f] # {} =>
                job'[j].parsed[f] \in job[j].offers[f]
           /\ job[j].pc = "assist" =>
                \/ job[j].parsed[f] = None
                \/ f = "vendor" /\ IsWeakVendor(job[j].parsed[f])
                \/ f = "total" /\ Minor[job[j].parsed[f]] = 0]_vars
  BY DEF Permitted
<1> HIDE DEF A
<1> QED
  BY <1>1, <1>2, Inductive, PTL DEF Spec, VerifierIsBounded

-------------------------------------------------------------------------------
(***************************************************************************)
(* Counts.  CountsAreExact speaks of what is written; CountInv also of     *)
(* what recordings under way have read: it is a store of corrections that  *)
(* counts none too often, and while no two recordings overlapped at a      *)
(* group it is the group's present store, with one holder at most.         *)
(***************************************************************************)
Counted(store, made) ==
  \A f \in Field : /\ store[f].count \in Nat /\ store[f].count <= made[f]
                   /\ store[f].count = 0 => store[f] = NoCorrection

Made(made) == {f \in Field : made[f] > 0}

Exactly(store, made) ==
  Cardinality(Made(made)) <= MaxCorrections =>
    \A f \in Field : store[f].count = made[f]

(* The recordings at a group two of which never overlapped. *)
OneAtATime(g) ==
  /\ \A j \in Job : g \in DOMAIN job[j].held => job[j].held[g] = learned[g]
  /\ \A j, k \in Job :
       g \in DOMAIN job[j].held /\ g \in DOMAIN job[k].held => j = k

CountInv ==
  /\ applied \in [Group -> [Field -> Nat]]
  /\ \A g \in Group : /\ Counted(learned[g], applied[g])
                      /\ Cardinality(Known(learned[g])) <= MaxCorrections
  /\ \A j \in Job : \A g \in DOMAIN job[j].held :
       Counted(job[j].held[g], applied[g])
  /\ \A g \in Group \ overlapped : OneAtATime(g) /\ Exactly(learned[g], applied[g])

LEMMA FieldsAreFew == \A S \in SUBSET Field : IsFiniteSet(S) /\ Cardinality(S) \in Nat
<1>1. IsFiniteSet(Field)
  <2>1. Field = {"number"} \cup {"vendor"} \cup {"date"} \cup {"due"}
                  \cup {"currency"} \cup {"total"}
    BY DEF Field
  <2>2. \A S, x : IsFiniteSet(S) => IsFiniteSet(S \cup {x})
    BY FS_AddElement
  <2>3. IsFiniteSet({"number"})
    BY FS_Singleton
  <2> QED
    BY <2>1, <2>2, <2>3
<1> QED
  BY <1>1, FS_Subset, FS_CardinalityType

(* What an upsert keeps is within the limit, and counts what it was given, *)
(* plus one for each field it corrects, or drops it.                       *)
LEMMA UpsertsCount ==
  ASSUME NEW store, NEW made \in [Field -> Nat], Counted(store, made),
         NEW fields, NEW at, NEW j, NEW new \in Upserts(store, fields, at, j)
  PROVE  LET more == [f \in Field |-> IF f \in fields THEN made[f] + 1 ELSE made[f]]
         IN /\ Counted(new, more) /\ Cardinality(Known(new)) <= MaxCorrections
            /\ Exactly(store, made) => Exactly(new, more)
<1> DEFINE more == [f \in Field |-> IF f \in fields THEN made[f] + 1 ELSE made[f]]
           entry(f) == [count |-> store[f].count + 1,
                        seen |-> Maximum(at, store[f].seen), by |-> j]
           all == [f \in Field |-> IF f \in fields THEN entry(f) ELSE store[f]]
<1>1. PICK K \in SUBSET Known(all) :
        /\ new = [f \in Field |-> IF f \in K THEN all[f] ELSE NoCorrection]
        /\ Cardinality(K) = Minimum(MaxCorrections, Cardinality(Known(all)))
  BY DEF Upserts
<1>2. \A f : entry(f).count = store[f].count + 1
  OBVIOUS
<1> HIDE DEF entry
<1>3. NoCorrection.count = 0
  BY DEF NoCorrection
<1>4. \A f \in Field : /\ all[f].count \in Nat /\ all[f].count <= more[f]
                       /\ all[f].count = 0 <=> all[f] = NoCorrection
  BY <1>2, <1>3 DEF Counted
<1>5. \A f \in Field : /\ f \in K => new[f] = all[f]
                       /\ f \notin K => new[f] = NoCorrection
  BY <1>1
<1>6. Counted(new, more)
  <2>1. more \in [Field -> Nat]
    OBVIOUS
  <2> HIDE DEF all, more
  <2> QED
    BY <1>3, <1>4, <1>5, <2>1 DEF Counted
<1>7. Known(all) \in SUBSET Field /\ K \in SUBSET Field /\ Known(new) \subseteq K
  BY <1>1, <1>5 DEF Known
<1>8. Cardinality(Known(new)) <= MaxCorrections
  <2> HIDE DEF all
  <2>1. Cardinality(Known(new)) <= Cardinality(K)
    BY <1>7, FieldsAreFew, FS_Subset
  <2>2. Cardinality(K) <= MaxCorrections
    BY <1>1, <1>7, FieldsAreFew, ExtractionAssumption DEF Minimum
  <2>3. Known(new) \in SUBSET Field
    BY <1>7
  <2> QED
    BY <1>7, <2>1, <2>2, <2>3, FieldsAreFew, ExtractionAssumption
<1>9. ASSUME Exactly(store, made), Cardinality(Made(more)) <= MaxCorrections
      PROVE  \A f \in Field : new[f].count = more[f]
  <2>1. Made(made) \subseteq Made(more) /\ Made(more) \in SUBSET Field
    BY DEF Made
  <2>2. Cardinality(Made(made)) <= MaxCorrections
    <3>1. Made(made) \in SUBSET Field
      BY DEF Made
    <3> HIDE DEF more
    <3>2. Cardinality(Made(made)) <= Cardinality(Made(more))
      BY <2>1, FieldsAreFew, FS_Subset
    <3> QED
      BY <1>9, <2>1, <3>1, <3>2, FieldsAreFew, ExtractionAssumption
  <2>3. \A f \in Field : store[f].count = made[f]
    BY <1>9, <2>2 DEF Exactly
  <2>4. \A f \in Field : all[f].count = more[f]
    BY <1>2, <2>3
  <2>5. Known(all) = Made(more)
    <3>1. more \in [Field -> Nat]
      OBVIOUS
    <3> HIDE DEF all, more
    <3> QED
      BY <1>4, <2>4, <3>1 DEF Known, Made
  <2>6. K = Known(all)
    <3> HIDE DEF all, more
    <3>1. Cardinality(K) = Cardinality(Known(all))
      BY <1>1, <1>7, <1>9, <2>5, FieldsAreFew, ExtractionAssumption DEF Minimum
    <3> QED
      BY <1>1, <1>7, <3>1, FieldsAreFew, FS_Subset
  <2> HIDE DEF all, more
  <2> QED
    BY <1>3, <1>4, <1>5, <2>4, <2>6 DEF Known
<1> QED
  BY <1>6, <1>8, <1>9 DEF Exactly

(* A step that records nothing, and holds no more than before. *)
LEMMA QuietCount ==
  ASSUME IInv, CountInv, NEW j \in Job, NEW rec, Become(j, rec),
         DOMAIN rec.held \subseteq DOMAIN job[j].held,
         \A h \in DOMAIN rec.held : rec.held[h] = job[j].held[h],
         UNCHANGED <<learned, applied, overlapped>>
  PROVE  CountInv'
<1>1. /\ job'[j].held = rec.held
      /\ \A k \in Job : k # j => job'[k] = job[k]
  BY DEF Become, IInv, JobInv
<1>2. \A k \in Job : /\ DOMAIN job'[k].held \subseteq DOMAIN job[k].held
                     /\ \A h \in DOMAIN job'[k].held : job'[k].held[h] = job[k].held[h]
  BY <1>1
<1>3. \A g \in Group \ overlapped : OneAtATime(g)'
  BY <1>2 DEF CountInv, OneAtATime
<1> QED
  BY <1>2, <1>3 DEF CountInv

(* What an extraction holds is lost when it ends and else left alone by    *)
(* every step but those that record.                                       *)
LEMMA OthersHold ==
  ASSUME IInv, NEW j \in Job,
         \/ Start(j) \/ OcrRetry(j) \/ OcrFail(j) \/ OcrAnswer(j)
         \/ \E g \in Group : Lookup(j, g)
         \/ Verify(j) \/ Assist(j) \/ LearnDone(j) \/ Cache(j) \/ Crash(j)
  PROVE  /\ \E rec : Become(j, rec) /\ rec.held \in {job[j].held, << >>}
         /\ UNCHANGED <<learned, applied, overlapped>>
<1> DEFINE r == job[j]
           Same(s) == IsExtraction(s) /\ s.held = r.held
<1>0. Same(r)
  BY DEF IInv, JobInv, Correct
<1>a. UNCHANGED <<learned, applied, overlapped>>
  BY DEF Start, OcrRetry, OcrFail, OcrAnswer, Lookup, Verify, Assist, LearnDone,
         Cache, Crash
<1> SUFFICES \E rec : Become(j, rec) /\ rec.held \in {r.held, << >>}
  BY <1>a
<1>1. CASE Start(j)
  <2>1. PICK t : Become(j, [r EXCEPT !.pc = "ocr", !.template = t])
    BY <1>1 DEF Start
  <2>2. [r EXCEPT !.pc = "ocr", !.template = t].held = r.held
    BY <1>0 DEF IsExtraction
  <2> QED
    BY <2>1, <2>2
<1>2. CASE OcrRetry(j)
  <2>1. Become(j, [r EXCEPT !.attempts = @ + 1])
    BY <1>2 DEF OcrRetry
  <2>2. [r EXCEPT !.attempts = @ + 1].held = r.held
    BY <1>0 DEF IsExtraction
  <2> QED
    BY <2>1, <2>2
<1>3. CASE OcrFail(j)
  <2>1. Become(j, [Waiting(r.doc) EXCEPT !.pc = "done", !.status = "FAILED_OCR"])
    BY <1>3 DEF OcrFail
  <2>2. [Waiting(r.doc) EXCEPT !.pc = "done", !.status = "FAILED_OCR"].held = << >>
    BY DEF Waiting
  <2> QED
    BY <2>1, <2>2
<1>4. CASE OcrAnswer(j)
  <2>1. PICK c \in OcrConfidence, images \in BOOLEAN,
             texts \in SUBSET Readings[j] \ {{}} : \E best \in Best(texts, c) :
          LET t    == r.template
              base == [r EXCEPT !.attempts = 0, !.ocr = c, !.images = images,
                                !.reading = best, !.parsed = best.parsed,
                                !.warnings = best.warnings]
              byTemplate == Assessed([base EXCEPT !.parsed = ApplyTemplate(t, @)], c)
              read == Assessed([base EXCEPT !.offers = Offers(best, best.parsed, t)], c)
          IN Become(j,
               IF t # NoTemplate /\ byTemplate.valid
                 THEN [byTemplate EXCEPT !.pc = "cache", !.fromTemplate = TRUE]
               ELSE IF Verifier
                 THEN [read EXCEPT !.pc = "lookup",
                         !.left = {TypeGroup(read.doc, read.type), VendorGroup(read.doc)}]
               ELSE Finish(read))
    BY <1>4 DEF OcrAnswer
  <2>2. PICK best \in Best(texts, c) :
          LET t    == r.template
              base == [r EXCEPT !.attempts = 0, !.ocr = c, !.images = images,
                                !.reading = best, !.parsed = best.parsed,
                                !.warnings = best.warnings]
              byTemplate == Assessed([base EXCEPT !.parsed = ApplyTemplate(t, @)], c)
              read == Assessed([base EXCEPT !.offers = Offers(best, best.parsed, t)], c)
          IN Become(j,
               IF t # NoTemplate /\ byTemplate.valid
                 THEN [byTemplate EXCEPT !.pc = "cache", !.fromTemplate = TRUE]
               ELSE IF Verifier
                 THEN [read EXCEPT !.pc = "lookup",
                         !.left = {TypeGroup(read.doc, read.type), VendorGroup(read.doc)}]
               ELSE Finish(read))
    BY <2>1
  <2> DEFINE t    == r.template
             base == [r EXCEPT !.attempts = 0, !.ocr = c, !.images = images,
                               !.reading = best, !.parsed = best.parsed,
                               !.warnings = best.warnings]
             given == [base EXCEPT !.parsed = ApplyTemplate(t, @)]
             asked == [base EXCEPT !.offers = Offers(best, best.parsed, t)]
             byTemplate == Assessed(given, c)
             read == Assessed(asked, c)
             groups == {TypeGroup(read.doc, read.type), VendorGroup(read.doc)}
  <2>3. Same(given) /\ Same(asked)
    BY <1>0 DEF IsExtraction
  <2> HIDE DEF base, given, asked
  <2>4. Same(byTemplate) /\ Same(read)
    BY <2>3, AssessedEffect
  <2>5. \/ Become(j, [byTemplate EXCEPT !.pc = "cache", !.fromTemplate = TRUE])
        \/ Become(j, [read EXCEPT !.pc = "lookup", !.left = groups])
        \/ Become(j, Finish(read))
    BY <2>2 DEF base, given, asked
  <2> HIDE DEF byTemplate, read
  <2>6. /\ [byTemplate EXCEPT !.pc = "cache", !.fromTemplate = TRUE].held = r.held
        /\ [read EXCEPT !.pc = "lookup", !.left = groups].held = r.held
    BY <2>4 DEF IsExtraction
  <2>7. Finish(read).held = r.held
    BY <2>4, FinishEffect
  <2> QED
    BY <2>5, <2>6, <2>7
<1>5. CASE \E g \in Group : Lookup(j, g)
  <2>1. PICK pc, left, prior :
          Become(j, [r EXCEPT !.pc = pc, !.left = left, !.prior = prior])
    BY <1>5 DEF Lookup
  <2>2. [r EXCEPT !.pc = pc, !.left = left, !.prior = prior].held = r.held
    BY <1>0 DEF IsExtraction
  <2> QED
    BY <2>1, <2>2
<1>6. CASE Verify(j)
  <2>1. PICK p, w, t, a :
          LET n == Assessed([r EXCEPT !.parsed = p, !.warnings = w,
                                      !.type = t, !.answered = a], r.ocr)
          IN Become(j, [n EXCEPT !.pc = "assist"]) \/ Become(j, Finish(Shown(n)))
    BY <1>6 DEF Verify
  <2> DEFINE asked == [r EXCEPT !.parsed = p, !.warnings = w, !.type = t,
                                !.answered = a]
             n == Assessed(asked, r.ocr)
  <2>2. Same(asked)
    BY <1>0 DEF IsExtraction
  <2> HIDE DEF asked
  <2>3. Same(n)
    BY <2>2, AssessedEffect
  <2>4. Become(j, [n EXCEPT !.pc = "assist"]) \/ Become(j, Finish(Shown(n)))
    BY <2>1 DEF asked
  <2> HIDE DEF n
  <2>5. [n EXCEPT !.pc = "assist"].held = r.held
    BY <2>3 DEF IsExtraction
  <2>6. Finish(Shown(n)).held = r.held
    <3>1. Same(Shown(n))
      BY <2>3, ShownEffect
    <3> QED
      BY <3>1, FinishEffect
  <2> QED
    BY <2>4, <2>5, <2>6
<1>7. CASE Assist(j)
  <2>1. PICK p, changed, at, left :
          LET n == Assessed([r EXCEPT !.parsed = p], Maximum(r.ocr, 88))
          IN \/ Become(j, Finish(Shown(r)))
             \/ Become(j, [Shown(n) EXCEPT !.pc = "learn", !.changed = changed,
                             !.at = at, !.left = left])
    BY <1>7 DEF Assist
  <2> DEFINE asked == [r EXCEPT !.parsed = p]
             n == Assessed(asked, Maximum(r.ocr, 88))
             q == Shown(n)
  <2>2. Same(asked)
    BY <1>0 DEF IsExtraction
  <2> HIDE DEF asked
  <2>3. Same(n)
    BY <2>2, AssessedEffect
  <2>4. \/ Become(j, Finish(Shown(r)))
        \/ Become(j, [q EXCEPT !.pc = "learn", !.changed = changed, !.at = at,
                               !.left = left])
    BY <2>1 DEF asked
  <2> HIDE DEF n
  <2>5. Same(q)
    BY <2>3, ShownEffect
  <2> HIDE DEF q
  <2>6. [q EXCEPT !.pc = "learn", !.changed = changed, !.at = at,
                  !.left = left].held = r.held
    BY <2>5 DEF IsExtraction
  <2>7. Finish(Shown(r)).held = r.held
    <3>1. Same(Shown(r))
      BY <1>0, ShownEffect
    <3> QED
      BY <3>1, FinishEffect
  <2> QED
    BY <2>4, <2>6, <2>7
<1>8. CASE LearnDone(j)
  <2> DEFINE s == [r EXCEPT !.changed = {}, !.at = 0]
  <2>1. Become(j, Finish(s))
    BY <1>8 DEF LearnDone
  <2>2. Same(s)
    BY <1>0 DEF IsExtraction
  <2> HIDE DEF s
  <2>3. Finish(s).held = r.held
    BY <2>2, FinishEffect
  <2> QED
    BY <2>1, <2>3
<1>9. CASE Cache(j)
  <2>1. PICK p, w, a, t, st :
          Become(j, [Waiting(r.doc) EXCEPT !.pc = "done", !.parsed = p,
                       !.reading = w, !.answered = a, !.fromTemplate = t,
                       !.status = st])
    BY <1>9 DEF Cache
  <2>2. [Waiting(r.doc) EXCEPT !.pc = "done", !.parsed = p, !.reading = w,
           !.answered = a, !.fromTemplate = t, !.status = st].held = << >>
    BY DEF Waiting
  <2> QED
    BY <2>1, <2>2
<1>10. CASE Crash(j)
  <2>1. Become(j, [Waiting(r.doc) EXCEPT !.pc = "crashed"])
    BY <1>10 DEF Crash
  <2>2. [Waiting(r.doc) EXCEPT !.pc = "crashed"].held = << >>
    BY DEF Waiting
  <2> QED
    BY <2>1, <2>2
<1> QED
  BY <1>1, <1>2, <1>3, <1>4, <1>5, <1>6, <1>7, <1>8, <1>9, <1>10

LEMMA ReadCounts ==
  ASSUME IInv, CountInv, NEW j \in Job, NEW g \in Group, LearnRead(j, g)
  PROVE  CountInv'
<1> DEFINE r == job[j]
           held == [h \in DOMAIN r.held \cup {g} |->
                      IF h = g THEN learned[g] ELSE r.held[h]]
<1>1. Become(j, [r EXCEPT !.left = @ \ {g}, !.held = held])
  BY DEF LearnRead
<1>2. /\ job'[j].held = held
      /\ \A k \in Job : k # j => job'[k] = job[k]
  BY <1>1 DEF Become, IInv, JobInv, Correct, IsExtraction
<1>3. UNCHANGED <<learned, applied>>
  BY DEF LearnRead
<1>4. \A k \in Job : \A h \in DOMAIN job'[k].held :
        \/ job'[k].held[h] = job[k].held[h] /\ h \in DOMAIN job[k].held
        \/ k = j /\ h = g /\ job'[k].held[h] = learned[g]
  BY <1>2
<1>5. ASSUME NEW h \in Group \ overlapped' PROVE OneAtATime(h)'
  <2>1. h \in Group \ overlapped /\ (h = g => \A k \in Job : g \notin DOMAIN job[k].held)
    BY <1>5 DEF LearnRead
  <2>2. OneAtATime(h)
    BY <2>1 DEF CountInv
  <2> HIDE DEF held
  <2> QED
    BY <1>3, <1>4, <2>1, <2>2 DEF OneAtATime
<1>6. overlapped \subseteq overlapped'
  BY DEF LearnRead
<1> HIDE DEF held
<1> QED
  BY <1>3, <1>4, <1>5, <1>6 DEF CountInv

LEMMA WriteCounts ==
  ASSUME IInv, CountInv, NEW j \in Job, NEW g \in Group, LearnWrite(j, g)
  PROVE  CountInv'
<1> DEFINE r == job[j]
           made == applied[g]
           more == [f \in Field |-> IF f \in r.changed THEN made[f] + 1 ELSE made[f]]
<1>1. PICK new \in Upserts(r.held[g], r.changed, r.at, j) :
        learned' = [learned EXCEPT ![g] = new]
  BY DEF LearnWrite
<1>2. /\ applied' = [applied EXCEPT ![g] = more] /\ UNCHANGED overlapped
      /\ g \in DOMAIN r.held /\ Become(j, Drop(r, g))
  BY DEF LearnWrite
<1>3. /\ DOMAIN learned = Group /\ applied \in [Group -> [Field -> Nat]]
      /\ made \in [Field -> Nat] /\ Counted(r.held[g], made)
  BY <1>2 DEF IInv, StoreInv, CountInv
<1>4. /\ Counted(new, more) /\ Cardinality(Known(new)) <= MaxCorrections
      /\ Exactly(r.held[g], made) => Exactly(new, more)
  BY <1>1, <1>3, UpsertsCount
<1>5. /\ job'[j].held = [h \in DOMAIN r.held \ {g} |-> r.held[h]]
      /\ \A k \in Job : k # j => job'[k] = job[k]
  <2>1. IsExtraction(r)
    BY DEF IInv, JobInv, Correct
  <2> QED
    BY <1>2, <2>1, DropEffect DEF Become, IInv, JobInv
<1>6. /\ more \in [Field -> Nat] /\ \A f \in Field : made[f] <= more[f]
  BY <1>3
<1> HIDE DEF more
<1>7. applied' \in [Group -> [Field -> Nat]]
  BY <1>2, <1>3, <1>6
<1>8. \A h \in Group : /\ h = g => learned'[h] = new /\ applied'[h] = more
                       /\ h # g => learned'[h] = learned[h] /\ applied'[h] = applied[h]
  BY <1>1, <1>2, <1>3
<1>9. \A k \in Job : \A h \in DOMAIN job'[k].held :
        /\ h \in DOMAIN job[k].held /\ job'[k].held[h] = job[k].held[h]
        /\ h = g => k # j
  BY <1>5
<1>10. \A k \in Job : \A h \in DOMAIN job[k].held : h \in Group
  BY DEF IInv, JobInv, Correct, Remembers
<1>11. ASSUME NEW k \in Job, NEW h \in DOMAIN job'[k].held
       PROVE  Counted(job'[k].held[h], applied'[h])
  <2>1. Counted(job[k].held[h], applied[h]) /\ h \in Group
    BY <1>9, <1>10 DEF CountInv
  <2>2. \A f \in Field : /\ applied[h][f] \in Nat /\ applied'[h][f] \in Nat
                         /\ applied[h][f] <= applied'[h][f]
    BY <1>3, <1>6, <1>7, <1>8, <2>1
  <2> QED
    BY <1>9, <2>1, <2>2 DEF Counted
<1>12. ASSUME NEW h \in Group \ overlapped
       PROVE  OneAtATime(h)' /\ Exactly(learned'[h], applied'[h])
  <2>1. OneAtATime(h) /\ Exactly(learned[h], applied[h])
    BY DEF CountInv
  <2>2. CASE h = g
    <3>1. r.held[g] = learned[g]
      BY <1>2, <2>1, <2>2 DEF OneAtATime
    <3>2. \A k \in Job : g \notin DOMAIN job'[k].held
      BY <1>2, <1>9, <2>1, <2>2 DEF OneAtATime
    <3>3. Exactly(new, more)
      BY <1>4, <2>1, <2>2, <3>1
    <3> QED
      BY <1>8, <2>2, <3>2, <3>3 DEF OneAtATime
  <2>3. CASE h # g
    BY <1>8, <1>9, <2>1, <2>3 DEF OneAtATime
  <2> QED
    BY <2>2, <2>3
<1>13. \A h \in Group : /\ Counted(learned'[h], applied'[h])
                        /\ Cardinality(Known(learned'[h])) <= MaxCorrections
  BY <1>4, <1>8 DEF CountInv
<1> QED
  BY <1>2, <1>7, <1>11, <1>12, <1>13 DEF CountInv, Exactly, Counted, Made, Known

LEMMA FailCounts ==
  ASSUME IInv, CountInv, NEW j \in Job, NEW g \in Group, LearnFail(j, g)
  PROVE  CountInv'
<1> DEFINE r == job[j]
           d == Drop(r, g)
           s == [d EXCEPT !.left = @ \ {g}]
<1>1. Become(j, s) /\ UNCHANGED <<learned, applied, overlapped>>
  BY DEF LearnFail
<1>2. IsExtraction(d) /\ d.held = [h \in DOMAIN r.held \ {g} |-> r.held[h]]
  <2>1. IsExtraction(r)
    BY DEF IInv, JobInv, Correct
  <2> QED
    BY <2>1, DropEffect
<1> HIDE DEF d
<1>3. s.held = d.held
  BY <1>2 DEF IsExtraction
<1> HIDE DEF s
<1> QED
  BY <1>1, <1>2, <1>3, QuietCount

LEMMA CountNext == IInv /\ CountInv /\ [Next]_vars => CountInv'
<1>1. ASSUME IInv, CountInv, NEW j \in Job, Step(j) \/ Crash(j)
      PROVE  CountInv'
  <2>1. CASE \E g \in Group : LearnRead(j, g) \/ LearnWrite(j, g) \/ LearnFail(j, g)
    BY <1>1, <2>1, ReadCounts, WriteCounts, FailCounts
  <2>2. CASE ~ \E g \in Group : LearnRead(j, g) \/ LearnWrite(j, g) \/ LearnFail(j, g)
    <3>1. UNCHANGED <<learned, applied, overlapped>>
      BY <1>1, <2>2, OthersHold DEF Step
    <3>2. PICK rec : Become(j, rec) /\ rec.held \in {job[j].held, << >>}
      BY <1>1, <2>2, OthersHold DEF Step
    <3>3. DOMAIN << >> = {}
      OBVIOUS
    <3> QED
      BY <1>1, <3>1, <3>2, <3>3, QuietCount
  <2> QED
    BY <2>1, <2>2
<1>2. CountInv /\ UNCHANGED vars => CountInv'
  BY DEF CountInv, OneAtATime, vars
<1> QED
  BY <1>1, <1>2 DEF Next

LEMMA CountInit == Init => CountInv
<1> SUFFICES ASSUME Init PROVE CountInv
  OBVIOUS
<1>1. PICK d \in Documents : job = [j \in Job |-> Waiting(d[j])]
  BY DEF Init
<1>2. \A j \in Job : DOMAIN job[j].held = {}
  <2>1. DOMAIN << >> = {}
    OBVIOUS
  <2> QED
    BY <1>1, <2>1 DEF Waiting
<1>3. \A g \in Group : learned[g] = Nothing /\ applied[g] = [f \in Field |-> 0]
  BY DEF Init
<1>4. Counted(Nothing, [f \in Field |-> 0]) /\ Known(Nothing) = {}
  BY DEF Counted, Nothing, Known, NoCorrection
<1>5. Cardinality({}) = 0
  BY FS_EmptySet
<1>6. \A f \in Field : Nothing[f].count = 0
  BY DEF Nothing, NoCorrection
<1>7. applied \in [Group -> [Field -> Nat]]
  BY DEF Init
<1>8. \A g \in Group : OneAtATime(g) /\ Exactly(learned[g], applied[g])
  BY <1>2, <1>3, <1>6 DEF OneAtATime, Exactly
<1>9. \A g \in Group : /\ Counted(learned[g], applied[g])
                       /\ Cardinality(Known(learned[g])) <= MaxCorrections
  <2>1. 0 <= MaxCorrections
    BY ExtractionAssumption
  <2> DEFINE none == [f \in Field |-> 0]
  <2>2. \A g \in Group : learned[g] = Nothing /\ applied[g] = none
    BY <1>3
  <2>3. Counted(Nothing, none)
    BY <1>4
  <2> HIDE DEF none
  <2> QED
    BY <1>4, <1>5, <2>1, <2>2, <2>3
<1> QED
  BY <1>2, <1>7, <1>8, <1>9 DEF CountInv

(***************************************************************************)
(* A group stays within its limit, a correction never counts more often    *)
(* than it was made, and exactly as often unless recordings overlapped or  *)
(* the limit dropped it (CountsAreExact).                                  *)
(***************************************************************************)
THEOREM CountsExact == Spec => []CountsAreExact
<1>1. CountInv => CountsAreExact
  <2> SUFFICES ASSUME CountInv, NEW g \in Group
               PROVE  LET made == {f \in Field : applied[g][f] > 0}
                      IN /\ Cardinality(Known(learned[g])) <= MaxCorrections
                         /\ \A f \in Field : learned[g][f].count <= applied[g][f]
                         /\ g \notin overlapped /\ Cardinality(made) <= MaxCorrections =>
                              \A f \in Field : learned[g][f].count = applied[g][f]
    BY DEF CountsAreExact
  <2> QED
    BY DEF CountInv, Counted, Exactly, Made
<1>2. CountInv /\ IInv /\ [Next]_vars => CountInv'
  BY CountNext
<1> QED
  BY <1>1, <1>2, CountInit, Inductive, PTL DEF Spec

===============================================================================

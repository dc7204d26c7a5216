# BillForge in TLA+

TLA+ specifications of BillForge, the invoice ingestion, review and export
service of this repository: what the program does, checked on small instances
by TLC, and theorems about it proved with TLAPS. Every definition is translated
from the code; `PROJECT.json` ("map") names the lines.

## The system

A Node backend (`backend/src`) reads invoices from mailboxes, folders and
uploads, extracts their fields with OCR and a language model, lets users review
and approve them, and exports approved ones to Tally. All state is in MongoDB
collections and in an object store; there are no transactions and no locks, and
a request is a sequence of atomic commands on single documents. The API server
and the scheduled worker (`scripts/runWorkerOnce.ts`) are separate processes on
the same database.

| component | state it keeps | operations | interacts with |
|---|---|---|---|
| invoice rows (`models/Invoice.ts`) | status, parsed fields, `__v`, `approval`, `export`, metadata | upload, ingest, approve, retry | everything below |
| review (`services/invoiceService.ts`) | none of its own; a PATCH holds a loaded document, a delete a list of keys | PATCH, delete, approve, retry | rows, object store |
| export (`services/exportService.ts`, `tallyExporter.ts`) | export batches, files in the object store | post vouchers, generate a file, history, download | rows, Tally, object store |
| ingestion (`services/ingestionService.ts`, `sources/`) | checkpoints, `pauseRequested` of each process | `runOnce` | rows, sources, extraction |
| ingestion jobs (`routes/jobs.ts`) | status per tenant in memory, event subscribers | ingest, pause, upload, status, SSE | ingestion |
| extraction (`services/extraction/`, `parser/`) | vendor templates, learned corrections | `extract`: OCR, parse, verify, learn | OCR and SLM services, ingestion |
| OCR and SLM services (`invoice-ocr/`, `invoice-slm/`) | none | read a document, verify fields | extraction |
| crops, overlays, highlights (`ingestionService.ts`, `sourceHighlights.ts`) | images in the object store, provenance in the row | cut out, store, mark on the page | ingestion, dashboard |
| tenancy (`tenantInviteService`, `tenantAdminService`, `auth/AuthService`) | tenants, users, roles, invitations, login states | login, onboarding, invite, accept, roles | every request |
| Gmail integration (`tenantGmailIntegrationService`) | connection, OAuth states, notifications | connect, refresh, mark synced | mailbox sources |
| platform administration | none of its own | usage overview, onboarding of a tenant administrator | tenancy |
| dashboard (`frontend/src/App.tsx`) | list, selection, opened invoice, job card and its stream | operations on rows, edits, exports, jobs | every endpoint |
| local STS, mail wrapper, infrastructure | test doubles; deployment | | |

Hard behaviours: requests overtaking one another between two commands (PATCH,
delete, export, ingestion); rows read long before they are written; vouchers
posted to an outside system whose answer may be lost; a process stopping in the
middle; failures that are logged and swallowed; checkpoints moved by overlapping
runs; one pause flag for all tenants; templates and corrections read and written
back by concurrent extractions; a model that may answer anything, merged twice;
answers that reach a browser late and out of order; amounts chosen by a score, stored
in minor units and divided again. `PROJECT.json` ("hazards") lists them with
their lines and the properties about them.

What makes the components correct: vouchers only for approved invoices, EXPORTED
only with a voucher behind it and for good; no edit lost, no status an edit did
not earn; stored originals kept for the rows that need them; every document that
arrives reaches a row, and a row somebody is looking at is not written over;
nothing invalid passes the reviewer's list, and nothing that no template, model or
plausible reading stands for; what is learned stays within a tenant; the voucher is
worth what the invoice says or the reviewer typed; the page acts on invoices that may
be acted on, hears of the end of the job it shows, and marks values where they were
read.

## Modules

    InvoiceRows  <- InvoiceReview \
                 <- InvoiceExport  > InvoiceLifecycle  --refines--> InvoiceWorkflow
                                        |  <- InvoiceLifecycle_proofs
                                        <- MCInvoiceLifecycle
    Ingestion        <- MCIngestion, Ingestion_proofs
    IngestionJobs    <- IngestionJobs_proofs
    GmailIntegration <- GmailIntegration_proofs
    Tenancy          <- MCTenancy, Tenancy_proofs
    InvoiceText <- Vouchers                      <- MCVouchers, Vouchers_proofs
                <- ExtractionRules <- Extraction <- MCExtraction, Extraction_proofs
    Dashboard        <- MCDashboard
    SourceHighlights <- MCSource
    Dashboard, SourceHighlights  <- Dashboard_proofs

* **InvoiceRows** holds the rows and the operations that are one atomic command
  on one document: `Upload`, `Ingest`, `Reprocess`, `Approve`, `Retry`. The parsed
  fields are reduced to what the code asks of them: which ones are missing,
  invalid or flagged (`gaps`; `Amount` is a gap if there is no positive total, a
  total above the expected maximum is a gap of another member of `Field`), and
  which PATCH requests are in the row (`edits`). `Assessment` is what the
  extraction pipeline may decide.
* **InvoiceReview** adds PATCH (`Load`, then `Save` or `SaveConflict`) and delete
  (`FindKeys`, `DeleteRow`, `DeleteObject`). `version` is mongoose's `__v`: `save()`
  asks for the loaded one and increments it because the edit replaces the array
  `processingIssues`; `updateOne`, `updateMany`, `bulkWrite` and `findOneAndUpdate`
  neither ask nor increment. `save()` writes modified paths only: the fields as one
  object, built from the loaded copy (`NextParsed`), so that what the worker wrote
  since is overwritten, unless the request changed none; and the status only if the
  edit computed another one than it loaded.
* **InvoiceExport** adds export requests: `Select`, `PostVoucher` per invoice or
  `StoreFile`, `CreateBatch`, `SaveRow`/`SaveRowFails`, `Abort` (an exception or a
  crash). `issued` is what the outside world got, `ok` what the request believes.
* **InvoiceLifecycle** composes the three by interleaving and states the
  properties. `InvoiceWorkflow` is the abstract specification: arrive, settle,
  retry, correct, approve, remove, issue, record, with history sets for what was
  approved and issued. The refinement maps `approved` to the rows with an
  `approval` subdocument and `issued` to what any export request issued.
* **Ingestion** is `runOnce` for one tenant and a set of processes: `Start`,
  `OpenSource` (checkpoint), `Fetch` (listing and filter), `TakeFile` (duplicate
  check), `Extract` and `Create` (the two commands of `upsertFromPending`),
  `SaveCheckpoint` (and the pause check), with arriving documents, uploads, retries,
  deletes, pauses and crashes in between. Sources of different types never name a
  document alike, so an instance has sources of one type.
* **IngestionJobs** is what `routes/jobs.ts` keeps in the memory of one API process:
  `status` (the map of job states), `pauseRequested` (one flag of the one
  `IngestionService` all tenants share), the active runs and the event streams.
  A run is reduced to its awaits: `Scan` a source, `FileDone`, `CheckpointSaved`
  (where the flag is read), `Throw`. JavaScript is single-threaded, so a handler
  and the code between two awaits are one step. A run that pauses still reports
  all its files as processed (`Finished`): the last event of the code says so.
  `asked`, `pausing` and `late` are history. What a run does to rows and
  checkpoints is in `Ingestion`, where a pause, and another tenant clearing it,
  are actions of the environment.
* **GmailIntegration** has the connection document (`token`, `status`), OAuth
  attempts (`CreateConnectUrl`, `FindState`, `DeleteState`, `Exchange`,
  `StoreConnection`) and syncs
  (`Load`, `Refresh`, then `SaveNeedsReauth`, `CreateEvent`, `SendMail`,
  `MarkDelivered`, or `MarkSyncSuccess`). Refresh tokens are numbers in the order
  Google hands them out. A refresh token that cannot be decrypted is treated as a
  refused one by the code and is one here. The status `error` is written only for a
  connection without a refresh token, which no code path stores, and is left out.
  A second try with a fresh token loads the connection anew: it is a failure and
  another sync.
* **Tenancy** interleaves logins and onboarding, invitations, role changes and
  removals, a step per database command. Where there is no role document, `role`
  says why (`none`, `removed`, `cut`), which the properties need to tell a request
  that stopped from one that never was. A user has one browser session: its tenant
  is compared with the user's on every request, its role is believed. Accepting an
  invitation needs a login, so `FindInvite` asks for `LoggedIn`. Sending an invitation
  again changes only its link.
* **InvoiceText** is the parser, a pure function of the lines of a text
  (`ParseInvoiceText`). A line is what the patterns find in it: a total label,
  amounts as groups of digits and marks, a word that may be a number, a name that may
  be a vendor, dates. How an amount is read, how the candidates for the total score,
  the fallbacks of number, vendor, currency and date, and the conversion to minor
  units are as in the code; matching characters is left out.
* **Vouchers** takes a text through the parser, up to `MaxEdits` corrections
  (`Correct` of the panel, `SaveCell` of the list, both through the one PATCH), the
  preview of the page and the voucher of the exporter, which two programs compute. An
  invoice arrives at an instant, which is a day for the server and a day for the
  browser (`received`), the same or not. The exporter would read a total that is not
  positive again from the text (`ResolvedTotals`); the service does not load the text
  (`Unselected`).
* **ExtractionRules** are the pure rules of the pipeline: validation, risks,
  confidence, the choice among readings, templates, the offers to the language model,
  and the model service's own validation, merge and heuristic answer, and what it takes
  for the answer of a model that answers garbage (`Guessed`: the first candidate of
  each field). A field has a handful of values, chosen so that every rule tells some of
  them apart.
* **Extraction** is `InvoiceExtractionPipeline.extract`, several at a time over the
  shared stores of templates and corrections. One step is the code between two
  awaits: `Start` (template), `OcrRetry`, `OcrFail` or `OcrAnswer`, `Lookup`
  (corrections, of either group), `Verify`, `Assist` (second pass with images), then per group
  `LearnRead` and `LearnWrite` or `LearnFail`, `LearnDone`, `Cache` (template and
  status). Each service may answer anything it can, or fail. `by`, `applied`,
  `overlapped`, `answered` and `fromTemplate` are history. `Crash` ends an extraction
  anywhere. What the row does with the status is `Assessment` in `InvoiceRows`.
* **Dashboard** is the page. Requests are neither ordered nor cancelled, so instead
  of the requests on their way the model keeps what the server held up to now
  (`past`, `said`), and any of it may arrive at any time. Messages of a stream come in
  order: `HearMessage` shows one that others follow, or the last one (`sent`). A stream
  begins with the status of its time (`Greeting`). The opened invoice, the handlers and
  the job card influence one another only through loads that may happen anyway: a
  behaviour is about one of these parts, which keeps their product out of the state
  space and loses no order of events in any of them. The server is not restarted.
* **SourceHighlights** follows a value from the boxes of three kinds of OCR service
  through the client's checks, the block chosen for a field, crops and overlays under
  names made from the document, edits and retries, to the box the page draws. The
  row is written once, the images one by one before. A PATCH loads the row and saves
  values and status (`LoadEdit`, `SaveEdit`), which settles a row that waits or has
  failed. An extraction has images of some pages only (`Imaged`), and of the others the
  first page takes the place. `Dashboard_proofs` is about the
  two modules of what the page shows, hence the longer names of its specification
  (`HighlightSpec`, `HighlightInit`, `RetryRow`, `DeleteRow`).

## Runs

| run | instance | shows |
|---|---|---|
| review | 1 invoice, 2 PATCHes, 1 export | `NoUnseenEdit`, `ReopenedBeforeApproval`, `ParsedIsComplete`, `TypeOK` |
| export | 1 invoice, 1 PATCH, 2 exports | `IssuedWasApproved`, `RecordedStaysExported`, `ExportedIsBacked`, `ImplementsWorkflow` |
| originals | 1 invoice, 1 PATCH, 2 deletes, 1 export | `OriginalIsKept` |
| mail | 1 mailbox, 2 mails, worker and API | `NothingSkipped`, `EveryFileIsStored` |
| files | 1 folder file and 1 upload, worker and API | `SettledKeepsContent`, `RetryIsServed`, `EveryFileIsStored` |
| jobs | 2 tenants, 2 runs, 1 browser, 2 sources of 2 files | `OneJobPerTenant`, `CountsAgree`, `StreamsAreCurrent`, `PauseIsHonoured`, `StopsOnlyIfAsked`, `JobEnds`, `TypeOK` |
| gmail | 2 syncs (1 of the worker), 2 connecting, 2 tokens, 1 failure | `NeedsReauthIsEarned`, `RevocationIsNoticed`, `RefusalIsAnnounced`, `TypeOK` |
| tenancy | 2 users, 2 tenants, 1 invitation, 2 requests at a time | `HomeHasRole`, `AcceptedIsMember`, `RemovalLeavesAnAdmin`, `TypeOK` |
| extraction | 2 extractions with one fingerprint, of 1 or 2 tenants, 2 texts, 3 answers of a model | `PassedIsEarned`, `MemoryIsOwn`, `CountsAreExact`, `VerifierIsBounded` |
| vouchers | all texts of 3 of 11 lines, 3 currencies, 2 corrections, 2 arrivals | `PlainTotalWins`, `VoucherIsFaithful` |
| dashboard | 2 invoices, 2 changes on the server, any number of jobs | `SelectionIsOpen`, `RunningIsFollowed`, `EndIsHeard` |
| source | 2 runs, 3 readings of 1 or 2 blocks on 2 pages of 17 by 11 pixels, 1 PATCH at a time | `ImagesShowTheirPlace`, `TotalIsRead` |

Every question here is about a pair of actors meeting at one row (two edits, an
edit and an export, two exports, a delete and an export, two runs), with a third
acting between their steps; the instances have these actors and the statements
quantify over each. Retry, approve and reprocessing are unbounded; edits,
deletes and exports are bounded by the sets of requests, each request
served once. In `Ingestion`, `MaxDisturbance` bounds crashes, pauses, retries and
deletes together, `Doc` the documents; runs are unbounded. Two documents are
enough for a checkpoint to pass one of them, two runs for it to go back.
In `IngestionJobs`, `MaxSources` and `MaxFiles` bound a run, not the number of
runs, pauses and restarts: two sources show the end of one that is not the last,
two files the pause between them, two tenants the shared flag.
In `GmailIntegration`, `MaxToken` bounds how often a mailbox is connected (two: one
before and one during a sync that fails late, or two at a time) and `MaxCrash` the
commands that fail. In `Tenancy`, `MaxBusy` bounds the requests in progress at a
time, any two of two logins, two acceptances and two removals; how many are served
one after another is not bounded, only how many tenants and invitations are ever
created. `MaxSecond` bounds the clock of the file names in `originals`.
In `extraction`, the two readings are written out, and an assumption of `MCExtraction`
(`ReadingsAreParsed`) has TLC confirm that they are what `InvoiceText` makes of the two
texts. The documents of one tenant share the vendor's group and that of
the type, so two recordings can overlap in either; `MaxCorrections` is 2, so that the
limit is reached (the code's 6 is as many as the model has fields); each extraction
runs once, the second before, during or after the first. Besides being down, missing
or answering garbage, the model selects a vendor that is an address, a currency that is
not offered (so nothing), or a number. `AssistThreshold` is 65, so that both passes and
the end without the second one are reached, and PARSED by each of its ways: a template,
a model, the first candidates. In `vouchers`, three lines are
the least that let a labelled total compete with an unlabelled amount and a subtotal
wherever they stand; `Typed` holds a whole and a broken amount, `Currencies` two, no
and three decimals; an invoice arrives at noon or just after the server's midnight. In
`dashboard`, `MaxChanges` bounds what happens to the rows on the server: two changes
give answers of three ages; jobs, streams and answers about them are not bounded. In
`source`, `MaxReadings` bounds the
extractions begun (two: one overtaken, or one after the other); the boxes lie at the
edges, beyond them and the wrong way round, and no side of the page divides the
model's 999, so everything is rounded.

`jobs` checks for deadlock. The other configurations say `CHECK_DEADLOCK FALSE`:
when all requests are served, or all tokens are revoked, nothing needs to happen.

## Fairness

`InvoiceLifecycle` has none: its properties are safety. `Ingestion` assumes that a
run that does not crash takes its next step, and that the worker is started again
and again (`infra/modules/aws_scheduled_ec2_service` runs it on a schedule). The
worker passes no tenant and so reads no uploads: `UserSpec` adds the assumption
that users keep starting runs of the API, and only `files` uses it. Nothing is
assumed about arrivals, uploads, pauses or deletions. `IngestionJobs` assumes that
an await of a run is answered or throws; nobody needs to start or pause a job.
`GmailIntegration` assumes that a sync that does not fail goes on, and that the
worker's syncs (`Worker`) come again; connecting, revoking and the API's syncs may
never happen. `Tenancy`, `Extraction`, `Vouchers`, `Dashboard` and `SourceHighlights`
have only safety properties and assume nothing: services and browsers may fall
silent at any step.

## Proofs

`InvoiceLifecycle_proofs` proves, for all values of the constants:

* `TypeCorrect`: `Spec => []TypeOK`;
* `IssuedApproved`, `ExportedBacked`, `StaysExported`: the safety properties of the
  run `export`;
* `OriginalKept`, `ParsedComplete`, `EditsAreSeen` and `ReopenedByEarlierEdit`: those
  of `originals` and `review`;
* `LifecycleImplementsWorkflow`: `Spec => Workflow!Spec`.

The argument is one inductive invariant, `IInv`. `ExportedIsBacked` alone is not
inductive: a request marks a row from a record it made long before, so the
invariant says what every request carries through its program counter
(`Carries`): its selection was approved, what it believes issued was issued and
selected, and what it has left to mark is among them. `approved` never becomes
false again (`ApprovalInv`), which turns a fact about the moment of the selection
into one about now. `RecordedStaysExported` is inductive with it because each
action that could leave EXPORTED has a guard on the status or is a PATCH, which
records itself in `Reopened`. The refinement needs `IInv` to know that an issued
invoice is in `EverApproved` and a marked one in `EverIssued`. `OriginalIsKept` is
strengthened to `KeptInv`, what a delete between its commands knows: the row whose key
it holds is there, and once it has deleted, the row is gone or was marked in between.
`ParsedIsComplete` needs `CompleteInv`: an edit that wrote its status without its
fields, or the other way round, over what was written meanwhile is a saved one. The two action properties, `NoUnseenEdit` and `ReopenedBeforeApproval`, say what
a step that saves an edit may find; `SeenInv` says it of every open edit: it was loaded
from a row that could be modified, versions only grow, and while the row has the loaded
version, every edit in it was there when it was loaded. `Approve`, `Retry` and an
export leave the version alone and put no edit into a row, which is why that holds
though they do not take part in it.

All proofs use the assumptions on the constants named in the modules and nothing
else, unless a theorem says so. Those about data say: texts are finite sequences of
lines with finitely many amounts (`TextAssumption`), a total a reviewer types is a
natural number of hundredths (`TypedAssumption`), and OCR answers with blocks on pages the document
has, with corners in pixels, from 0 to 999 or from 0 to 1, as the three services send
them (`ReadingAssumption`; `_clamp_unit` of `local_apple_vision.py`, `engine.py`). A
block that says nothing but a total is digits and so has no label of one, which is the
assumption's last clause.

`Ingestion_proofs` proves `TypeCorrect` and, for mailboxes with at most one supported
file in a mail (`OneAttachment`, an assumption of the theorem; without it the property
is false), `MailIsNotSkipped`. The invariant is `SkipInv`: everything up to a run's own
copy of the marker is stored, and everything of its mailbox is stored, in its hands, or
later than what is in its hands (`Ordered`). It does not matter how far another run has
moved the saved marker, up or back, because every run that reads one finds the files
below it stored, and a row that holds a mail is of that mail. `ContentIsKept` proves
the action property `SettledKeepsContent` from the types alone, step by step: the
commands of a run match a row only while it is PENDING, so it is the guard in the
query, not the order of runs, that protects a row.

`Extraction_proofs` proves the properties of the run `extraction`, for any number of
extractions, any texts, answers, thresholds and limits. `PassedEarned` rests on
`Sound`, what an extraction knows of its fields at each stage: its validity and risks
are those of the fields it has now (so nothing is changed after it was assessed), and a
template or a model stands for it, the first candidates do, or it carries a warning.
`AnswersSay` splits the answers of the service: by a model, with an issue, or the first
candidates, which leave what was plausibly read as it was (`FirstIsRead`,
`RelaxedLeaves`, `StrictLeaves`) because the value read is the first one offered
(`OffersContainRead`). `MemoryOwn` rests on `Remembers`: whatever a record names was made
by an extraction of the same tenant, in both stores, in what is read, held and about to
be written. `VerifierBounded` follows from `AnswerIsOffered` and `MergeIsPermitted`, two
lemmas on the rules of the service and of the pipeline for every offer and answer.
`CountsExact` rests on `CountInv`: every record, in a store or in the hands of a
recording (`held`), counts no more than was applied; and in a group where no two
recordings overlapped at most one is under way, and it holds what is stored. An
upsert within the limit drops nothing, and one beyond it keeps as many as the limit
allows (`UpsertsCount`).

`Vouchers_proofs` proves `PlainTotalIsRead` for texts of any length: a plainly
labelled amount is a candidate, and bounds on each part of the score
(`LabelBounds`, `MagnitudeBounds`, `LateBounds`) put it ahead of all that are not.
`VoucherFaithful` proves `VoucherIsFaithful`, for any text, any arrival, any number of
corrections and any amounts a reviewer types. `RowInv` says that the row's total is
what was typed last, or what the text says if nothing was, in minor units of the row's
currency; `VoucherInv` that a voucher is the one made of the row, whose total is
positive because the text is not at hand to read another (`NothingIsReadAgain`). What is left are facts about
numbers: writing minor units as a decimal and reading them again loses nothing
(`MajorKeeps`), and a sum over the set of a voucher's debits is what adding them one at
a time gives, in whatever order (`DebitsAddUp`, by well-founded induction over its
subsets).

`Dashboard_proofs` proves the three properties of the run `dashboard`.
`SelectionIsOpen` and `RunningIsFollowed` are inductive as they stand. `EndIsAlwaysHeard`
needs `CardInv`: what is shown or on its way is a status the server had, the last word
of a stream about a job that ended is that end, and a server that ever had a job begins
a stream with its status.

It also proves the two of the run `source`, for any readings, sizes of the page and
resolution `Unit`, and any number of runs. `TotalIsReadThere` goes through
`findBlockForField` for any blocks: a best block exists (`BestExists`), it is one that
says the total, and the scores of a line of tax and of a total's line differ by no more
than two spellings make up for (`TotalBlock`). `ImagesShowIt` has an invariant about
runs, rows and images, `HighlightInv`: unless the last extraction began while another
went on, at most one run is at work, it has not written the row (`unwritten`), and what
it has stored shows the blocks and fields it read; when none is left unwritten, the
images are those the row points to (`Alone`, `Depicted`), of whatever pages there were
images. `PatchSound` says of an open PATCH that its copy
is of the row as it was loaded, or the row was written since (`stale`). The rest is arithmetic of rounding (`PlaceIsNear`): a fraction
rounded to the nearest unit where the page marks a box, and to whole pixels, outwards
and inside the page, where an image is cut, are a pixel and a unit apart at most.

`IngestionJobs_proofs` proves every safety property of the run `jobs` (`OneJob`,
`Counts`, `StreamsCurrent`, `PauseHonoured`, `StopsIfAsked`) besides `TypeCorrect`.
`RunStepShape` says once what a step of a run can be: its end, with a status that
does not run and is `paused` only if the flag was seen, or a change of this run
alone with at most a progress event. `PauseInv` strengthens `PauseIsHonoured`: a
file finished after the pause means that the next thing the run does is to read
the flag, and the flag is set whenever the run's tenant has asked and no other job
has started. `CountsInv` adds that a run that lists a source has no file left.

`GmailIntegration_proofs` proves `TypeCorrect`, which is not inductive by itself (a
sync could announce the refusal of token 0): `TokensExist` says that there is a
token wherever one is used; and `ReauthEarned`, from the fact that a sync that was
refused holds a revoked token.

`Tenancy_proofs` proves `TypeCorrect` with `NamesInv` (requests name existing users,
tenants and invitations), `HomesHaveRoles` (the request still to create the role is
at work on this very tenant), `AcceptedMembers` (already true of a request that has
granted the role, and of whoever was recorded, since no step takes a role back to
`none`; and `SessionInv`, a session is of a tenant in which its user once had a role, so
one of a user who was cut off there cannot be), and `RemovalsLeaveAnAdmin` (a removal about to delete has seen no
administrators or not exactly one).

Every safety property the runs check is proved, `MailIsNotSkipped` under
`OneAttachment`. Model-checked only: liveness under fairness (`JobEnds`,
`RevocationIsNoticed`, `RefusalIsAnnounced`, `EveryFileIsStored`, `RetryIsServed`), which
is out of the prover's reach. `PlainTotalWins` and `VoucherIsFaithful` are proved of the
classified lines the model of the parser starts from, not of characters.

## Known divergences

The properties say what the code does keep. Where it does something else than a
document, a comment or a message says, the property leaves that out, as follows.

* Two exports at the same time post two vouchers for one invoice
  (`exportService.ts:41`; `docs/PRD.md:60` has exported invoices selectable no more).
  `IssuedWasApproved` and `ExportedIsBacked` hold with both.
* An export that failed for a row that another one marked replaces its `export`
  subdocument by an error (`exportService.ts:91`).
* A PATCH loaded before an export is saved over the EXPORTED row, though
  `docs/PRD.md:61` blocks edits after export; `RecordedStaysExported` names the case.
* A PATCH open while a retried row is read again overwrites what was read with its older
  copy, all fields of it, because only a PATCH bumps `__v` (`invoiceService.ts:298`):
  `NoUnseenEdit` is about two edits.
* An object whose deletion failed is read again by the next run, which inserts the
  deleted invoice anew (`invoiceService.ts:219`).
* A retried row of a mail stays PENDING, because the checkpoint is past it
  (`invoiceService.ts:176`): `RetryIsServed` is about folders.
* A PENDING row is filled with any file of the tenant that names a document alike, of
  another attachment or mailbox (`ingestionService.ts:417`): `SettledKeepsContent` says
  only that rows that are not PENDING are left alone.
* Files of two exports in one second have one name (`tallyExporter.ts:187`).
* The checkpoint passes a mail after the first of its attachments, so a crash or a
  pause skips the others (`ingestionService.ts:181`; `src/README.md:461`): hence
  `OneAttachment`.
* A source that fails in every run, such as a mailbox that asks for authentication,
  ends each of them, and those behind it, the uploads last of all, are not read
  (`ingestionService.ts:142`).
* `assignRole` and an invitation accepted in the own tenant can take the last
  administrator (`tenantAdminService.ts:70`, `tenantInviteService.ts:83`), which the
  message at `tenantAdminService.ts:103` rules out for removals only; and of two
  administrators who remove each other, both count two (`tenantAdminService.ts:98`):
  `RemovalLeavesAnAdmin` excepts a removal whose count was overtaken.
* A request that stops between `user.save()` and the role (`tenantInviteService.ts:81`)
  locks its user out: the session is of another tenant (`AuthService.ts:139`), a login
  finds no role (`AuthService.ts:254`), and accepting the invitation again needs a
  session (`tenantLifecycle.ts:28`). The same holds of a first login or an onboarding
  that stops before the role (`AuthService.ts:209`). Only an administrator who assigns a
  role helps. `HomeHasRole` excepts these users, and `AcceptedIsMember` says that they
  are out.
* A token refused late disables a connection made meanwhile, and a stop between the
  status and the notification leaves the user without one
  (`tenantGmailIntegrationService.ts:242`): `overtaken` and `unsaid` in the properties.
* A model that answers garbage twice is answered for with the first candidates of the
  fields and no remark (`local_mlx.py:91`), which the service takes for a selection of
  the model: an invoice nobody verified may be PARSED. `PassedIsEarned` says what holds
  then: its fields are valid and without risk, and what was plausibly read is unchanged.
* Corrections are looked up under the type `other`, because the type is not known
  before the verification (`InvoiceExtractionPipeline.ts:310`; `docs/RFC.md:164`);
  concurrent recordings lose counts, which `CountsAreExact` excepts.
* A template is saved from fields that are not valid, too, and keeps the currency and
  prefix of an earlier one that the new one lacks.
* The limit on totals is in hundredths for validation and in the currency's own minor
  units for risks (`deterministicValidation.ts`, `confidenceAssessment.ts`).
* A total keeps its minor units when only the currency is corrected; the list's editor
  divides by 100 in any currency (`App.tsx:1417`), so saving an untouched total in JPY
  changes it. `VoucherIsFaithful` speaks of what was sent.
* `TallyExporter` reads a total that is missing or 0 again from `ocrText`
  (`tallyExporter.ts:208`; `tallyExporter.test.ts:227`) and would post a voucher of 0
  for an amount below half a minor unit; the service never loads `ocrText`
  (`exportService.ts:41`, `:145`), so such an invoice gets no voucher.
* The voucher of an invoice without a date has the day of its arrival at the server
  (`tallyExporter.ts:396`), the preview that of the browser (`tallyMapping.ts:86`):
  `VoucherIsFaithful` excepts it.
* `KWD` and `BHD` have three decimals in `currency.ts` and are no currencies to the
  parser; a date written day first is read month first if it can be.
* A stream that breaks is not opened again while the job runs on (`App.tsx:477`):
  `RunningIsFollowed` and `EndIsHeard` except it (`broke`).
* An older answer to a refresh that replaces the end of a job before the page is
  rendered leaves the page with a job that runs no more (`App.tsx:548`): `lost` in
  `EndIsHeard`. A server that is restarted has no status to begin a stream with, which
  has the same effect and is not modelled.
* A popup closed with Escape opens again when a late refresh answers; requests for
  lists and details are never cancelled by handlers.
* A value found by the page's own search keeps the page of its provenance, 1 if there
  is none, and may be marked there with the box of a block of page 2; deleting an
  invoice leaves its images behind.
* Crops and overlays are replaced before the row is written: those of an overlapped
  extraction may be another's (`overlapped` in `ImagesShowTheirPlace`), and a PATCH
  settles a row, with the boxes of its last extraction, whose next one has replaced
  images and crashed or goes on (`invoiceService.ts:315`; `unwritten`).
* A block of a page whose image is missing is cut from the same place of the first page
  (`ingestionService.ts:513`, `:585`), which `ImagesShowTheirPlace` allows.

## Plan

1. *(done)* rows, review, export, their composition and abstract workflow; ingestion
   runs; job status and the shared pause flag; Gmail integration; tenancy.
2. *(done)* parser, vouchers, extraction with templates and learning, dashboard,
   source highlights; the safety of the lifecycle but for versions, of mail ingestion,
   of extraction and of the dashboard proved.
3. *(done)* the action properties of edits and of ingestion, `CountsAreExact`,
   `VoucherIsFaithful` and the properties of `SourceHighlights` proved.
4. A mailbox whose connection fails in the middle of a run, composed from
   `GmailIntegration` and `Ingestion`, with the order of sources.
5. An abstract inbox that `Ingestion` implements (files arrive, reach a row, are settled,
   reopened and removed; runs, markers and crashes are its implementation), as
   `InvoiceWorkflow` is for the lifecycle, and what a connection is for its user, which
   `GmailIntegration` implements: refinements to check and to prove.
6. The calibration of OCR confidence and the grounding texts the pipeline makes of
   blocks.

## Not modelled

Completing the onboarding (one guarded save of a tenant's name), passwords and the
OAuth exchange with the STS behind a login; protocols of IMAP, SMTP and Tally's XML
beyond amounts, ledgers, numbers and dates; loading and prompting of models and the
rendering of pages; the detection of a document's language, the calibration of OCR
confidence, field confidences and grounding texts; matching of characters by the
parser's patterns (lines come classified); the expiry of corrections after 90 days
(an index of the database); cryptography and the encoding of tokens; page previews;
login and administration pages, layout, filters and search of the dashboard;
`core/runtimeManifest.ts` and `config/env.ts` (reading the configuration once);
infrastructure as declared. The read-only endpoints change no state.

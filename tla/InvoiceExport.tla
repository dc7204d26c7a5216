---------------------------- MODULE InvoiceExport ----------------------------
(***************************************************************************)
(* services/exportService.ts with services/tallyExporter.ts: an export     *)
(* request selects APPROVED rows, issues a voucher for each (one POST per  *)
(* invoice to the Tally server, or one XML file in the file store), records*)
(* an export batch, and only then marks the rows, one update per row.      *)
(* Nothing claims the rows between the selection and the marking, and the  *)
(* process may stop at any point.                                          *)
(***************************************************************************)
EXTENDS InvoiceRows

CONSTANTS
  MaxSecond,   \* bound on the wall clock, in seconds
  NoExport     \* nobody has stored a file under the name

ASSUME MaxSecondAssumption == MaxSecond \in Nat
ASSUME NoExportAssumption == NoExport \notin Export

VARIABLES
  xp,       \* the export requests
  files,    \* the stored import files: which export wrote the object last
  clock     \* the second now(); the file name holds it and nothing finer

exportVars == <<xp, files, clock>>

Second == 0..MaxSecond

(***************************************************************************)
(* sel holds the selected invoices, priced those a voucher can be built    *)
(* for from the copies of the rows, todo those the current loop has still  *)
(* to visit.  issued records what the outside world got (vouchers Tally    *)
(* created, or the contents of the file), ok what the request believes was *)
(* issued, saved the rows it marked EXPORTED.                              *)
(***************************************************************************)
ExportRecord ==
  [pc     : {"idle", "issuing", "batching", "saving", "done"},
   mode   : {"post", "file"},
   sel    : SUBSET Invoice,
   priced : SUBSET Invoice,
   todo   : SUBSET Invoice,
   issued : SUBSET Invoice,
   ok     : SUBSET Invoice,
   saved  : SUBSET Invoice,
   batch  : BOOLEAN,
   second : Second]

ExportTypeOK ==
  /\ xp \in [Export -> ExportRecord]
  /\ files \in [Second -> Export \cup {NoExport}]
  /\ clock \in Second

ExportInit ==
  /\ xp = [x \in Export |->
             [pc |-> "idle", mode |-> "post", sel |-> {}, priced |-> {},
              todo |-> {}, issued |-> {}, ok |-> {}, saved |-> {},
              batch |-> FALSE, second |-> 0]]
  /\ files = [t \in Second |-> NoExport]
  /\ clock = 0

Tick ==
  /\ clock < MaxSecond
  /\ clock' = clock + 1
  /\ UNCHANGED <<rowVars, xp, files>>

SelectablePresent(i) == Exists(i)   \* mutant: no filter on the status

Selectable(i) == status[i] = "APPROVED"

(***************************************************************************)
(* find({status: "APPROVED", _id: {$in: ids}}), with or without ids.  The  *)
(* request works on these copies from now on.  No row: an empty answer.    *)
(* resolveInvoiceTotalAmountMinor wants a positive parsed total: it could  *)
(* read one from the OCR text, but the query deselects that.               *)
(***************************************************************************)
Priced(sel) == {i \in sel : Amount \notin parsed[i].gaps}

Select(x) ==
  /\ xp[x].pc = "idle"
  /\ \E ids \in SUBSET Invoice, m \in {"post", "file"} :
       LET sel == {i \in ids : Selectable(i)} IN
       xp' = [xp EXCEPT ![x] =
                [@ EXCEPT !.pc = IF sel = {} THEN "done" ELSE "issuing",
                          !.mode = m, !.todo = sel, !.sel = sel,
                          !.priced = Priced(sel)]]
  /\ UNCHANGED <<rowVars, files, clock>>

(***************************************************************************)
(* exportInvoices: one POST per invoice.  Tally creates the voucher and    *)
(* says so; or rejects it; or cannot be reached; or creates it and the     *)
(* answer is lost (the 20 s timeout), which the code records as a failure. *)
(***************************************************************************)
Posted(r, i, created, answered) ==
  [r EXCEPT !.todo = @ \ {i},
            !.issued = IF created THEN @ \cup {i} ELSE @,
            !.ok = IF answered THEN @ \cup {i} ELSE @,
            !.pc = IF r.todo = {i} THEN "batching" ELSE @]

PostVoucher(x) ==
  /\ xp[x].pc = "issuing" /\ xp[x].mode = "post"
  /\ \E i \in xp[x].todo, created, answered \in BOOLEAN :
       /\ created => i \in xp[x].priced
       /\ answered => created
       /\ xp' = [xp EXCEPT ![x] = Posted(xp[x], i, created, answered)]
  /\ UNCHANGED <<rowVars, files, clock>>

(***************************************************************************)
(* generateImportFile and putObject: one file for all priced invoices,     *)
(* under a name made of the current second; an object already stored under *)
(* that name is replaced.  With no priced invoice an empty file is stored  *)
(* under a name in milliseconds, which nobody refers to.                   *)
(***************************************************************************)
StoreFile(x) ==
  /\ xp[x].pc = "issuing" /\ xp[x].mode = "file"
  /\ files' = IF xp[x].priced = {} THEN files
              ELSE [files EXCEPT ![clock] = x]
  /\ xp' = [xp EXCEPT ![x] =
              [@ EXCEPT !.pc = "batching", !.todo = {}, !.second = clock,
                        !.issued = xp[x].priced, !.ok = xp[x].priced]]
  /\ UNCHANGED <<rowVars, clock>>

(* ExportBatchModel.create.  A Tally batch then visits every selected row, *)
(* a file batch only the ones in the file.                                 *)
CreateBatch(x) ==
  LET todo == IF xp[x].mode = "post" THEN xp[x].sel ELSE xp[x].ok IN
  /\ xp[x].pc = "batching"
  /\ xp' = [xp EXCEPT ![x] =
              [@ EXCEPT !.batch = TRUE, !.todo = todo,
                        !.pc = IF todo = {} THEN "done" ELSE "saving"]]
  /\ UNCHANGED <<rowVars, files, clock>>

Marked(r, i, exported) ==
  [r EXCEPT !.todo = @ \ {i},
            !.saved = IF exported THEN @ \cup {i} ELSE @,
            !.pc = IF r.todo = {i} THEN "done" ELSE @]

MarkRowAlways(x, i) ==   \* mutant: the voucher's result is not looked at
  /\ status' = [status EXCEPT ![i] = IF Exists(i) THEN "EXPORTED" ELSE @]
  /\ exportInfo' = [exportInfo EXCEPT ![i] =
                  IF Exists(i) THEN "reference" ELSE @]
  /\ xp' = [xp EXCEPT ![x] = Marked(xp[x], i, Exists(i))]
  /\ UNCHANGED <<parsed, version, approved, original>>

(***************************************************************************)
(* updateOne({_id}, ...): whatever the status of the row is by now.  A     *)
(* deleted row matches nothing; a failed voucher leaves the status alone   *)
(* and puts an error in the export subdocument.                            *)
(***************************************************************************)
MarkRow(x, i) ==
  LET ok == i \in xp[x].ok IN
  /\ status' = [status EXCEPT ![i] =
                  IF Exists(i) /\ ok THEN "EXPORTED" ELSE @]
  /\ exportInfo' = [exportInfo EXCEPT ![i] =
                  IF ~ Exists(i) THEN @ ELSE IF ok THEN "reference"
                  ELSE "error"]
  /\ xp' = [xp EXCEPT ![x] = Marked(xp[x], i, Exists(i) /\ ok)]
  /\ UNCHANGED <<parsed, version, approved, original>>

SaveRow(x) ==
  /\ xp[x].pc = "saving"
  /\ \E i \in xp[x].todo : MarkRow(x, i)
  /\ UNCHANGED <<files, clock>>

(***************************************************************************)
(* The update of a row fails.  saveBatch settles every promise and logs    *)
(* the error; an ordered bulkWrite stops at it and the error is logged.    *)
(* Either way the request answers with success.                            *)
(***************************************************************************)
SaveRowFails(x) ==
  /\ xp[x].pc = "saving"
  /\ \E i \in xp[x].todo :
       xp' = [xp EXCEPT ![x] =
                IF xp[x].mode = "post" THEN Marked(xp[x], i, FALSE)
                ELSE [@ EXCEPT !.todo = {}, !.pc = "done"]]
  /\ UNCHANGED <<rowVars, files, clock>>

(* putObject or the batch insert throws, or the process stops.             *)
Abort(x) ==
  /\ xp[x].pc \in {"issuing", "batching", "saving"}
  /\ xp' = [xp EXCEPT ![x] = [@ EXCEPT !.pc = "done", !.todo = {}]]
  /\ UNCHANGED <<rowVars, files, clock>>

ExportStep(x) ==
  \/ PostVoucher(x) \/ StoreFile(x) \/ CreateBatch(x)
  \/ SaveRow(x) \/ SaveRowFails(x)

ExportNext ==
  \/ Tick
  \/ \E x \in Export : Select(x) \/ ExportStep(x) \/ Abort(x)

==============================================================================

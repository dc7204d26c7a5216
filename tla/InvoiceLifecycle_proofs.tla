----------------------- MODULE InvoiceLifecycle_proofs -----------------------
(***************************************************************************)
(* Proofs about InvoiceLifecycle for any number of invoices, edits,        *)
(* exports and deletions and any fields.                                   *)
(***************************************************************************)
EXTENDS InvoiceLifecycle, TLAPS

(***************************************************************************)
(* Type correctness, component by component.                               *)
(***************************************************************************)
LEMMA OutcomeType ==
  ASSUME RowsTypeOK, NEW i \in Invoice, Outcome(i)
  PROVE  status' \in [Invoice -> Status] /\ parsed' \in [Invoice -> Parsed]
<1>1. CASE \E st \in Reviewed, g \in SUBSET Field :
             /\ Assessment(st, g)
             /\ status' = [status EXCEPT ![i] = st]
             /\ parsed' = [parsed EXCEPT ![i] = [gaps |-> g, edits |-> {}]]
  <2>1. PICK st \in Reviewed, g \in SUBSET Field :
             /\ status' = [status EXCEPT ![i] = st]
             /\ parsed' = [parsed EXCEPT ![i] = [gaps |-> g, edits |-> {}]]
    BY <1>1
  <2>2. st \in Status /\ [gaps |-> g, edits |-> {}] \in Parsed
    BY DEF Status, Parsed
  <2>3. QED
    BY <2>1, <2>2 DEF RowsTypeOK
<1>2. CASE \E st \in Failed : /\ status' = [status EXCEPT ![i] = st]
                              /\ UNCHANGED parsed
  BY <1>2 DEF RowsTypeOK, Status
<1>3. QED
  BY <1>1, <1>2 DEF Outcome

LEMMA RowsType ==
  ASSUME RowsTypeOK, RowsNext
  PROVE  RowsTypeOK'
<1>1. PICK i \in Invoice :
        Upload(i) \/ Ingest(i) \/ Reprocess(i) \/ Approve(i) \/ Retry(i)
  BY DEF RowsNext
<1> USE DEF RowsTypeOK, Status, Absent, Reviewed, Failed, Approvable
<1>2. CASE Upload(i)
  BY <1>2 DEF Upload
<1>3. CASE Ingest(i)
  BY <1>3, OutcomeType DEF Ingest
<1>4. CASE Reprocess(i)
  BY <1>4, OutcomeType DEF Reprocess
<1>5. CASE Approve(i)
  BY <1>5 DEF Approve
<1>6. CASE Retry(i)
  BY <1>6 DEF Retry
<1>7. QED
  BY <1>1, <1>2, <1>3, <1>4, <1>5, <1>6

LEMMA ClosedType ==
  ASSUME NEW pc \in {"idle", "saved", "refused"}, NEW i \in Invoice,
         NEW r \in BOOLEAN, NEW m \in BOOLEAN
  PROVE  Closed(pc, i, r, m) \in EditRecord
BY DEF Closed, EditRecord, Unparsed, Parsed, Status, Absent

(* A save writes the status and the fields that some values of the request *)
(* give; the fields may stay unwritten when the values were there already. *)
LEMMA SaveWrites ==
  ASSUME NEW e \in Edit, Save(e)
  PROVE  \E set \in SUBSET Field, bad \in SUBSET Field, w \in BOOLEAN :
           /\ w \/ NextParsed(e, set, bad).gaps = edit[e].parsed.gaps
           /\ SaveWith(e, EditedStatus(e, set, bad), NextParsed(e, set, bad), w)
<1>1. PICK set \in SUBSET Field : \E bad \in SUBSET set :
        \E w \in {TRUE, NextParsed(e, set, bad).gaps # edit[e].parsed.gaps} :
          SaveWith(e, EditedStatus(e, set, bad), NextParsed(e, set, bad), w)
  BY DEF Save
<1>2. PICK bad \in SUBSET set :
        \E w \in {TRUE, NextParsed(e, set, bad).gaps # edit[e].parsed.gaps} :
          SaveWith(e, EditedStatus(e, set, bad), NextParsed(e, set, bad), w)
  BY <1>1
<1>3. bad \in SUBSET Field
  OBVIOUS
<1>4. QED
  BY <1>2, <1>3

LEMMA EditType ==
  ASSUME RowsTypeOK, ReviewTypeOK, NEW e \in Edit,
         Load(e) \/ Save(e) \/ SaveConflict(e)
  PROVE  RowsTypeOK' /\ ReviewTypeOK'
<1> DEFINE i == edit[e].inv
<1>0. i \in Invoice /\ edit[e] \in EditRecord
  BY DEF ReviewTypeOK, EditRecord
<1>1. CASE Load(e)
  <2>1. RowsTypeOK'
    BY <1>1 DEF Load, RowsTypeOK, rowVars
  <2>2. deletion' = deletion
    BY <1>1 DEF Load
  <2>3. CASE Exists(i) /\ status[i] # "EXPORTED"
    <3> DEFINE r == [edit[e] EXCEPT !.pc = "loaded", !.status = status[i],
                              !.parsed = parsed[i], !.version = version[i]]
    <3>1. edit' = [edit EXCEPT ![e] = r]
      BY <1>1, <2>3 DEF Load
    <3>2. r \in EditRecord
      BY <1>0 DEF RowsTypeOK, EditRecord
    <3>3. QED
      BY <2>1, <2>2, <3>1, <3>2 DEF ReviewTypeOK
  <2>4. CASE ~ (Exists(i) /\ status[i] # "EXPORTED")
    <3>1. edit' = [edit EXCEPT ![e] = Closed("refused", i, FALSE, FALSE)]
      BY <1>1, <2>4 DEF Load
    <3>2. QED
      BY <1>0, <2>1, <2>2, <3>1, ClosedType DEF ReviewTypeOK
  <2>5. QED
    BY <2>3, <2>4
<1>2. CASE Save(e)
  <2>2. PICK set \in SUBSET Field, bad \in SUBSET Field, w \in BOOLEAN :
          SaveWith(e, EditedStatus(e, set, bad), NextParsed(e, set, bad), w)
    BY <1>2, SaveWrites
  <2>3. EditedStatus(e, set, bad) \in Status
    BY DEF EditedStatus, Status, Reviewed
  <2>4. status' \in [Invoice -> Status]
    BY <1>0, <2>2, <2>3 DEF SaveWith, RowsTypeOK
  <2>5. parsed' \in [Invoice -> Parsed]
    <3>1. NextParsed(e, set, bad) \in Parsed
      BY <1>0 DEF NextParsed, Edited, EditRecord, Parsed
    <3>2. QED
      BY <1>0, <2>2, <3>1 DEF SaveWith, RowsTypeOK
  <2>6. version' \in [Invoice -> Nat] /\ UNCHANGED <<approved, exportInfo, original, deletion>>
    BY <1>0, <1>2 DEF Save, RowsTypeOK
  <2>7. edit' \in [Edit -> EditRecord]
    <3>1. \A r \in BOOLEAN, m \in BOOLEAN : Closed("saved", i, r, m) \in EditRecord
      BY <1>0, ClosedType
    <3>2. PICK r \in BOOLEAN, m \in BOOLEAN :
            edit' = [edit EXCEPT ![e] = Closed("saved", i, r, m)]
      BY <2>2 DEF SaveWith
    <3>3. QED
      BY <3>1, <3>2 DEF ReviewTypeOK
  <2>8. QED
    BY <2>4, <2>5, <2>6, <2>7 DEF RowsTypeOK, ReviewTypeOK
<1>3. CASE SaveConflict(e)
  <2>1. /\ edit' = [edit EXCEPT ![e] = Closed("refused", i, FALSE, FALSE)]
        /\ UNCHANGED <<rowVars, deletion>>
    BY <1>3 DEF SaveConflict
  <2>2. QED
    BY <1>0, <2>1, ClosedType DEF ReviewTypeOK, RowsTypeOK, rowVars
<1>4. QED
  BY <1>1, <1>2, <1>3

LEMMA DeletionType ==
  ASSUME RowsTypeOK, ReviewTypeOK, NEW d \in Deletion,
         FindKeys(d) \/ DeleteRow(d) \/ DeleteObject(d)
  PROVE  RowsTypeOK' /\ ReviewTypeOK'
<1>0. deletion[d].inv \in Invoice
  BY DEF ReviewTypeOK, DeletionRecord
<1>1. CASE FindKeys(d)
  BY <1>0, <1>1 DEF FindKeys, RowsTypeOK, ReviewTypeOK, DeletionRecord, rowVars,
                    Deletable, Exists
<1>2. CASE DeleteRow(d)
  BY <1>0, <1>2 DEF DeleteRow, RowsTypeOK, ReviewTypeOK, DeletionRecord, Status,
                    Absent
<1>3. CASE DeleteObject(d)
  BY <1>0, <1>3 DEF DeleteObject, RowsTypeOK, ReviewTypeOK, DeletionRecord
<1>4. QED
  BY <1>1, <1>2, <1>3

LEMMA ExportType ==
  ASSUME RowsTypeOK, ExportTypeOK, NEW x \in Export,
         Select(x) \/ ExportStep(x) \/ Abort(x)
  PROVE  RowsTypeOK' /\ ExportTypeOK'
<1> DEFINE Becomes(r) == xp' = [xp EXCEPT ![x] = r]
<1>0. xp[x] \in ExportRecord
  BY DEF ExportTypeOK
<1>a. ASSUME NEW r \in ExportRecord, Becomes(r)
      PROVE  xp' \in [Export -> ExportRecord]
  BY <1>a DEF ExportTypeOK
<1>b. ASSUME UNCHANGED <<rowVars, files, clock>>
      PROVE  /\ RowsTypeOK'
             /\ (files \in [Second -> Export \cup {NoExport}])'
             /\ (clock \in Second)'
  BY <1>b DEF RowsTypeOK, rowVars, ExportTypeOK
<1>c. ASSUME NEW r \in ExportRecord, NEW i \in Invoice, NEW b \in BOOLEAN
      PROVE  Marked(r, i, b) \in ExportRecord
  BY DEF Marked, ExportRecord
<1>1. CASE Select(x)
  <2>1. PICK ids \in SUBSET Invoice, m \in {"post", "file"} :
          LET sel == {i \in ids : Selectable(i)} IN
          Becomes([xp[x] EXCEPT !.pc = IF sel = {} THEN "done" ELSE "issuing",
                                !.mode = m, !.todo = sel, !.sel = sel,
                                !.priced = Priced(sel)])
    BY <1>1 DEF Select
  <2> DEFINE sel == {i \in ids : Selectable(i)}
  <2>2. sel \in SUBSET Invoice /\ Priced(sel) \in SUBSET Invoice
    BY DEF Priced
  <2> HIDE DEF sel
  <2>3. [xp[x] EXCEPT !.pc = IF sel = {} THEN "done" ELSE "issuing",
                      !.mode = m, !.todo = sel, !.sel = sel,
                      !.priced = Priced(sel)] \in ExportRecord
    BY <1>0, <2>2 DEF ExportRecord
  <2>4. QED
    BY <1>1, <1>a, <1>b, <2>1, <2>3 DEF Select, ExportTypeOK, sel
<1>2. CASE PostVoucher(x)
  <2>1. PICK i \in xp[x].todo, created \in BOOLEAN, answered \in BOOLEAN :
          Becomes(Posted(xp[x], i, created, answered))
    BY <1>2 DEF PostVoucher
  <2>2. Posted(xp[x], i, created, answered) \in ExportRecord
    BY <1>0 DEF ExportRecord, Posted
  <2>3. QED
    BY <1>2, <1>a, <1>b, <2>1, <2>2 DEF PostVoucher, ExportTypeOK
<1>3. CASE StoreFile(x)
  <2>1. Becomes([xp[x] EXCEPT !.pc = "batching", !.todo = {}, !.second = clock,
                              !.issued = xp[x].priced, !.ok = xp[x].priced])
    BY <1>3 DEF StoreFile
  <2>2. [xp[x] EXCEPT !.pc = "batching", !.todo = {}, !.second = clock,
                      !.issued = xp[x].priced, !.ok = xp[x].priced]
          \in ExportRecord
    BY <1>0 DEF ExportRecord, ExportTypeOK
  <2>3. /\ (files \in [Second -> Export \cup {NoExport}])'
        /\ (clock \in Second)' /\ RowsTypeOK'
    BY <1>3 DEF StoreFile, RowsTypeOK, rowVars, ExportTypeOK
  <2>4. QED
    BY <1>a, <2>1, <2>2, <2>3 DEF ExportTypeOK
<1>4. CASE CreateBatch(x)
  <2> DEFINE todo == IF xp[x].mode = "post" THEN xp[x].sel ELSE xp[x].ok
  <2>1. Becomes([xp[x] EXCEPT !.batch = TRUE, !.todo = todo,
                              !.pc = IF todo = {} THEN "done" ELSE "saving"])
    BY <1>4 DEF CreateBatch
  <2>2. todo \in SUBSET Invoice
    BY <1>0 DEF ExportRecord
  <2>3. [xp[x] EXCEPT !.batch = TRUE, !.todo = todo,
                      !.pc = IF todo = {} THEN "done" ELSE "saving"]
          \in ExportRecord
    BY <1>0, <2>2 DEF ExportRecord
  <2>4. QED
    BY <1>4, <1>a, <1>b, <2>1, <2>3 DEF CreateBatch, ExportTypeOK
<1>5. CASE SaveRow(x)
  <2>1. PICK i \in xp[x].todo : MarkRow(x, i)
    BY <1>5 DEF SaveRow
  <2>2. i \in Invoice
    BY <1>0, <2>1 DEF ExportRecord
  <2>3. status' \in [Invoice -> Status]
    BY <2>1, <2>2 DEF MarkRow, RowsTypeOK, Status
  <2>4. exportInfo' \in [Invoice -> ExportInfo]
    <3> DEFINE new == IF ~ Exists(i) THEN exportInfo[i]
                      ELSE IF i \in xp[x].ok THEN "reference" ELSE "error"
    <3>1. exportInfo' = [exportInfo EXCEPT ![i] = new]
      BY <2>1 DEF MarkRow
    <3>2. new \in ExportInfo
      BY <2>2 DEF RowsTypeOK, ExportInfo
    <3>3. QED
      BY <3>1, <3>2 DEF RowsTypeOK
  <2>5. RowsTypeOK'
    BY <2>1, <2>3, <2>4 DEF MarkRow, RowsTypeOK
  <2>6. PICK exported \in BOOLEAN : Becomes(Marked(xp[x], i, exported))
    BY <2>1 DEF MarkRow
  <2>7. Marked(xp[x], i, exported) \in ExportRecord
    BY <1>0, <1>c, <2>2
  <2>8. UNCHANGED <<files, clock>>
    BY <1>5 DEF SaveRow
  <2>9. QED
    BY <1>a, <2>5, <2>6, <2>7, <2>8 DEF ExportTypeOK
<1>6. CASE SaveRowFails(x)
  <2>1. PICK i \in xp[x].todo :
          Becomes(IF xp[x].mode = "post" THEN Marked(xp[x], i, FALSE)
                  ELSE [xp[x] EXCEPT !.todo = {}, !.pc = "done"])
    BY <1>6 DEF SaveRowFails
  <2>2. i \in Invoice
    BY <1>0, <2>1 DEF ExportRecord
  <2>3. [xp[x] EXCEPT !.todo = {}, !.pc = "done"] \in ExportRecord
    BY <1>0 DEF ExportRecord
  <2>4. Marked(xp[x], i, FALSE) \in ExportRecord
    BY <1>0, <1>c, <2>2
  <2>5. QED
    BY <1>6, <1>a, <1>b, <2>1, <2>3, <2>4 DEF SaveRowFails, ExportTypeOK
<1>7. CASE Abort(x)
  <2>1. [xp[x] EXCEPT !.pc = "done", !.todo = {}] \in ExportRecord
    BY <1>0 DEF ExportRecord
  <2>2. QED
    BY <1>7, <1>a, <1>b, <2>1 DEF Abort, ExportTypeOK
<1>8. QED
  BY <1>1, <1>2, <1>3, <1>4, <1>5, <1>6, <1>7 DEF ExportStep

LEMMA InitType == Init => TypeOK
<1>1. RowsInit => RowsTypeOK
  BY DEF RowsInit, RowsTypeOK, Status, Absent, Parsed, Unparsed, ExportInfo
<1>2. ReviewInit => ReviewTypeOK
  <2> SUFFICES ASSUME ReviewInit PROVE ReviewTypeOK
    OBVIOUS
  <2>1. edit \in [Edit -> EditRecord]
    BY ClosedType DEF ReviewInit
  <2>2. deletion \in [Deletion -> DeletionRecord]
    BY DEF ReviewInit, DeletionRecord
  <2>3. QED
    BY <2>1, <2>2 DEF ReviewTypeOK
<1>3. ExportInit => ExportTypeOK
  BY MaxSecondAssumption DEF ExportInit, ExportTypeOK, ExportRecord, Second
<1>4. QED
  BY <1>1, <1>2, <1>3 DEF Init, TypeOK

LEMMA NextType == TypeOK /\ [Next]_vars => TypeOK'
<1> SUFFICES ASSUME TypeOK, [Next]_vars
             PROVE  TypeOK'
  OBVIOUS
<1> USE DEF TypeOK
<1>1. CASE RowsNext /\ UNCHANGED <<reviewVars, exportVars>>
  BY <1>1, RowsType DEF reviewVars, exportVars, ReviewTypeOK, ExportTypeOK
<1>2. CASE ReviewNext /\ UNCHANGED exportVars
  <2>1. ExportTypeOK'
    BY <1>2 DEF exportVars, ExportTypeOK
  <2>2. QED
    BY <1>2, <2>1, EditType, DeletionType DEF ReviewNext
<1>3. CASE ExportNext /\ UNCHANGED reviewVars
  <2>1. ReviewTypeOK'
    BY <1>3 DEF reviewVars, ReviewTypeOK
  <2>2. CASE Tick
    BY <2>1, <2>2, MaxSecondAssumption
       DEF Tick, Second, RowsTypeOK, ExportTypeOK, rowVars
  <2>3. QED
    BY <1>3, <2>1, <2>2, ExportType DEF ExportNext
<1>4. CASE UNCHANGED vars
  BY <1>4 DEF vars, rowVars, reviewVars, exportVars, RowsTypeOK, ReviewTypeOK,
              ExportTypeOK
<1>5. QED
  BY <1>1, <1>2, <1>3, <1>4 DEF Next

(***************************************************************************)
(* Every reachable state of the lifecycle is well typed, for any number of *)
(* invoices, edits, exports and deletions.                                 *)
(***************************************************************************)
THEOREM TypeCorrect == Spec => []TypeOK
BY InitType, NextType, PTL DEF Spec

(***************************************************************************)
(* The inductive invariant.  ExportedIsBacked and IssuedWasApproved say    *)
(* nothing of a request between its selection and its last update, and so  *)
(* are not inductive: RequestInv says what a request carries along.        *)
(***************************************************************************)
ApprovalInv ==
  \A i \in Invoice : status[i] \in {"APPROVED", "EXPORTED"} => approved[i]

Carries(r) ==
  /\ \A i \in r.sel : approved[i]
  /\ r.priced \subseteq r.sel
  /\ r.todo \subseteq r.sel
  /\ r.issued \subseteq r.priced
  /\ r.ok \subseteq r.issued
  /\ r.saved \subseteq r.ok
  /\ r.pc = "idle" => r.issued = {}
  /\ r.pc \in {"idle", "issuing", "batching"} => r.saved = {}
  /\ r.pc = "saving" \/ r.saved # {} => r.batch

RequestInv == \A x \in Export : Carries(xp[x])

ExportedInv ==
  \A i \in Invoice : status[i] = "EXPORTED" =>
    \E x \in Export : i \in xp[x].saved

IInv == ApprovalInv /\ RequestInv /\ ExportedInv /\ RecordedStaysExported

(***************************************************************************)
(* A step that leaves the export requests alone keeps the invariant if it  *)
(* keeps approvals and reopenings on record, approves on record, and takes *)
(* a row out of EXPORTED only by reopening it.                             *)
(***************************************************************************)
LEMMA QuietStep ==
  ASSUME TypeOK, IInv, UNCHANGED xp,
         \A i \in Invoice : approved[i] => approved'[i],
         \A i \in Invoice : Reopened(i) => Reopened(i)',
         \A i \in Invoice : status'[i] # status[i] =>
           /\ status'[i] # "EXPORTED"
           /\ status'[i] = "APPROVED" => approved'[i]
           /\ status[i] = "EXPORTED" => Reopened(i)'
  PROVE  IInv'
<1> USE DEF IInv
<1>1. ApprovalInv'
  BY DEF ApprovalInv
<1>2. RequestInv'
  <2>1. \A x \in Export : \A i \in xp[x].sel : i \in Invoice
    BY DEF TypeOK, ExportTypeOK, ExportRecord
  <2>2. QED
    BY <2>1 DEF RequestInv, Carries
<1>3. ExportedInv'
  BY DEF ExportedInv
<1>4. RecordedStaysExported'
  BY DEF RecordedStaysExported
<1>5. QED
  BY <1>1, <1>2, <1>3, <1>4

LEMMA RowsKeepIInv ==
  ASSUME TypeOK, IInv, RowsNext, UNCHANGED <<reviewVars, exportVars>>
  PROVE  IInv'
<1>1. PICK i \in Invoice :
        Upload(i) \/ Ingest(i) \/ Reprocess(i) \/ Approve(i) \/ Retry(i)
  BY DEF RowsNext
<1>2. UNCHANGED xp /\ \A j \in Invoice : Reopened(j) => Reopened(j)'
  BY DEF reviewVars, exportVars, Reopened
<1>3. status[i] # "EXPORTED"
  BY <1>1 DEF Upload, Ingest, Reprocess, Approve, Retry, Approvable
<1>4. \E st \in Status \ {"EXPORTED"} :
        /\ status' = [status EXCEPT ![i] = st]
        /\ st = "APPROVED" => approved'[i]
  <2>1. CASE Upload(i) \/ Retry(i)
    BY <2>1 DEF Upload, Retry, Status
  <2>2. CASE Ingest(i) \/ Reprocess(i)
    BY <2>2 DEF Ingest, Reprocess, Outcome, Status, Reviewed, Failed
  <2>3. CASE Approve(i)
    BY <2>3 DEF Approve, Status, TypeOK, RowsTypeOK
  <2>4. QED
    BY <1>1, <2>1, <2>2, <2>3
<1>5. \A j \in Invoice : approved[j] => approved'[j]
  BY <1>1 DEF Upload, Ingest, Reprocess, Approve, Retry, TypeOK, RowsTypeOK
<1>6. \A j \in Invoice : status'[j] # status[j] =>
        /\ status'[j] # "EXPORTED"
        /\ status'[j] = "APPROVED" => approved'[j]
        /\ status[j] = "EXPORTED" => Reopened(j)'
  BY <1>3, <1>4 DEF TypeOK, RowsTypeOK
<1>7. QED
  BY <1>2, <1>5, <1>6, QuietStep

(* What the two halves of a PATCH do to the rows and to the other edits.   *)
LEMMA EditEffect ==
  ASSUME TypeOK, NEW e \in Edit, Load(e) \/ Save(e) \/ SaveConflict(e)
  PROVE  /\ UNCHANGED <<approved, original, deletion>>
         /\ \A f \in Edit : f # e => edit'[f] = edit[f]
         /\ edit[e].pc \in {"idle", "loaded"}
         /\ edit'[e].inv = edit[e].inv
         /\ \A j \in Invoice : status'[j] # status[j] =>
              /\ j = edit[e].inv
              /\ status[j] \notin Absent
              /\ status'[j] \in Reviewed
              /\ status[j] = "EXPORTED" =>
                   edit'[e].pc = "saved" /\ edit'[e].reopened
<1> DEFINE i == edit[e].inv
<1>0. edit \in [Edit -> EditRecord] /\ status \in [Invoice -> Status]
  BY DEF TypeOK, ReviewTypeOK, RowsTypeOK
<1>1. CASE Load(e)
  <2>1. \E r : edit' = [edit EXCEPT ![e] = r] /\ r.inv = i
    <3>1. CASE Exists(i) /\ status[i] # "EXPORTED"
      <4> DEFINE r == [edit[e] EXCEPT !.pc = "loaded", !.status = status[i],
                                !.parsed = parsed[i], !.version = version[i]]
      <4>1. edit' = [edit EXCEPT ![e] = r]
        BY <1>1, <3>1 DEF Load
      <4>2. r.inv = i
        BY <1>0 DEF EditRecord
      <4>3. QED
        BY <4>1, <4>2
    <3>2. CASE ~ (Exists(i) /\ status[i] # "EXPORTED")
      BY <1>1, <3>2 DEF Load, Closed
    <3>3. QED
      BY <3>1, <3>2
  <2>2. edit[e].pc = "idle" /\ UNCHANGED <<rowVars, deletion>>
    BY <1>1 DEF Load
  <2>3. QED
    BY <1>0, <2>1, <2>2 DEF rowVars
<1>2. CASE Save(e)
  <2>1. PICK set \in SUBSET Field, bad \in SUBSET Field, w \in BOOLEAN :
          SaveWith(e, EditedStatus(e, set, bad), NextParsed(e, set, bad), w)
    BY <1>2, SaveWrites
  <2>2. /\ edit[e].pc = "loaded"
        /\ Exists(i)
        /\ UNCHANGED <<approved, original, deletion>>
    BY <1>2 DEF Save
  <2>3. EditedStatus(e, set, bad) # edit[e].status =>
          EditedStatus(e, set, bad) \in Reviewed
    BY DEF EditedStatus, Reviewed
  <2>4. /\ edit'[e].inv = i
        /\ edit'[e].pc = "saved"
        /\ edit'[e].reopened <=> /\ EditedStatus(e, set, bad) # edit[e].status
                                /\ status[i] = "EXPORTED"
        /\ \A f \in Edit : f # e => edit'[f] = edit[f]
    BY <1>0, <2>1 DEF SaveWith, Closed
  <2>5. \A j \in Invoice : status'[j] # status[j] =>
          /\ j = i
          /\ EditedStatus(e, set, bad) # edit[e].status
          /\ status'[j] = EditedStatus(e, set, bad)
    BY <1>0, <2>1 DEF SaveWith
  <2>6. QED
    BY <2>2, <2>3, <2>4, <2>5 DEF Exists
<1>3. CASE SaveConflict(e)
  <2>1. /\ edit[e].pc = "loaded" /\ UNCHANGED <<rowVars, deletion>>
        /\ edit' = [edit EXCEPT ![e] = Closed("refused", i, FALSE, FALSE)]
    BY <1>3 DEF SaveConflict
  <2>2. QED
    BY <1>0, <2>1 DEF rowVars, Closed
<1>4. QED
  BY <1>1, <1>2, <1>3

LEMMA ReviewKeepsIInv ==
  ASSUME TypeOK, IInv, ReviewNext, UNCHANGED exportVars
  PROVE  IInv'
<1>0. UNCHANGED xp
  BY DEF exportVars
<1>1. ASSUME NEW e \in Edit, Load(e) \/ Save(e) \/ SaveConflict(e)
      PROVE  IInv'
  <2>1. UNCHANGED approved
    BY <1>1, EditEffect
  <2>2. \A j \in Invoice : Reopened(j) => Reopened(j)'
    <3> SUFFICES ASSUME NEW j \in Invoice, NEW f \in Edit,
                        edit[f].inv = j, edit[f].pc = "saved", edit[f].reopened
                 PROVE  Reopened(j)'
      BY DEF Reopened
    <3>1. f # e
      BY <1>1, EditEffect
    <3>2. edit'[f] = edit[f]
      BY <1>1, <3>1, EditEffect
    <3>3. QED
      BY <3>2 DEF Reopened
  <2>3. \A j \in Invoice : status'[j] # status[j] =>
          /\ status'[j] # "EXPORTED"
          /\ status'[j] = "APPROVED" => approved'[j]
          /\ status[j] = "EXPORTED" => Reopened(j)'
    <3> SUFFICES ASSUME NEW j \in Invoice, status'[j] # status[j]
                 PROVE  /\ status'[j] # "EXPORTED"
                        /\ status'[j] # "APPROVED"
                        /\ status[j] = "EXPORTED" => Reopened(j)'
      OBVIOUS
    <3>1. /\ j = edit'[e].inv
          /\ status'[j] \in Reviewed
          /\ status[j] = "EXPORTED" =>
               edit'[e].pc = "saved" /\ edit'[e].reopened
      BY <1>1, EditEffect
    <3>2. QED
      BY <3>1 DEF Reviewed, Reopened
  <2>4. QED
    BY <1>0, <2>1, <2>2, <2>3, QuietStep
<1>2. ASSUME NEW d \in Deletion, FindKeys(d) \/ DeleteRow(d) \/ DeleteObject(d)
      PROVE  IInv'
  <2>1. /\ UNCHANGED <<approved, edit>>
        /\ \A j \in Invoice : status'[j] # status[j] =>
             status'[j] = "DELETED" /\ status[j] # "EXPORTED"
    BY <1>2 DEF FindKeys, DeleteRow, DeleteObject, rowVars, Deletable,
                TypeOK, RowsTypeOK
  <2>2. \A j \in Invoice : Reopened(j) => Reopened(j)'
    BY <2>1 DEF Reopened
  <2>3. QED
    BY <1>0, <2>1, <2>2, QuietStep
<1>3. QED
  BY <1>1, <1>2 DEF ReviewNext

(***************************************************************************)
(* A step of export request x keeps the invariant if the new record still  *)
(* carries what it must and has forgotten no row it marked, and the only   *)
(* rows to change status are the ones it marks now.                        *)
(***************************************************************************)
LEMMA RequestStep ==
  ASSUME TypeOK, IInv, NEW x \in Export, UNCHANGED <<approved, edit>>,
         NEW r, xp' = [xp EXCEPT ![x] = r], Carries(r),
         xp[x].saved \subseteq r.saved,
         \A j \in r.saved : j \in xp[x].saved \/ status'[j] = "EXPORTED",
         \A j \in Invoice : status'[j] # status[j] =>
           status'[j] = "EXPORTED" /\ j \in r.saved
  PROVE  IInv'
<1> USE DEF IInv
<1>0. xp'[x] = r /\ \A y \in Export : y # x => xp'[y] = xp[y]
  BY DEF TypeOK, ExportTypeOK
<1>1. ApprovalInv'
  BY DEF ApprovalInv, Carries
<1>2. RequestInv'
  <2>1. \A s : Carries(s) => Carries(s)'
    BY DEF Carries
  <2>2. QED
    BY <1>0, <2>1 DEF RequestInv
<1>3. ExportedInv'
  BY <1>0 DEF ExportedInv
<1>4. RecordedStaysExported'
  BY <1>0 DEF RecordedStaysExported, Reopened
<1>5. QED
  BY <1>1, <1>2, <1>3, <1>4

LEMMA ExportKeepsIInv ==
  ASSUME TypeOK, IInv, ExportNext, UNCHANGED reviewVars
  PROVE  IInv'
<1>0. UNCHANGED edit
  BY DEF reviewVars
<1>1. ASSUME NEW x \in Export, Select(x)
      PROVE  IInv'
  <2>0. xp[x] \in ExportRecord /\ Carries(xp[x])
    BY DEF TypeOK, ExportTypeOK, IInv, RequestInv
  <2>1. PICK sel \in SUBSET Invoice, m \in {"post", "file"} :
          /\ \A i \in sel : Selectable(i)
          /\ xp' = [xp EXCEPT ![x] =
                      [xp[x] EXCEPT !.pc = IF sel = {} THEN "done" ELSE "issuing",
                                    !.mode = m, !.todo = sel, !.sel = sel,
                                    !.priced = Priced(sel)]]
    BY <1>1 DEF Select
  <2> DEFINE r == [xp[x] EXCEPT !.pc = IF sel = {} THEN "done" ELSE "issuing",
                                !.mode = m, !.todo = sel, !.sel = sel,
                                !.priced = Priced(sel)]
  <2>2. /\ r.sel = sel /\ r.todo = sel /\ r.priced = Priced(sel)
        /\ r.issued = xp[x].issued /\ r.ok = xp[x].ok
        /\ r.saved = xp[x].saved /\ r.pc \in {"done", "issuing"}
    BY <2>0 DEF ExportRecord
  <2>3. xp[x].issued = {}
    BY <1>1, <2>0 DEF Select, Carries
  <2>4. \A i \in sel : approved[i]
    BY <2>1 DEF Selectable, IInv, ApprovalInv
  <2>5. Carries(r)
    BY <2>0, <2>2, <2>3, <2>4 DEF Carries, Priced
  <2>6. UNCHANGED <<status, approved>>
    BY <1>1 DEF Select, rowVars
  <2>7. QED
    BY <1>0, <2>1, <2>2, <2>5, <2>6, RequestStep
<1>2. ASSUME NEW x \in Export, PostVoucher(x)
      PROVE  IInv'
  <2>0. xp[x] \in ExportRecord /\ Carries(xp[x])
    BY DEF TypeOK, ExportTypeOK, IInv, RequestInv
  <2>1. PICK i \in xp[x].todo, created \in BOOLEAN, answered \in BOOLEAN :
          /\ created => i \in xp[x].priced
          /\ answered => created
          /\ xp' = [xp EXCEPT ![x] = Posted(xp[x], i, created, answered)]
    BY <1>2 DEF PostVoucher
  <2> DEFINE r == Posted(xp[x], i, created, answered)
  <2>2. /\ r.sel = xp[x].sel /\ r.priced = xp[x].priced
        /\ r.todo \subseteq xp[x].todo
        /\ r.issued = IF created THEN xp[x].issued \cup {i} ELSE xp[x].issued
        /\ r.ok = IF answered THEN xp[x].ok \cup {i} ELSE xp[x].ok
        /\ r.saved = xp[x].saved /\ r.batch = xp[x].batch
        /\ r.pc \in {"batching", xp[x].pc}
    BY <2>0 DEF Posted, ExportRecord
  <2>3. xp[x].pc = "issuing" /\ UNCHANGED <<status, approved>>
    BY <1>2 DEF PostVoucher, rowVars
  <2>4. Carries(r)
    BY <2>0, <2>1, <2>2, <2>3 DEF Carries
  <2>5. QED
    BY <1>0, <2>1, <2>2, <2>3, <2>4, RequestStep
<1>3. ASSUME NEW x \in Export, StoreFile(x)
      PROVE  IInv'
  <2>0. xp[x] \in ExportRecord /\ Carries(xp[x])
    BY DEF TypeOK, ExportTypeOK, IInv, RequestInv
  <2> DEFINE r == [xp[x] EXCEPT !.pc = "batching", !.todo = {},
                                !.second = clock, !.issued = xp[x].priced,
                                !.ok = xp[x].priced]
  <2>1. xp' = [xp EXCEPT ![x] = r] /\ UNCHANGED <<status, approved>>
    BY <1>3 DEF StoreFile, rowVars
  <2>2. /\ r.sel = xp[x].sel /\ r.priced = xp[x].priced /\ r.todo = {}
        /\ r.issued = xp[x].priced /\ r.ok = xp[x].priced
        /\ r.saved = xp[x].saved /\ r.batch = xp[x].batch
        /\ r.pc = "batching"
    BY <2>0 DEF ExportRecord
  <2>3. xp[x].saved = {}
    BY <1>3, <2>0 DEF StoreFile, Carries
  <2>4. Carries(r)
    BY <2>0, <2>2, <2>3 DEF Carries
  <2>5. QED
    BY <1>0, <2>1, <2>2, <2>4, RequestStep
<1>4. ASSUME NEW x \in Export, CreateBatch(x)
      PROVE  IInv'
  <2>0. xp[x] \in ExportRecord /\ Carries(xp[x])
    BY DEF TypeOK, ExportTypeOK, IInv, RequestInv
  <2> DEFINE todo == IF xp[x].mode = "post" THEN xp[x].sel ELSE xp[x].ok
             r == [xp[x] EXCEPT !.batch = TRUE, !.todo = todo,
                                !.pc = IF todo = {} THEN "done" ELSE "saving"]
  <2>1. xp' = [xp EXCEPT ![x] = r] /\ UNCHANGED <<status, approved>>
    BY <1>4 DEF CreateBatch, rowVars
  <2>2. /\ r.sel = xp[x].sel /\ r.priced = xp[x].priced /\ r.todo = todo
        /\ r.issued = xp[x].issued /\ r.ok = xp[x].ok
        /\ r.saved = xp[x].saved /\ r.batch
        /\ r.pc \in {"done", "saving"}
    BY <2>0 DEF ExportRecord
  <2>3. Carries(r)
    BY <2>0, <2>2 DEF Carries
  <2>4. QED
    BY <1>0, <2>1, <2>2, <2>3, RequestStep
<1>5. ASSUME NEW x \in Export, SaveRow(x)
      PROVE  IInv'
  <2>0. xp[x] \in ExportRecord /\ Carries(xp[x])
    BY DEF TypeOK, ExportTypeOK, IInv, RequestInv
  <2>1. PICK i \in xp[x].todo : MarkRow(x, i)
    BY <1>5 DEF SaveRow
  <2>2. i \in Invoice /\ i \in xp[x].sel
    BY <2>0 DEF Carries, ExportRecord
  <2> DEFINE exported == Exists(i) /\ i \in xp[x].ok
             r == Marked(xp[x], i, exported)
  <2>3. /\ xp' = [xp EXCEPT ![x] = r]
        /\ UNCHANGED approved
        /\ status' = [status EXCEPT ![i] = IF exported THEN "EXPORTED" ELSE @]
    BY <2>1 DEF MarkRow
  <2>4. /\ r.sel = xp[x].sel /\ r.priced = xp[x].priced
        /\ r.todo \subseteq xp[x].todo
        /\ r.issued = xp[x].issued /\ r.ok = xp[x].ok
        /\ r.saved = IF exported THEN xp[x].saved \cup {i} ELSE xp[x].saved
        /\ r.batch = xp[x].batch
        /\ r.pc \in {"done", xp[x].pc}
    BY <2>0 DEF Marked, ExportRecord
  <2>5. xp[x].pc = "saving"
    BY <1>5 DEF SaveRow
  <2>6. Carries(r)
    BY <2>0, <2>4, <2>5 DEF Carries
  <2>7. /\ exported => status'[i] = "EXPORTED"
        /\ \A j \in Invoice : status'[j] # status[j] => j = i /\ exported
    BY <2>2, <2>3 DEF TypeOK, RowsTypeOK
  <2>8. \A j \in r.saved : j \in xp[x].saved \/ status'[j] = "EXPORTED"
    BY <2>4, <2>7
  <2>9. \A j \in Invoice : status'[j] # status[j] =>
          status'[j] = "EXPORTED" /\ j \in r.saved
    BY <2>4, <2>7
  <2>10. xp[x].saved \subseteq r.saved
    BY <2>4
  <2> HIDE DEF r, exported
  <2>11. QED
    BY <1>0, <2>3, <2>6, <2>8, <2>9, <2>10, RequestStep
<1>6. ASSUME NEW x \in Export, SaveRowFails(x)
      PROVE  IInv'
  <2>0. xp[x] \in ExportRecord /\ Carries(xp[x])
    BY DEF TypeOK, ExportTypeOK, IInv, RequestInv
  <2>1. PICK i \in xp[x].todo :
          xp' = [xp EXCEPT ![x] =
                   IF xp[x].mode = "post" THEN Marked(xp[x], i, FALSE)
                   ELSE [xp[x] EXCEPT !.todo = {}, !.pc = "done"]]
    BY <1>6 DEF SaveRowFails
  <2> DEFINE r == IF xp[x].mode = "post" THEN Marked(xp[x], i, FALSE)
                  ELSE [xp[x] EXCEPT !.todo = {}, !.pc = "done"]
  <2>2. /\ r.sel = xp[x].sel /\ r.priced = xp[x].priced
        /\ r.todo \subseteq xp[x].todo
        /\ r.issued = xp[x].issued /\ r.ok = xp[x].ok
        /\ r.saved = xp[x].saved /\ r.batch = xp[x].batch
        /\ r.pc \in {"done", xp[x].pc}
    BY <2>0 DEF Marked, ExportRecord
  <2>3. UNCHANGED <<status, approved>>
    BY <1>6 DEF SaveRowFails, rowVars
  <2>4. xp[x].pc = "saving"
    BY <1>6 DEF SaveRowFails
  <2>5. Carries(r)
    BY <2>0, <2>2, <2>4 DEF Carries
  <2>6. QED
    BY <1>0, <2>1, <2>2, <2>3, <2>5, RequestStep
<1>7. ASSUME NEW x \in Export, Abort(x)
      PROVE  IInv'
  <2>0. xp[x] \in ExportRecord /\ Carries(xp[x])
    BY DEF TypeOK, ExportTypeOK, IInv, RequestInv
  <2> DEFINE r == [xp[x] EXCEPT !.pc = "done", !.todo = {}]
  <2>1. xp' = [xp EXCEPT ![x] = r] /\ UNCHANGED <<status, approved>>
    BY <1>7 DEF Abort, rowVars
  <2>2. /\ r.sel = xp[x].sel /\ r.priced = xp[x].priced /\ r.todo = {}
        /\ r.issued = xp[x].issued /\ r.ok = xp[x].ok
        /\ r.saved = xp[x].saved /\ r.batch = xp[x].batch
        /\ r.pc = "done"
    BY <2>0 DEF ExportRecord
  <2>3. Carries(r)
    BY <2>0, <2>2 DEF Carries
  <2>4. QED
    BY <1>0, <2>1, <2>2, <2>3, RequestStep
<1>8. CASE Tick
  <2>1. UNCHANGED <<status, approved, xp>>
    BY <1>8 DEF Tick, rowVars
  <2>2. \A j \in Invoice : Reopened(j) => Reopened(j)'
    BY <1>0 DEF Reopened
  <2>3. QED
    BY <2>1, <2>2, QuietStep
<1>9. QED
  BY <1>1, <1>2, <1>3, <1>4, <1>5, <1>6, <1>7, <1>8 DEF ExportNext, ExportStep

LEMMA InitIInv == Init => IInv
<1> SUFFICES ASSUME Init PROVE IInv
  OBVIOUS
<1>1. \A i \in Invoice : status[i] = "NONE"
  BY DEF Init, RowsInit
<1>2. \A x \in Export : Carries(xp[x]) /\ xp[x].saved = {}
  BY DEF Init, ExportInit, Carries
<1>3. QED
  BY <1>1, <1>2 DEF IInv, ApprovalInv, RequestInv, ExportedInv,
                    RecordedStaysExported

LEMMA NextIInv == TypeOK /\ IInv /\ [Next]_vars => IInv'
<1> SUFFICES ASSUME TypeOK, IInv, [Next]_vars
             PROVE  IInv'
  OBVIOUS
<1>1. CASE RowsNext /\ UNCHANGED <<reviewVars, exportVars>>
  BY <1>1, RowsKeepIInv
<1>2. CASE ReviewNext /\ UNCHANGED exportVars
  BY <1>2, ReviewKeepsIInv
<1>3. CASE ExportNext /\ UNCHANGED reviewVars
  BY <1>3, ExportKeepsIInv
<1>4. CASE UNCHANGED vars
  <2>1. UNCHANGED <<status, approved, xp, edit>>
    BY <1>4 DEF vars, rowVars, reviewVars, exportVars
  <2>2. \A j \in Invoice : Reopened(j) => Reopened(j)'
    BY <2>1 DEF Reopened
  <2>3. QED
    BY <2>1, <2>2, QuietStep
<1>5. QED
  BY <1>1, <1>2, <1>3, <1>4 DEF Next

LEMMA Invariance == Spec => [](TypeOK /\ IInv)
<1>1. Init => TypeOK /\ IInv
  BY InitType, InitIInv
<1>2. TypeOK /\ IInv /\ [Next]_vars => (TypeOK /\ IInv)'
  BY NextType, NextIInv
<1>3. QED
  BY <1>1, <1>2, PTL DEF Spec

(***************************************************************************)
(* A row is EXPORTED only if it was approved and an export that recorded   *)
(* its batch issued a voucher for it, however exports, edits, deletions,   *)
(* retries and crashes interleave.                                         *)
(***************************************************************************)
THEOREM ExportedBacked == Spec => []ExportedIsBacked
<1>1. TypeOK /\ IInv => ExportedIsBacked
  <2> SUFFICES ASSUME TypeOK, IInv, NEW i \in Invoice, status[i] = "EXPORTED"
               PROVE  /\ approved[i]
                      /\ \E x \in Export :
                           xp[x].batch /\ i \in xp[x].issued \cap xp[x].ok
    BY DEF ExportedIsBacked
  <2>1. approved[i]
    BY DEF IInv, ApprovalInv
  <2>2. PICK x \in Export : i \in xp[x].saved
    BY DEF IInv, ExportedInv
  <2>3. QED
    BY <2>1, <2>2 DEF IInv, RequestInv, Carries
<1>2. QED
  BY <1>1, Invariance, PTL

(***************************************************************************)
(* Whatever happens between selecting an invoice and posting its voucher,  *)
(* a voucher is only ever issued for an invoice that was approved.         *)
(***************************************************************************)
THEOREM IssuedApproved == Spec => []IssuedWasApproved
<1>1. IInv => IssuedWasApproved
  BY DEF IInv, RequestInv, Carries, IssuedWasApproved
<1>2. QED
  BY <1>1, Invariance, PTL

(***************************************************************************)
(* A row an export marked stays EXPORTED, unless a PATCH that was loaded   *)
(* earlier writes its status over it.                                      *)
(***************************************************************************)
THEOREM StaysExported == Spec => []RecordedStaysExported
BY Invariance, PTL DEF IInv

-------------------------------------------------------------------------------
(***************************************************************************)
(* Originals.  OriginalIsKept is not inductive: between the two queries of *)
(* a delete request nothing is removed yet.  KeptInv says what a request   *)
(* that found a key knows: its row was inserted, and once the second query *)
(* has run the row is gone, or an export had marked it before.             *)
(***************************************************************************)
Recorded(i) == \E x \in Export : i \in xp[x].saved

KeptInv ==
  /\ \A d \in Deletion : deletion[d].key =>
       /\ status[deletion[d].inv] # "NONE"
       /\ deletion[d].pc = "deleted" =>
            status[deletion[d].inv] = "DELETED" \/ Recorded(deletion[d].inv)
  /\ \A i \in Invoice : original[i] = "removed" =>
       status[i] = "DELETED" \/ Recorded(i)

(* A step that is not a delete request's keeps KeptInv if it forgets no    *)
(* marked row, removes no original, and brings back no deleted row unless  *)
(* it marks it.                                                            *)
LEMMA KeptStep ==
  ASSUME TypeOK, KeptInv, IInv', UNCHANGED deletion,
         \A x \in Export : xp[x].saved \subseteq xp'[x].saved,
         \A i \in Invoice : original'[i] = "removed" => original[i] = "removed",
         \A i \in Invoice : status[i] # "NONE" => status'[i] # "NONE",
         \A i \in Invoice : status[i] = "DELETED" =>
           status'[i] \in {"DELETED", "EXPORTED"}
  PROVE  KeptInv'
<1>1. \A i \in Invoice : status[i] = "DELETED" \/ Recorded(i) =>
        status'[i] = "DELETED" \/ Recorded(i)'
  <2>1. \A i \in Invoice : status'[i] = "EXPORTED" => Recorded(i)'
    BY DEF IInv, ExportedInv, Recorded
  <2>2. \A i \in Invoice : Recorded(i) => Recorded(i)'
    BY DEF Recorded
  <2>3. QED
    BY <2>1, <2>2
<1>2. \A d \in Deletion : deletion[d].inv \in Invoice
  BY DEF TypeOK, ReviewTypeOK, DeletionRecord
<1>3. QED
  BY <1>1, <1>2 DEF KeptInv

LEMMA RowsKeepKept ==
  ASSUME TypeOK, KeptInv, IInv', RowsNext, UNCHANGED <<reviewVars, exportVars>>
  PROVE  KeptInv'
<1>1. PICK i \in Invoice :
        Upload(i) \/ Ingest(i) \/ Reprocess(i) \/ Approve(i) \/ Retry(i)
  BY DEF RowsNext
<1>2. UNCHANGED <<xp, deletion>>
  BY DEF reviewVars, exportVars
<1>3. status[i] # "DELETED"
  BY <1>1 DEF Upload, Ingest, Reprocess, Approve, Retry, Approvable, Exists, Absent
<1>4. \E st \in Status \ {"NONE"} : status' = [status EXCEPT ![i] = st]
  BY <1>1 DEF Upload, Ingest, Reprocess, Approve, Retry, Outcome, Status,
              Reviewed, Failed
<1>5. \A j \in Invoice : original'[j] = "removed" => original[j] = "removed"
  BY <1>1 DEF Upload, Ingest, Reprocess, Approve, Retry, TypeOK, RowsTypeOK
<1>6. \A j \in Invoice : status'[j] = status[j] \/ (j = i /\ status'[j] # "NONE")
  BY <1>4 DEF TypeOK, RowsTypeOK
<1>7. QED
  BY <1>2, <1>3, <1>5, <1>6, KeptStep

LEMMA EditKeepsKept ==
  ASSUME TypeOK, KeptInv, IInv', UNCHANGED exportVars,
         NEW e \in Edit, Load(e) \/ Save(e) \/ SaveConflict(e)
  PROVE  KeptInv'
<1>1. UNCHANGED <<xp, original, deletion>>
  BY EditEffect DEF exportVars
<1>2. \A j \in Invoice : status'[j] # status[j] =>
        status[j] # "DELETED" /\ status'[j] # "NONE"
  BY EditEffect DEF Absent, Reviewed
<1>3. QED
  BY <1>1, <1>2, KeptStep

(* The three steps of a delete request. *)
LEMMA DeletionKeepsKept ==
  ASSUME TypeOK, IInv, KeptInv, UNCHANGED exportVars, NEW d \in Deletion,
         FindKeys(d) \/ DeleteRow(d) \/ DeleteObject(d)
  PROVE  KeptInv'
<1> DEFINE i == deletion[d].inv
<1>0. /\ deletion \in [Deletion -> DeletionRecord] /\ i \in Invoice
      /\ status \in [Invoice -> Status]
      /\ original \in [Invoice -> {"none", "stored", "removed"}]
  BY DEF TypeOK, ReviewTypeOK, RowsTypeOK, DeletionRecord
<1>1. \A j : Recorded(j)' <=> Recorded(j)
  BY DEF exportVars, Recorded
<1>2. CASE FindKeys(d)
  <2> DEFINE r == [deletion[d] EXCEPT !.pc = "found",
                                      !.key = Deletable(i) /\ original[i] # "none"]
  <2>1. deletion' = [deletion EXCEPT ![d] = r] /\ UNCHANGED <<status, original>>
    BY <1>2 DEF FindKeys, rowVars
  <2>2. r.pc = "found" /\ r.inv = i /\ (r.key => status[i] # "NONE")
    BY <1>0 DEF DeletionRecord, Deletable, Exists, Absent
  <2> HIDE DEF r
  <2>3. deletion'[d] = r /\ \A c \in Deletion : c # d => deletion'[c] = deletion[c]
    BY <1>0, <2>1
  <2>4. QED
    BY <1>1, <2>1, <2>2, <2>3 DEF KeptInv
<1>3. CASE DeleteRow(d)
  <2> DEFINE r == [deletion[d] EXCEPT !.pc = "deleted"]
  <2>1. /\ deletion' = [deletion EXCEPT ![d] = r] /\ UNCHANGED original
        /\ status' = [status EXCEPT ![i] = IF Deletable(i) THEN "DELETED" ELSE @]
    BY <1>3 DEF DeleteRow
  <2>2. r.inv = i /\ r.key = deletion[d].key
    BY <1>0 DEF DeletionRecord
  <2> HIDE DEF r
  <2>3. deletion'[d] = r /\ \A c \in Deletion : c # d => deletion'[c] = deletion[c]
    BY <1>0, <2>1
  <2>4. /\ status'[i] = IF Deletable(i) THEN "DELETED" ELSE status[i]
        /\ \A j \in Invoice : j # i => status'[j] = status[j]
    BY <1>0, <2>1
  <2>5. r.key => status'[i] = "DELETED" \/ Recorded(i)
    <3>1. r.key => status[i] # "NONE"
      BY <2>2 DEF KeptInv
    <3>2. ~ Deletable(i) => status[i] \in {"NONE", "DELETED", "EXPORTED"}
      BY DEF Deletable, Exists, Absent
    <3>3. status[i] = "EXPORTED" => Recorded(i)
      BY <1>0 DEF IInv, ExportedInv, Recorded
    <3>4. QED
      BY <2>4, <3>1, <3>2, <3>3
  <2>6. \A j \in Invoice : /\ status[j] # "NONE" => status'[j] # "NONE"
                           /\ status[j] = "DELETED" => status'[j] = "DELETED"
    BY <2>4 DEF Deletable, Exists, Absent
  <2>7. \A c \in Deletion : deletion[c].inv \in Invoice
    BY <1>0 DEF DeletionRecord
  <2>8. ASSUME NEW c \in Deletion, deletion'[c].key
        PROVE  /\ status'[deletion'[c].inv] # "NONE"
               /\ deletion'[c].pc = "deleted" =>
                    \/ status'[deletion'[c].inv] = "DELETED"
                    \/ Recorded(deletion'[c].inv)
    <3>1. CASE c = d
      <4>1. deletion[d].key /\ status[i] # "NONE"
        BY <2>2, <2>3, <2>8, <3>1 DEF KeptInv
      <4>2. QED
        BY <1>0, <2>2, <2>3, <2>5, <2>6, <3>1, <4>1
    <3>2. CASE c # d
      BY <2>3, <2>6, <2>7, <2>8, <3>2 DEF KeptInv
    <3>3. QED
      BY <3>1, <3>2
  <2>9. QED
    BY <1>1, <2>1, <2>6, <2>8 DEF KeptInv
<1>4. CASE DeleteObject(d)
  <2> DEFINE r == [deletion[d] EXCEPT !.pc = "done"]
  <2>1. /\ deletion' = [deletion EXCEPT ![d] = r] /\ UNCHANGED status
        /\ deletion[d].pc = "deleted"
        /\ \A j \in Invoice : original'[j] = original[j] \/ (j = i /\ deletion[d].key)
    BY <1>0, <1>4 DEF DeleteObject
  <2>2. r.inv = i /\ r.key = deletion[d].key /\ r.pc = "done"
    BY <1>0 DEF DeletionRecord
  <2> HIDE DEF r
  <2>3. deletion'[d] = r /\ \A c \in Deletion : c # d => deletion'[c] = deletion[c]
    BY <1>0, <2>1
  <2>4. deletion[d].key => status[i] = "DELETED" \/ Recorded(i)
    BY <2>1 DEF KeptInv
  <2>5. QED
    BY <1>1, <2>1, <2>2, <2>3, <2>4 DEF KeptInv
<1>5. QED
  BY <1>2, <1>3, <1>4

(* No step of an export forgets a row it marked, and none changes a status *)
(* but to EXPORTED.                                                        *)
LEMMA ExportEffect ==
  ASSUME TypeOK, ExportNext
  PROVE  /\ \A x \in Export : xp[x].saved \subseteq xp'[x].saved
         /\ \A j \in Invoice : status'[j] # status[j] => status'[j] = "EXPORTED"
         /\ UNCHANGED original
<1>0. xp \in [Export -> ExportRecord] /\ status \in [Invoice -> Status]
  BY DEF TypeOK, ExportTypeOK, RowsTypeOK
<1>1. CASE Tick
  BY <1>1 DEF Tick, rowVars
<1>2. ASSUME NEW x \in Export, Select(x) \/ ExportStep(x) \/ Abort(x)
      PROVE  /\ \E r : xp' = [xp EXCEPT ![x] = r] /\ xp[x].saved \subseteq r.saved
             /\ \A j \in Invoice : status'[j] # status[j] => status'[j] = "EXPORTED"
             /\ UNCHANGED original
  <2>0. xp[x] \in ExportRecord
    BY <1>0
  <2>1. CASE Select(x)
    <3>1. PICK ids \in SUBSET Invoice, m \in {"post", "file"} :
            LET sel == {i \in ids : Selectable(i)} IN
            xp' = [xp EXCEPT ![x] =
                     [@ EXCEPT !.pc = IF sel = {} THEN "done" ELSE "issuing",
                               !.mode = m, !.todo = sel, !.sel = sel,
                               !.priced = Priced(sel)]]
      BY <2>1 DEF Select
    <3> DEFINE sel == {i \in ids : Selectable(i)}
               r == [xp[x] EXCEPT !.pc = IF sel = {} THEN "done" ELSE "issuing",
                                  !.mode = m, !.todo = sel, !.sel = sel,
                                  !.priced = Priced(sel)]
    <3>2. xp' = [xp EXCEPT ![x] = r]
      BY <3>1
    <3>3. r.saved = xp[x].saved
      BY <2>0 DEF ExportRecord
    <3>4. UNCHANGED <<status, original>>
      BY <2>1 DEF Select, rowVars
    <3> HIDE DEF r
    <3>5. QED
      BY <3>2, <3>3, <3>4
  <2>2. CASE PostVoucher(x)
    <3>1. PICK i \in xp[x].todo, created \in BOOLEAN, answered \in BOOLEAN :
            xp' = [xp EXCEPT ![x] = Posted(xp[x], i, created, answered)]
      BY <2>2 DEF PostVoucher
    <3>2. Posted(xp[x], i, created, answered).saved = xp[x].saved
      BY <2>0 DEF Posted, ExportRecord
    <3>3. UNCHANGED <<status, original>>
      BY <2>2 DEF PostVoucher, rowVars
    <3>4. QED
      BY <3>1, <3>2, <3>3
  <2>3. CASE StoreFile(x) \/ CreateBatch(x) \/ Abort(x)
    <3>1. \E r : xp' = [xp EXCEPT ![x] = r] /\ xp[x].saved \subseteq r.saved
      <4> DEFINE stored == [xp[x] EXCEPT !.pc = "batching", !.todo = {},
                              !.second = clock, !.issued = xp[x].priced,
                              !.ok = xp[x].priced]
                 todo == IF xp[x].mode = "post" THEN xp[x].sel ELSE xp[x].ok
                 batched == [xp[x] EXCEPT !.batch = TRUE, !.todo = todo,
                               !.pc = IF todo = {} THEN "done" ELSE "saving"]
                 aborted == [xp[x] EXCEPT !.pc = "done", !.todo = {}]
      <4>1. \E r \in {stored, batched, aborted} : xp' = [xp EXCEPT ![x] = r]
        BY <2>3 DEF StoreFile, CreateBatch, Abort
      <4>2. /\ stored.saved = xp[x].saved /\ batched.saved = xp[x].saved
            /\ aborted.saved = xp[x].saved
        BY <2>0 DEF ExportRecord
      <4> HIDE DEF stored, batched, aborted
      <4>3. QED
        BY <4>1, <4>2
    <3>2. UNCHANGED <<status, original>>
      BY <2>3 DEF StoreFile, CreateBatch, Abort, rowVars
    <3>3. QED
      BY <3>1, <3>2
  <2>4. CASE SaveRow(x)
    <3>1. PICK i \in xp[x].todo : MarkRow(x, i)
      BY <2>4 DEF SaveRow
    <3> DEFINE exported == Exists(i) /\ i \in xp[x].ok
    <3>2. /\ xp' = [xp EXCEPT ![x] = Marked(xp[x], i, exported)]
          /\ status' = [status EXCEPT ![i] = IF exported THEN "EXPORTED" ELSE @]
          /\ UNCHANGED original
      BY <3>1 DEF MarkRow
    <3>3. xp[x].saved \subseteq Marked(xp[x], i, exported).saved
      BY <2>0 DEF Marked, ExportRecord
    <3>4. QED
      BY <1>0, <3>2, <3>3
  <2>5. CASE SaveRowFails(x)
    <3>1. PICK i \in xp[x].todo :
            xp' = [xp EXCEPT ![x] =
                     IF xp[x].mode = "post" THEN Marked(xp[x], i, FALSE)
                     ELSE [xp[x] EXCEPT !.todo = {}, !.pc = "done"]]
      BY <2>5 DEF SaveRowFails
    <3> DEFINE r == IF xp[x].mode = "post" THEN Marked(xp[x], i, FALSE)
                    ELSE [xp[x] EXCEPT !.todo = {}, !.pc = "done"]
    <3>2. xp[x].saved \subseteq r.saved
      BY <2>0 DEF Marked, ExportRecord
    <3>3. UNCHANGED <<status, original>>
      BY <2>5 DEF SaveRowFails, rowVars
    <3>4. xp' = [xp EXCEPT ![x] = r]
      BY <3>1
    <3> HIDE DEF r
    <3>5. QED
      BY <3>2, <3>3, <3>4
  <2>6. QED
    BY <1>2, <2>1, <2>2, <2>3, <2>4, <2>5 DEF ExportStep
<1>3. ASSUME NEW x \in Export, Select(x) \/ ExportStep(x) \/ Abort(x)
      PROVE  \A y \in Export : xp[y].saved \subseteq xp'[y].saved
  BY <1>0, <1>2, <1>3
<1>4. QED
  BY <1>1, <1>2, <1>3 DEF ExportNext

(***************************************************************************)
(* A row that is still there keeps its uploaded original through every     *)
(* interleaving of deletes, retries, edits and approvals: only an export   *)
(* that marks the row between the two queries of a delete can part them.   *)
(***************************************************************************)
THEOREM OriginalKept == Spec => []OriginalIsKept
<1>1. Init => KeptInv
  BY DEF Init, RowsInit, ReviewInit, KeptInv
<1>2. TypeOK /\ IInv /\ KeptInv /\ [Next]_vars => KeptInv'
  <2> SUFFICES ASSUME TypeOK, IInv, KeptInv, [Next]_vars PROVE KeptInv'
    OBVIOUS
  <2>0. IInv'
    BY NextIInv
  <2>1. CASE RowsNext /\ UNCHANGED <<reviewVars, exportVars>>
    BY <2>0, <2>1, RowsKeepKept
  <2>2. CASE ReviewNext /\ UNCHANGED exportVars
    BY <2>0, <2>2, EditKeepsKept, DeletionKeepsKept DEF ReviewNext
  <2>3. CASE ExportNext /\ UNCHANGED reviewVars
    <3>1. UNCHANGED deletion
      BY <2>3 DEF reviewVars
    <3>2. \A j \in Invoice : /\ original'[j] = original[j]
                             /\ status'[j] = status[j] \/ status'[j] = "EXPORTED"
      BY <2>3, ExportEffect
    <3>3. \A x \in Export : xp[x].saved \subseteq xp'[x].saved
      BY <2>3, ExportEffect
    <3>4. QED
      BY <2>0, <3>1, <3>2, <3>3, KeptStep
  <2>4. CASE UNCHANGED vars
    BY <2>0, <2>4, KeptStep DEF vars, rowVars, reviewVars, exportVars
  <2>5. QED
    BY <2>1, <2>2, <2>3, <2>4 DEF Next
<1>3. KeptInv => OriginalIsKept
  BY DEF KeptInv, OriginalIsKept, Recorded, Exists, Absent
<1>4. QED
  BY <1>1, <1>2, <1>3, Invariance, PTL DEF Spec

-------------------------------------------------------------------------------
(***************************************************************************)
(* Completeness.  An edit that wrote over something it had not loaded is   *)
(* finished, and a finished edit is not touched again.                     *)
(***************************************************************************)
MixedEdit(i) == \E e \in Edit : edit[e].inv = i /\ edit[e].mixed

CompleteInv ==
  /\ ParsedIsComplete
  /\ \A e \in Edit : edit[e].mixed => edit[e].pc = "saved"

LEMMA CompleteInit == Init => CompleteInv
BY DEF Init, RowsInit, ReviewInit, Closed, CompleteInv, ParsedIsComplete

(* A step that leaves the edits alone. *)
LEMMA CompleteStep ==
  ASSUME CompleteInv, UNCHANGED edit,
         \A i \in Invoice : status'[i] = "PARSED" =>
           \/ status[i] = "PARSED" /\ parsed'[i].gaps = parsed[i].gaps
           \/ parsed'[i].gaps \subseteq {InvoiceDate}
  PROVE  CompleteInv'
BY DEF CompleteInv, ParsedIsComplete

LEMMA OutcomeIsComplete ==
  ASSUME TypeOK, NEW i \in Invoice, Outcome(i)
  PROVE  \A j \in Invoice : status'[j] = "PARSED" =>
           \/ status[j] = "PARSED" /\ parsed'[j].gaps = parsed[j].gaps
           \/ parsed'[j].gaps \subseteq {InvoiceDate}
<1>0. status \in [Invoice -> Status] /\ parsed \in [Invoice -> Parsed]
  BY DEF TypeOK, RowsTypeOK
<1>1. CASE \E st \in Reviewed, g \in SUBSET Field :
             /\ Assessment(st, g)
             /\ status' = [status EXCEPT ![i] = st]
             /\ parsed' = [parsed EXCEPT ![i] = [gaps |-> g, edits |-> {}]]
  BY <1>0, <1>1 DEF Assessment
<1>2. CASE \E st \in Failed : /\ status' = [status EXCEPT ![i] = st]
                              /\ UNCHANGED parsed
  BY <1>0, <1>2 DEF Failed
<1>3. QED
  BY <1>1, <1>2 DEF Outcome

LEMMA RowsAreComplete ==
  ASSUME TypeOK, CompleteInv, RowsNext, UNCHANGED <<reviewVars, exportVars>>
  PROVE  CompleteInv'
<1>1. PICK i \in Invoice :
        Upload(i) \/ Ingest(i) \/ Reprocess(i) \/ Approve(i) \/ Retry(i)
  BY DEF RowsNext
<1>2. UNCHANGED edit
  BY DEF reviewVars
<1>3. CASE Ingest(i) \/ Reprocess(i)
  BY <1>2, <1>3, OutcomeIsComplete, CompleteStep DEF Ingest, Reprocess
<1>4. CASE Upload(i) \/ Approve(i) \/ Retry(i)
  BY <1>2, <1>4, CompleteStep DEF Upload, Approve, Retry, TypeOK, RowsTypeOK
<1>5. QED
  BY <1>1, <1>3, <1>4

(* A save that writes both halves, or one over what it had loaded of the   *)
(* other, gives PARSED only to a row without gaps; any other save is mixed. *)
LEMMA SaveIsComplete ==
  ASSUME TypeOK, CompleteInv, NEW e \in Edit, Save(e)
  PROVE  CompleteInv'
<1> DEFINE i == edit[e].inv
<1>0. /\ edit \in [Edit -> EditRecord] /\ i \in Invoice
      /\ status \in [Invoice -> Status] /\ parsed \in [Invoice -> Parsed]
  BY DEF TypeOK, ReviewTypeOK, RowsTypeOK, EditRecord
<1>1. PICK set \in SUBSET Field, bad \in SUBSET Field, w \in BOOLEAN :
        /\ w \/ NextParsed(e, set, bad).gaps = edit[e].parsed.gaps
        /\ SaveWith(e, EditedStatus(e, set, bad), NextParsed(e, set, bad), w)
  BY SaveWrites
<1> DEFINE st    == EditedStatus(e, set, bad)
           next  == NextParsed(e, set, bad)
           wrote == st # edit[e].status
           mixed == \/ ~ wrote /\ status[i] # edit[e].status
                    \/ ~ w /\ parsed[i] # edit[e].parsed
<1>2. /\ edit'[e].inv = i /\ edit'[e].pc = "saved" /\ (edit'[e].mixed <=> mixed)
      /\ \A f \in Edit : f # e => edit'[f] = edit[f]
  BY <1>0, <1>1 DEF SaveWith, Closed
<1>a. /\ parsed'[i] = IF w THEN next ELSE parsed[i]
      /\ status'[i] = IF wrote THEN st ELSE status[i]
  BY <1>0, <1>1 DEF SaveWith
<1>3. edit[e].pc = "loaded"
  BY DEF Save
<1>4. \A j \in Invoice : MixedEdit(j) => MixedEdit(j)'
  <2> SUFFICES ASSUME NEW j \in Invoice, NEW f \in Edit,
                      edit[f].inv = j, edit[f].mixed
               PROVE  MixedEdit(j)'
    BY DEF MixedEdit
  <2>1. f # e
    BY <1>3 DEF CompleteInv
  <2>2. QED
    BY <1>2, <2>1 DEF MixedEdit
<1>5. \A j \in Invoice : j # i => status'[j] = status[j] /\ parsed'[j] = parsed[j]
  BY <1>0, <1>1 DEF SaveWith
<1>6. ASSUME ~ mixed, status'[i] = "PARSED" PROVE parsed'[i].gaps = {}
  <2>1. st = "PARSED"
    BY <1>6, <1>a
  <2>2. next.gaps = {}
    BY <2>1 DEF EditedStatus, NextParsed
  <2>3. CASE w
    BY <1>a, <2>2, <2>3
  <2>4. CASE ~ w
    BY <1>1, <1>6, <1>a, <2>2, <2>4
  <2>5. QED
    BY <2>3, <2>4
<1>7. mixed => \A j \in Invoice : j = i => MixedEdit(j)'
  BY <1>2 DEF MixedEdit
<1> HIDE DEF mixed, st, next, wrote
<1>8. \A j \in Invoice : status'[j] = "PARSED" =>
        parsed'[j].gaps \subseteq {InvoiceDate} \/ MixedEdit(j)'
  <2>1. \A j \in Invoice : status[j] = "PARSED" =>
          parsed[j].gaps \subseteq {InvoiceDate} \/ MixedEdit(j)
    BY DEF CompleteInv, ParsedIsComplete, MixedEdit
  <2>2. ASSUME NEW j \in Invoice, status'[j] = "PARSED"
        PROVE  parsed'[j].gaps \subseteq {InvoiceDate} \/ MixedEdit(j)'
    <3>1. CASE j = i
      BY <1>6, <1>7, <2>2, <3>1
    <3>2. CASE j # i
      <4>1. status[j] = "PARSED" /\ parsed'[j] = parsed[j]
        BY <1>5, <2>2, <3>2
      <4>2. QED
        BY <1>4, <2>1, <4>1
    <3>3. QED
      BY <3>1, <3>2
  <2>3. QED
    BY <2>2
<1>9. \A f \in Edit : edit'[f].mixed => edit'[f].pc = "saved"
  BY <1>2 DEF CompleteInv
<1>10. QED
  BY <1>8, <1>9 DEF CompleteInv, ParsedIsComplete, MixedEdit

LEMMA ReviewIsComplete ==
  ASSUME TypeOK, CompleteInv, ReviewNext, UNCHANGED exportVars
  PROVE  CompleteInv'
<1>0. edit \in [Edit -> EditRecord]
  BY DEF TypeOK, ReviewTypeOK
<1>1. ASSUME NEW e \in Edit, Load(e) \/ SaveConflict(e) PROVE CompleteInv'
  <2>1. /\ UNCHANGED <<status, parsed>>
        /\ edit[e].pc \in {"idle", "loaded"}
    BY <1>1 DEF Load, SaveConflict, rowVars
  <2>2. ~ edit[e].mixed
    BY <2>1 DEF CompleteInv
  <2>3. \A f \in Edit : f # e => edit'[f] = edit[f]
    BY <1>1, EditEffect
  <2>4. ~ edit'[e].mixed
    <3> DEFINE i == edit[e].inv
               r == [edit[e] EXCEPT !.pc = "loaded", !.status = status[i],
                          !.parsed = parsed[i], !.version = version[i]]
               c == Closed("refused", i, FALSE, FALSE)
    <3>1. edit' = [edit EXCEPT ![e] = r] \/ edit' = [edit EXCEPT ![e] = c]
      BY <1>1 DEF Load, SaveConflict
    <3>2. r.mixed = edit[e].mixed
      BY <1>0 DEF EditRecord
    <3>3. c.mixed = FALSE
      BY DEF Closed
    <3> HIDE DEF r, c
    <3>4. edit'[e] = r \/ edit'[e] = c
      BY <1>0, <3>1
    <3>5. QED
      BY <2>2, <3>2, <3>3, <3>4
  <2>5. QED
    BY <2>1, <2>2, <2>3, <2>4 DEF CompleteInv, ParsedIsComplete
<1>2. ASSUME NEW e \in Edit, Save(e) PROVE CompleteInv'
  BY <1>2, SaveIsComplete
<1>3. ASSUME NEW d \in Deletion, FindKeys(d) \/ DeleteRow(d) \/ DeleteObject(d)
      PROVE  CompleteInv'
  <2>1. UNCHANGED <<edit, parsed>>
    BY <1>3 DEF FindKeys, DeleteRow, DeleteObject, rowVars
  <2>2. \A j \in Invoice : status'[j] = status[j] \/ status'[j] = "DELETED"
    BY <1>3 DEF FindKeys, DeleteRow, DeleteObject, rowVars, TypeOK, RowsTypeOK
  <2>3. QED
    BY <2>1, <2>2, CompleteStep
<1>4. QED
  BY <1>1, <1>2, <1>3 DEF ReviewNext

(***************************************************************************)
(* A row is PARSED only if nothing but an invoice date may be missing,     *)
(* whichever of ingestion, retries and edits settled it last, unless an    *)
(* edit wrote one of status and fields over a change of the other one.     *)
(***************************************************************************)
THEOREM ParsedComplete == Spec => []ParsedIsComplete
<1>1. TypeOK /\ CompleteInv /\ [Next]_vars => CompleteInv'
  <2> SUFFICES ASSUME TypeOK, CompleteInv, [Next]_vars PROVE CompleteInv'
    OBVIOUS
  <2>1. CASE RowsNext /\ UNCHANGED <<reviewVars, exportVars>>
    BY <2>1, RowsAreComplete
  <2>2. CASE ReviewNext /\ UNCHANGED exportVars
    BY <2>2, ReviewIsComplete
  <2>3. CASE ExportNext /\ UNCHANGED reviewVars
    <3>1. UNCHANGED <<edit, parsed>>
      BY <2>3 DEF reviewVars, ExportNext, ExportStep, Tick, Select, PostVoucher,
         StoreFile, CreateBatch, SaveRow, MarkRow, SaveRowFails, Abort, rowVars
    <3>2. \A j \in Invoice : status'[j] = status[j] \/ status'[j] = "EXPORTED"
      BY <2>3, ExportEffect
    <3>3. QED
      BY <3>1, <3>2, CompleteStep
  <2>4. CASE UNCHANGED vars
    BY <2>4, CompleteStep DEF vars, rowVars, reviewVars
  <2>5. QED
    BY <2>1, <2>2, <2>3, <2>4 DEF Next
<1>2. CompleteInv => ParsedIsComplete
  BY DEF CompleteInv
<1>3. QED
  BY <1>1, <1>2, CompleteInit, Invariance, PTL DEF Spec

-------------------------------------------------------------------------------
(* The refinement: every step of the lifecycle is a step of the workflow or  *)
(* leaves the workflow's variables unchanged.                                *)

LEMMA RowsRefine ==
  ASSUME TypeOK, RowsNext, UNCHANGED <<reviewVars, exportVars>>
  PROVE  Workflow!Next
<1>1. PICK i \in Invoice :
        Upload(i) \/ Ingest(i) \/ Reprocess(i) \/ Approve(i) \/ Retry(i)
  BY DEF RowsNext
<1>2. UNCHANGED EverIssued
  BY DEF exportVars, EverIssued
<1>3. CASE Upload(i)
  <2>1. Workflow!Arrive(i)
    BY <1>2, <1>3 DEF Upload, Workflow!Arrive, Workflow!Move, EverApproved
  <2>2. QED
    BY <2>1 DEF Workflow!Next
<1>4. CASE Ingest(i)
  <2>1. Workflow!Arrive(i)
    BY <1>2, <1>4 DEF Ingest, Outcome, Reviewed, Failed, EverApproved,
       Workflow!Arrive, Workflow!Move, Workflow!Outcome
  <2>2. QED
    BY <2>1 DEF Workflow!Next
<1>5. CASE Reprocess(i)
  <2>1. Workflow!Settle(i)
    BY <1>2, <1>5 DEF Reprocess, Outcome, Reviewed, Failed, EverApproved,
       Workflow!Settle, Workflow!Move, Workflow!Outcome
  <2>2. QED
    BY <2>1 DEF Workflow!Next
<1>6. CASE Approve(i)
  <2>1. EverApproved' = EverApproved \cup {i}
    BY <1>6 DEF Approve, EverApproved, TypeOK, RowsTypeOK
  <2>2. Workflow!Approve(i)
    BY <1>2, <1>6, <2>1 DEF Approve, Approvable, Workflow!Approve, Workflow!Move
  <2>3. QED
    BY <2>2 DEF Workflow!Next
<1>7. CASE Retry(i)
  <2>1. Workflow!Retry(i)
    BY <1>2, <1>7 DEF Retry, Exists, Absent, EverApproved,
       Workflow!Retry, Workflow!Move, Workflow!Present
  <2>2. QED
    BY <2>1 DEF Workflow!Next
<1>8. QED
  BY <1>1, <1>3, <1>4, <1>5, <1>6, <1>7

LEMMA ReviewRefines ==
  ASSUME TypeOK, ReviewNext, UNCHANGED exportVars
  PROVE  Workflow!Next \/ UNCHANGED Workflow!vars
<1>1. UNCHANGED EverIssued
  BY DEF exportVars, EverIssued
<1>2. ASSUME NEW e \in Edit, Load(e) \/ Save(e) \/ SaveConflict(e)
      PROVE  Workflow!Next \/ UNCHANGED Workflow!vars
  <2>1. UNCHANGED EverApproved
    BY <1>2, EditEffect DEF EverApproved
  <2> DEFINE i == edit[e].inv
  <2>2. CASE status' = status
    BY <1>1, <2>1, <2>2 DEF Workflow!vars
  <2>3. CASE status' # status
    <3>1. status \in [Invoice -> Status] /\ status' \in [Invoice -> Status]
      BY <1>2, EditType DEF TypeOK, RowsTypeOK
    <3>2. PICK j \in Invoice : status'[j] # status[j]
      BY <2>3, <3>1
    <3>3. status' = [status EXCEPT ![j] = status'[j]]
      BY <1>2, <3>1, <3>2, EditEffect
    <3>4. status[j] \notin Absent /\ status'[j] \in Reviewed
      BY <1>2, <3>2, EditEffect
    <3>5. Workflow!Correct(j)
      BY <1>1, <2>1, <3>3, <3>4 DEF Workflow!Correct, Workflow!Move,
         Workflow!Present, Absent, Reviewed
    <3>6. QED
      BY <3>5 DEF Workflow!Next
  <2>4. QED
    BY <2>2, <2>3
<1>3. ASSUME NEW d \in Deletion, FindKeys(d) \/ DeleteRow(d) \/ DeleteObject(d)
      PROVE  Workflow!Next \/ UNCHANGED Workflow!vars
  <2> DEFINE i == deletion[d].inv
  <2>1. UNCHANGED EverApproved
    BY <1>3 DEF FindKeys, DeleteRow, DeleteObject, rowVars, EverApproved
  <2>2. i \in Invoice
    BY DEF TypeOK, ReviewTypeOK, DeletionRecord
  <2>3. CASE status' = status
    BY <1>1, <2>1, <2>3 DEF Workflow!vars
  <2>4. CASE status' # status
    <3>1. Deletable(i) /\ status' = [status EXCEPT ![i] = "DELETED"]
      BY <1>3, <2>4 DEF FindKeys, DeleteRow, DeleteObject, rowVars, TypeOK,
                        RowsTypeOK
    <3>2. Workflow!Remove(i)
      BY <1>1, <2>1, <3>1 DEF Workflow!Remove, Workflow!Move, Workflow!Present,
         Deletable, Exists, Absent
    <3>3. QED
      BY <2>2, <3>2 DEF Workflow!Next
  <2>5. QED
    BY <2>3, <2>4
<1>4. QED
  BY <1>2, <1>3 DEF ReviewNext

(* A request that issues the vouchers of `more` adds them to EverIssued.   *)
LEMMA IssuedGrows ==
  ASSUME TypeOK, NEW x \in Export, NEW r, xp' = [xp EXCEPT ![x] = r],
         NEW more \in SUBSET Invoice, r.issued = xp[x].issued \cup more
  PROVE  EverIssued' = EverIssued \cup more
<1>1. xp'[x] = r /\ \A y \in Export : y # x => xp'[y] = xp[y]
  BY DEF TypeOK, ExportTypeOK
<1>2. QED
  BY <1>1 DEF EverIssued

LEMMA ExportRefines ==
  ASSUME TypeOK, IInv, ExportNext, UNCHANGED reviewVars
  PROVE  Workflow!Next \/ UNCHANGED Workflow!vars
<1>1. ASSUME NEW x \in Export, NEW r, xp' = [xp EXCEPT ![x] = r],
             r.issued = xp[x].issued, UNCHANGED <<status, approved>>
      PROVE  UNCHANGED Workflow!vars
  <2>1. r.issued = xp[x].issued \cup {}
    BY <1>1
  <2>2. EverIssued' = EverIssued \cup {}
    BY <1>1, <2>1, IssuedGrows
  <2>3. QED
    BY <1>1, <2>2 DEF Workflow!vars, EverApproved
<1>2. ASSUME NEW x \in Export, NEW r, xp' = [xp EXCEPT ![x] = r],
             NEW more \in SUBSET Invoice, r.issued = xp[x].issued \cup more,
             \A i \in more : approved[i], UNCHANGED <<status, approved>>
      PROVE  Workflow!Next
  <2>1. EverIssued' = EverIssued \cup more
    BY <1>2, IssuedGrows
  <2>2. Workflow!Issue(more)
    BY <1>2, <2>1 DEF Workflow!Issue, EverApproved
  <2>3. QED
    BY <2>2 DEF Workflow!Next
<1>3. ASSUME NEW x \in Export
      PROVE  xp[x] \in ExportRecord /\ Carries(xp[x])
  BY DEF TypeOK, ExportTypeOK, IInv, RequestInv
<1>4. ASSUME NEW x \in Export, Select(x)
      PROVE  UNCHANGED Workflow!vars
  <2>1. PICK sel \in SUBSET Invoice, m \in {"post", "file"} :
          xp' = [xp EXCEPT ![x] =
                   [xp[x] EXCEPT !.pc = IF sel = {} THEN "done" ELSE "issuing",
                                 !.mode = m, !.todo = sel, !.sel = sel,
                                 !.priced = Priced(sel)]]
    BY <1>4 DEF Select
  <2>2. [xp[x] EXCEPT !.pc = IF sel = {} THEN "done" ELSE "issuing",
                      !.mode = m, !.todo = sel, !.sel = sel,
                      !.priced = Priced(sel)].issued = xp[x].issued
    BY <1>3 DEF ExportRecord
  <2>3. UNCHANGED <<status, approved>>
    BY <1>4 DEF Select, rowVars
  <2>4. QED
    BY <1>1, <2>1, <2>2, <2>3
<1>5. ASSUME NEW x \in Export, PostVoucher(x)
      PROVE  Workflow!Next
  <2>1. PICK i \in xp[x].todo, created \in BOOLEAN, answered \in BOOLEAN :
          xp' = [xp EXCEPT ![x] = Posted(xp[x], i, created, answered)]
    BY <1>5 DEF PostVoucher
  <2>2. i \in Invoice /\ approved[i]
    BY <1>3 DEF Carries, ExportRecord
  <2> DEFINE more == IF created THEN {i} ELSE {}
  <2>3. Posted(xp[x], i, created, answered).issued = xp[x].issued \cup more
    BY <1>3 DEF Posted, ExportRecord
  <2>4. UNCHANGED <<status, approved>>
    BY <1>5 DEF PostVoucher, rowVars
  <2>5. more \in SUBSET Invoice /\ \A j \in more : approved[j]
    BY <2>2
  <2> HIDE DEF more
  <2>6. QED
    BY <1>2, <2>1, <2>3, <2>4, <2>5
<1>6. ASSUME NEW x \in Export, StoreFile(x)
      PROVE  Workflow!Next
  <2> DEFINE r == [xp[x] EXCEPT !.pc = "batching", !.todo = {},
                                !.second = clock, !.issued = xp[x].priced,
                                !.ok = xp[x].priced]
  <2>1. xp' = [xp EXCEPT ![x] = r] /\ UNCHANGED <<status, approved>>
    BY <1>6 DEF StoreFile, rowVars
  <2>2. r.issued = xp[x].priced
    BY <1>3 DEF ExportRecord
  <2>3. /\ xp[x].priced \in SUBSET Invoice
        /\ xp[x].priced = xp[x].issued \cup xp[x].priced
        /\ \A i \in xp[x].priced : approved[i]
    BY <1>3 DEF Carries, ExportRecord
  <2>4. QED
    BY <1>2, <2>1, <2>2, <2>3
<1>7. ASSUME NEW x \in Export, CreateBatch(x)
      PROVE  UNCHANGED Workflow!vars
  <2> DEFINE todo == IF xp[x].mode = "post" THEN xp[x].sel ELSE xp[x].ok
             r == [xp[x] EXCEPT !.batch = TRUE, !.todo = todo,
                                !.pc = IF todo = {} THEN "done" ELSE "saving"]
  <2>1. xp' = [xp EXCEPT ![x] = r] /\ UNCHANGED <<status, approved>>
    BY <1>7 DEF CreateBatch, rowVars
  <2>2. r.issued = xp[x].issued
    BY <1>3 DEF ExportRecord
  <2>3. QED
    BY <1>1, <2>1, <2>2
<1>8. ASSUME NEW x \in Export, SaveRow(x)
      PROVE  Workflow!Next \/ UNCHANGED Workflow!vars
  <2>1. PICK i \in xp[x].todo : MarkRow(x, i)
    BY <1>8 DEF SaveRow
  <2> DEFINE exported == Exists(i) /\ i \in xp[x].ok
             r == Marked(xp[x], i, exported)
  <2>2. /\ xp' = [xp EXCEPT ![x] = r]
        /\ UNCHANGED approved
        /\ status' = [status EXCEPT ![i] = IF exported THEN "EXPORTED" ELSE @]
    BY <2>1 DEF MarkRow
  <2>3. r.issued = xp[x].issued
    BY <1>3 DEF Marked, ExportRecord
  <2>4. i \in Invoice
    BY <1>3 DEF ExportRecord
  <2>5. CASE ~ exported
    <3>1. UNCHANGED <<status, approved>>
      BY <2>2, <2>5 DEF TypeOK, RowsTypeOK
    <3>2. QED
      BY <1>1, <2>2, <2>3, <3>1
  <2>6. CASE exported
    <3>1. i \in EverIssued
      BY <1>3, <2>4, <2>6 DEF EverIssued, Carries
    <3>2. r.issued = xp[x].issued \cup {}
      BY <2>3
    <3>3. EverIssued' = EverIssued
      <4> HIDE DEF r
      <4>1. EverIssued' = EverIssued \cup {}
        BY <2>2, <3>2, IssuedGrows
      <4>2. QED
        BY <4>1
    <3>4. Workflow!Record(i)
      BY <2>2, <2>6, <3>1, <3>3 DEF Workflow!Record, Workflow!Move,
         Workflow!Present, Exists, Absent, EverApproved
    <3>5. QED
      BY <2>4, <3>4 DEF Workflow!Next
  <2>7. QED
    BY <2>5, <2>6
<1>9. ASSUME NEW x \in Export, SaveRowFails(x)
      PROVE  UNCHANGED Workflow!vars
  <2>1. PICK i \in xp[x].todo :
          xp' = [xp EXCEPT ![x] =
                   IF xp[x].mode = "post" THEN Marked(xp[x], i, FALSE)
                   ELSE [xp[x] EXCEPT !.todo = {}, !.pc = "done"]]
    BY <1>9 DEF SaveRowFails
  <2> DEFINE r == IF xp[x].mode = "post" THEN Marked(xp[x], i, FALSE)
                  ELSE [xp[x] EXCEPT !.todo = {}, !.pc = "done"]
  <2>2. r.issued = xp[x].issued
    BY <1>3 DEF Marked, ExportRecord
  <2>3. UNCHANGED <<status, approved>>
    BY <1>9 DEF SaveRowFails, rowVars
  <2>4. QED
    BY <1>1, <2>1, <2>2, <2>3
<1>10. ASSUME NEW x \in Export, Abort(x)
       PROVE  UNCHANGED Workflow!vars
  <2> DEFINE r == [xp[x] EXCEPT !.pc = "done", !.todo = {}]
  <2>1. xp' = [xp EXCEPT ![x] = r] /\ UNCHANGED <<status, approved>>
    BY <1>10 DEF Abort, rowVars
  <2>2. r.issued = xp[x].issued
    BY <1>3 DEF ExportRecord
  <2>3. QED
    BY <1>1, <2>1, <2>2
<1>11. CASE Tick
  BY <1>11 DEF Tick, rowVars, Workflow!vars, EverApproved, EverIssued
<1>12. QED
  BY <1>4, <1>5, <1>6, <1>7, <1>8, <1>9, <1>10, <1>11 DEF ExportNext, ExportStep

(***************************************************************************)
(* The lifecycle implements InvoiceWorkflow: whatever requests, retries,   *)
(* failures and the worker do to the rows while an export is under way, a  *)
(* voucher follows an approval and EXPORTED follows a voucher.             *)
(***************************************************************************)
THEOREM LifecycleImplementsWorkflow == Spec => ImplementsWorkflow
<1>1. Init => Workflow!Init
  BY DEF Init, RowsInit, ExportInit, Workflow!Init, EverApproved, EverIssued
<1>2. TypeOK /\ IInv /\ [Next]_vars => [Workflow!Next]_(Workflow!vars)
  <2> SUFFICES ASSUME TypeOK, IInv, [Next]_vars
               PROVE  Workflow!Next \/ UNCHANGED Workflow!vars
    OBVIOUS
  <2>1. CASE RowsNext /\ UNCHANGED <<reviewVars, exportVars>>
    BY <2>1, RowsRefine
  <2>2. CASE ReviewNext /\ UNCHANGED exportVars
    BY <2>2, ReviewRefines
  <2>3. CASE ExportNext /\ UNCHANGED reviewVars
    BY <2>3, ExportRefines
  <2>4. CASE UNCHANGED vars
    BY <2>4 DEF vars, rowVars, exportVars, Workflow!vars, EverApproved,
                EverIssued
  <2>5. QED
    BY <2>1, <2>2, <2>3, <2>4 DEF Next
<1>3. QED
  BY <1>1, <1>2, Invariance, PTL DEF Spec, Workflow!Spec, ImplementsWorkflow

-------------------------------------------------------------------------------
(***************************************************************************)
(* Versions.  NoUnseenEdit and ReopenedBeforeApproval say what a step that *)
(* saves an edit may find; SeenInv says it of every edit that is open: it  *)
(* was loaded from a row that could be modified, versions only grow, and   *)
(* as long as the version is the loaded one no other edit was saved.       *)
(***************************************************************************)
Seen(e) ==
  /\ edit[e].status \notin Absent \cup {"EXPORTED"}
  /\ edit[e].version <= version[edit[e].inv]
  /\ edit[e].version = version[edit[e].inv] =>
       parsed[edit[e].inv].edits \subseteq edit[e].parsed.edits

SeenInv == \A e \in Edit : edit[e].pc = "loaded" => Seen(e)

(* A step that leaves the edits and the versions alone and puts no edit    *)
(* into a row.                                                             *)
LEMMA SeenStep ==
  ASSUME TypeOK, SeenInv, UNCHANGED <<edit, version>>,
         \A i \in Invoice : parsed'[i].edits \subseteq parsed[i].edits
  PROVE  SeenInv'
<1>1. \A e \in Edit : edit[e].inv \in Invoice
  BY DEF TypeOK, ReviewTypeOK, EditRecord
<1>2. QED
  BY <1>1 DEF SeenInv, Seen

LEMMA RowsKeepSeen ==
  ASSUME TypeOK, SeenInv, RowsNext, UNCHANGED <<reviewVars, exportVars>>
  PROVE  SeenInv'
<1>0. parsed \in [Invoice -> Parsed]
  BY DEF TypeOK, RowsTypeOK
<1>1. PICK i \in Invoice :
        Upload(i) \/ Ingest(i) \/ Reprocess(i) \/ Approve(i) \/ Retry(i)
  BY DEF RowsNext
<1>2. UNCHANGED <<edit, version>>
  BY <1>1 DEF reviewVars, Upload, Ingest, Reprocess, Approve, Retry
<1>3. \/ UNCHANGED parsed
      \/ \E g : parsed' = [parsed EXCEPT ![i] = [gaps |-> g, edits |-> {}]]
  BY <1>1 DEF Upload, Ingest, Reprocess, Approve, Retry, Outcome
<1>4. \A j \in Invoice : parsed'[j].edits \subseteq parsed[j].edits
  BY <1>0, <1>3
<1>5. QED
  BY <1>2, <1>4, SeenStep

(* Loading takes row and version together; a save raises the version, so   *)
(* that no other open edit has the new one.                                *)
LEMMA EditKeepsSeen ==
  ASSUME TypeOK, SeenInv, NEW e \in Edit, Load(e) \/ Save(e) \/ SaveConflict(e)
  PROVE  SeenInv'
<1> DEFINE i == edit[e].inv
<1>0. /\ edit \in [Edit -> EditRecord] /\ i \in Invoice
      /\ version \in [Invoice -> Nat] /\ parsed \in [Invoice -> Parsed]
      /\ \A f \in Edit : edit[f].inv \in Invoice /\ edit[f].version \in Nat
  BY DEF TypeOK, ReviewTypeOK, RowsTypeOK, EditRecord
<1>1. \A f \in Edit : f # e => edit'[f] = edit[f]
  BY EditEffect
<1>2. CASE Load(e)
  <2>1. UNCHANGED <<version, parsed>>
    BY <1>2 DEF Load, rowVars
  <2>2. ASSUME edit'[e].pc = "loaded" PROVE Seen(e)'
    <3> DEFINE r == [edit[e] EXCEPT !.pc = "loaded", !.status = status[i],
                              !.parsed = parsed[i], !.version = version[i]]
               c == Closed("refused", i, FALSE, FALSE)
    <3>1. \/ edit' = [edit EXCEPT ![e] = r] /\ Exists(i) /\ status[i] # "EXPORTED"
          \/ edit' = [edit EXCEPT ![e] = c]
      BY <1>2 DEF Load
    <3>2. c.pc = "refused"
      BY DEF Closed
    <3>3. /\ r.inv = i /\ r.status = status[i] /\ r.parsed = parsed[i]
          /\ r.version = version[i]
      BY <1>0 DEF EditRecord
    <3> HIDE DEF r, c
    <3>4. edit'[e] = r /\ Exists(i) /\ status[i] # "EXPORTED"
      BY <1>0, <2>2, <3>1, <3>2
    <3>5. QED
      BY <1>0, <2>1, <3>3, <3>4 DEF Seen, Exists
  <2>3. QED
    BY <1>1, <2>1, <2>2 DEF SeenInv, Seen
<1>3. CASE Save(e)
  <2>1. /\ edit'[e].pc = "saved"
        /\ version' = [version EXCEPT ![i] = @ + 1]
        /\ \A j \in Invoice : j # i => parsed'[j] = parsed[j]
    <3>1. version' = [version EXCEPT ![i] = @ + 1]
      BY <1>3 DEF Save
    <3>2. QED
      BY <1>0, <1>3, <3>1, SaveWrites DEF SaveWith, Closed
  <2>2. ASSUME NEW f \in Edit, edit'[f].pc = "loaded" PROVE Seen(f)'
    <3>1. edit'[f] = edit[f] /\ Seen(f)
      BY <1>1, <2>1, <2>2 DEF SeenInv
    <3>2. CASE edit[f].inv = i
      BY <1>0, <2>1, <3>1, <3>2 DEF Seen
    <3>3. CASE edit[f].inv # i
      BY <1>0, <2>1, <3>1, <3>3 DEF Seen
    <3>4. QED
      BY <3>2, <3>3
  <2>3. QED
    BY <2>2 DEF SeenInv
<1>4. CASE SaveConflict(e)
  <2>1. UNCHANGED <<version, parsed>> /\ edit'[e].pc = "refused"
    BY <1>0, <1>4 DEF SaveConflict, Closed, rowVars
  <2>2. QED
    BY <1>1, <2>1 DEF SeenInv, Seen
<1>5. QED
  BY <1>2, <1>3, <1>4

LEMMA SeenNext == TypeOK /\ SeenInv /\ [Next]_vars => SeenInv'
<1> SUFFICES ASSUME TypeOK, SeenInv, [Next]_vars PROVE SeenInv'
  OBVIOUS
<1>1. CASE RowsNext /\ UNCHANGED <<reviewVars, exportVars>>
  BY <1>1, RowsKeepSeen
<1>2. CASE ReviewNext /\ UNCHANGED exportVars
  <2>1. ASSUME NEW d \in Deletion, FindKeys(d) \/ DeleteRow(d) \/ DeleteObject(d)
        PROVE  SeenInv'
    BY <2>1, SeenStep DEF FindKeys, DeleteRow, DeleteObject, rowVars
  <2>2. QED
    BY <1>2, <2>1, EditKeepsSeen DEF ReviewNext
<1>3. CASE ExportNext /\ UNCHANGED reviewVars
  <2>1. UNCHANGED <<edit, version, parsed>>
    BY <1>3 DEF reviewVars, ExportNext, ExportStep, Tick, Select, PostVoucher,
       StoreFile, CreateBatch, SaveRow, MarkRow, SaveRowFails, Abort, rowVars
  <2>2. QED
    BY <2>1, SeenStep
<1>4. CASE UNCHANGED vars
  BY <1>4, SeenStep DEF vars, rowVars, reviewVars
<1>5. QED
  BY <1>1, <1>2, <1>3, <1>4 DEF Next

LEMMA SeenInvariance == Spec => [](TypeOK /\ SeenInv)
<1>1. Init => SeenInv
  BY DEF Init, ReviewInit, Closed, SeenInv
<1>2. QED
  BY <1>1, InitType, NextType, SeenNext, PTL DEF Spec

(* Which step changes an edit from loaded to saved. *)
LEMMA OnlySaveSaves ==
  ASSUME TypeOK, [Next]_vars, NEW e \in Edit, edit'[e].pc = "saved",
         edit[e].pc = "loaded"
  PROVE  Save(e)
<1>1. CASE RowsNext /\ UNCHANGED <<reviewVars, exportVars>>
  BY <1>1 DEF reviewVars
<1>2. CASE ReviewNext /\ UNCHANGED exportVars
  <2>1. ASSUME NEW f \in Edit, Load(f) \/ Save(f) \/ SaveConflict(f)
        PROVE  Save(e)
    <3>1. f = e
      BY <2>1, EditEffect
    <3>2. ~ Load(e)
      BY DEF Load
    <3>3. ~ SaveConflict(e)
      BY DEF SaveConflict, Closed, TypeOK, ReviewTypeOK
    <3>4. QED
      BY <2>1, <3>1, <3>2, <3>3
  <2>2. ASSUME NEW d \in Deletion, FindKeys(d) \/ DeleteRow(d) \/ DeleteObject(d)
        PROVE  FALSE
    BY <2>2 DEF FindKeys, DeleteRow, DeleteObject
  <2>3. QED
    BY <1>2, <2>1, <2>2 DEF ReviewNext
<1>3. CASE ExportNext /\ UNCHANGED reviewVars
  BY <1>3 DEF reviewVars
<1>4. CASE UNCHANGED vars
  BY <1>4 DEF vars, reviewVars
<1>5. QED
  BY <1>1, <1>2, <1>3, <1>4 DEF Next

(***************************************************************************)
(* Of two PATCHes of one invoice the second to be saved was loaded after   *)
(* the first was, whatever ingestion, review and exports do to the row in  *)
(* between without raising its version.                                    *)
(***************************************************************************)
THEOREM EditsAreSeen == Spec => NoUnseenEdit
<1> DEFINE Unseen == \A e \in Edit :
       edit[e].pc = "loaded" /\ edit'[e].pc = "saved" =>
         parsed[edit[e].inv].edits \subseteq edit[e].parsed.edits
<1>1. TypeOK /\ SeenInv /\ [Next]_vars => Unseen
  <2> SUFFICES ASSUME TypeOK, SeenInv, [Next]_vars, NEW e \in Edit,
                      edit[e].pc = "loaded", edit'[e].pc = "saved"
               PROVE  parsed[edit[e].inv].edits \subseteq edit[e].parsed.edits
    OBVIOUS
  <2>1. Save(e)
    BY OnlySaveSaves
  <2>2. QED
    BY <2>1 DEF Save, VersionMatches, SeenInv, Seen
<1>2. QED
  BY <1>1, SeenInvariance, PTL DEF Spec, NoUnseenEdit

(***************************************************************************)
(* A row leaves APPROVED or EXPORTED for a status of review only by a      *)
(* PATCH that was loaded before the approval.                              *)
(***************************************************************************)
THEOREM ReopenedByEarlierEdit == Spec => ReopenedBeforeApproval
<1> DEFINE Reopening(i) == /\ status[i] \in {"APPROVED", "EXPORTED"}
                           /\ status'[i] \in Reviewed
           Earlier(i) == \E e \in Edit :
             /\ edit[e].inv = i /\ edit[e].pc = "loaded" /\ edit'[e].pc = "saved"
             /\ edit[e].status \notin {"APPROVED", "EXPORTED"}
           Reopens == \A i \in Invoice :
             (status[i] \in {"APPROVED", "EXPORTED"} /\ status'[i] \in Reviewed) =>
               \E e \in Edit :
                 /\ edit[e].inv = i /\ edit[e].pc = "loaded" /\ edit'[e].pc = "saved"
                 /\ edit[e].status \notin {"APPROVED", "EXPORTED"}
<1>1. TypeOK /\ SeenInv /\ [Next]_vars => Reopens
  <2> SUFFICES ASSUME TypeOK, SeenInv, [Next]_vars, NEW i \in Invoice, Reopening(i)
               PROVE  Earlier(i)
    OBVIOUS
  <2>0. status' # status /\ status \in [Invoice -> Status]
    BY DEF Reviewed, TypeOK, RowsTypeOK
  <2>1. CASE RowsNext /\ UNCHANGED <<reviewVars, exportVars>>
    <3>1. PICK j \in Invoice :
            Upload(j) \/ Ingest(j) \/ Reprocess(j) \/ Approve(j) \/ Retry(j)
      BY <2>1 DEF RowsNext
    <3>2. ~ (Ingest(j) \/ Reprocess(j))
      <4>1. Ingest(j) \/ Reprocess(j) =>
              status[j] \in {"NONE", "PENDING"}
                /\ \A k \in Invoice : k # j => status'[k] = status[k]
        BY <2>0 DEF Ingest, Reprocess, Outcome
      <4>2. QED
        BY <4>1 DEF Reviewed
    <3>3. QED
      BY <2>0, <3>1, <3>2 DEF Upload, Approve, Retry, Reviewed
  <2>2. CASE ReviewNext /\ UNCHANGED exportVars
    <3>1. ASSUME NEW e \in Edit, Load(e) \/ Save(e) \/ SaveConflict(e)
          PROVE  Earlier(i)
      <4>1. Save(e)
        BY <2>0, <3>1 DEF Load, SaveConflict, rowVars
      <4>2. edit[e].inv = i /\ edit[e].pc = "loaded"
        BY <3>1, <4>1, EditEffect DEF Save, Reviewed
      <4>3. edit'[e].pc = "saved"
        BY <4>1, SaveWrites DEF SaveWith, Closed, TypeOK, ReviewTypeOK
      <4>4. edit[e].status # "EXPORTED"
        BY <4>2 DEF SeenInv, Seen
      <4>5. edit[e].status # "APPROVED"
        <5>1. SUFFICES ASSUME edit[e].status = "APPROVED" PROVE UNCHANGED status
          BY <2>0
        <5>2. \A set, bad : EditedStatus(e, set, bad) = "APPROVED"
          BY <5>1 DEF EditedStatus
        <5>3. PICK set \in SUBSET Field, bad \in SUBSET Field, w \in BOOLEAN :
                SaveWith(e, EditedStatus(e, set, bad), NextParsed(e, set, bad), w)
          BY <4>1, SaveWrites
        <5>4. status' = [status EXCEPT ![edit[e].inv] = @]
          BY <5>1, <5>2, <5>3 DEF SaveWith
        <5>5. QED
          BY <2>0, <5>4
      <4>6. QED
        BY <4>2, <4>3, <4>4, <4>5
    <3>2. ASSUME NEW d \in Deletion, FindKeys(d) \/ DeleteRow(d) \/ DeleteObject(d)
          PROVE  FALSE
      BY <2>0, <3>2 DEF FindKeys, DeleteRow, DeleteObject, rowVars, Reviewed
    <3>3. QED
      BY <2>2, <3>1, <3>2 DEF ReviewNext
  <2>3. CASE ExportNext /\ UNCHANGED reviewVars
    <3>1. status'[i] = status[i] \/ status'[i] = "EXPORTED"
      BY <2>3, ExportEffect
    <3>2. QED
      BY <3>1 DEF Reviewed
  <2>4. CASE UNCHANGED vars
    BY <2>0, <2>4 DEF vars, rowVars
  <2>5. QED
    BY <2>1, <2>2, <2>3, <2>4 DEF Next
<1>2. QED
  BY <1>1, SeenInvariance, PTL DEF Spec, ReopenedBeforeApproval

==============================================================================

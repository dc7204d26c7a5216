------------------------------ MODULE Ingestion ------------------------------
(***************************************************************************)
(* services/ingestionService.ts for one tenant: ingestion runs that read   *)
(* the checkpoint of a source, list its new files, and for each file check *)
(* for a duplicate, extract, write the row and save the checkpoint.  Runs  *)
(* may overlap (the scheduled worker and the API are separate processes)   *)
(* and may crash anywhere; meanwhile documents arrive, users upload,       *)
(* retry, delete and pause.                                                *)
(*                                                                         *)
(* A file is named by its source, its document (mail UID, folder path or   *)
(* object key) and its attachment name, the key of the unique index of     *)
(* models/Invoice.ts.  Documents are numbered in the order the sources     *)
(* list them, so a mailbox's checkpoint marker is a document number; the   *)
(* same number in sources of two types stands for different names.         *)
(***************************************************************************)
EXTENDS Naturals

CONSTANTS
  Mailbox, Folder, Bucket,   \* the sources of the three types
  Doc,            \* document numbers, a subset of 1, 2, ...
  Name,           \* attachment names
  OriginalName,   \* the name an upload row carries; the bucket's own listing
                  \* gives the object another one (a random system name)
  Key,            \* what may be a row: [src, doc, name]
  File,           \* the supported files the sources can contain
  NoFile,         \* no content, or no file in hand
  Run,            \* processes that may be executing runOnce
  Worker,         \* the ones started without a tenant: they skip uploads
  MaxDisturbance  \* bound on crashes, pauses, retries and deletions together

Source == Mailbox \cup Folder \cup Bucket

ASSUME SourceAssumption ==
  Mailbox \cap Folder = {} /\ Mailbox \cap Bucket = {} /\ Folder \cap Bucket = {}
ASSUME DocAssumption == Doc \subseteq Nat \ {0}
ASSUME KeyAssumption == Key = [src : Source, doc : Doc, name : Name]
ASSUME FileAssumption ==
  /\ File \subseteq Key
  /\ NoFile \notin File
  /\ OriginalName \in Name
  /\ \A f \in File : f.src \in Bucket => f.name # OriginalName
ASSUME WorkerAssumption == Worker \subseteq Run
ASSUME DisturbanceAssumption == MaxDisturbance \in Nat

VARIABLES
  present,         \* <<source, document>> pairs that ever arrived
  gone,            \* the ones that were uploads and are deleted
  row,             \* the invoice rows by key
  marker,          \* the saved checkpoint of each source, 0 if none
  run,             \* what each process is doing
  pauseRequested,  \* the flag of the IngestionService in each process
  uploading,       \* uploads whose object is stored and row not yet inserted
  removing,        \* deleted upload rows whose object is not yet deleted
  stored,          \* history: the files whose outcome was written to a row
  disturbances     \* crashes, pauses, retries and deletions so far

vars == <<present, gone, row, marker, run, pauseRequested, uploading, removing,
          stored, disturbances>>

NoRow  == [status |-> "none", holds |-> NoFile]
Exists(k) == row[k].status # "none"
Settled(k) == row[k].status \in {"read", "failed"}

(* A run between sources has no file; mark is its own copy nextMarker.     *)
Idle == [pc |-> "idle", left |-> {}, src |-> NoFile, todo |-> {},
         file |-> NoFile, mark |-> 0, outcome |-> "read"]

RunRecord ==
  [pc : {"idle", "source", "fetch", "next", "extract", "create", "mark"},
   left : SUBSET Source, src : Source \cup {NoFile}, todo : SUBSET File,
   file : File \cup {NoFile}, mark : Doc \cup {0}, outcome : {"read", "failed"}]

TypeOK ==
  /\ present \subseteq Source \X Doc
  /\ gone \subseteq Bucket \X Doc
  /\ row \in [Key -> [status : {"none", "PENDING", "read", "failed"},
                      holds : File \cup {NoFile}]]
  /\ marker \in [Source -> Doc \cup {0}]
  /\ run \in [Run -> RunRecord]
  /\ pauseRequested \in [Run -> BOOLEAN]
  /\ uploading \subseteq Bucket \X Doc
  /\ removing \subseteq Bucket \X Doc
  /\ stored \subseteq File
  /\ disturbances \in 0..MaxDisturbance

Init ==
  /\ present = {}
  /\ gone = {}
  /\ row = [k \in Key |-> NoRow]
  /\ marker = [s \in Source |-> 0]
  /\ run = [r \in Run |-> Idle]
  /\ pauseRequested = [r \in Run |-> FALSE]
  /\ uploading = {}
  /\ removing = {}
  /\ stored = {}
  /\ disturbances = 0

-------------------------------------------------------------------------------
(* Documents and uploads.                                                    *)

(* A mail gets the next UID; a file may be put into a folder in any order.  *)
Arrive(s, d) ==
  /\ s \in Mailbox \cup Folder
  /\ <<s, d>> \notin present
  /\ s \in Mailbox => \A c \in Doc : c < d => <<s, c>> \in present
  /\ present' = present \cup {<<s, d>>}
  /\ UNCHANGED <<gone, row, marker, run, pauseRequested, uploading, removing,
                 stored, disturbances>>

(* POST /jobs/upload: putObject under a fresh random key ...               *)
PutObject(s, d) ==
  /\ s \in Bucket
  /\ <<s, d>> \notin present
  /\ present' = present \cup {<<s, d>>}
  /\ uploading' = uploading \cup {<<s, d>>}
  /\ UNCHANGED <<gone, row, marker, run, pauseRequested, removing, stored,
                 disturbances>>

(* ... then the insert of its PENDING row, under the original name, or its *)
(* failure, which the empty catch block swallows.                          *)
CreatePending(s, d) ==
  LET k == [src |-> s, doc |-> d, name |-> OriginalName] IN
  /\ <<s, d>> \in uploading
  /\ uploading' = uploading \ {<<s, d>>}
  /\ \/ row' = [row EXCEPT ![k] = [status |-> "PENDING", holds |-> NoFile]]
     \/ UNCHANGED row
  /\ UNCHANGED <<present, gone, marker, run, pauseRequested, removing, stored,
                 disturbances>>

-------------------------------------------------------------------------------
(* A run, step by step.                                                      *)

Become(r, rec) == run' = [run EXCEPT ![r] = rec]

(* runOnce starts by clearing the flag.                                    *)
Start(r) ==
  /\ run[r].pc = "idle"
  /\ Become(r, [Idle EXCEPT !.pc = "source",
                  !.left = IF r \in Worker THEN Source \ Bucket ELSE Source])
  /\ pauseRequested' = [pauseRequested EXCEPT ![r] = FALSE]
  /\ UNCHANGED <<present, gone, row, marker, uploading, removing, stored,
                 disturbances>>

(* The next source and its checkpoint, or the end of the run.              *)
OpenSource(r) ==
  /\ run[r].pc = "source"
  /\ \/ run[r].left = {} /\ Become(r, Idle)
     \/ \E s \in run[r].left :
          Become(r, [Idle EXCEPT !.pc = "fetch", !.left = run[r].left \ {s},
                                 !.src = s, !.mark = marker[s]])
  /\ UNCHANGED <<present, gone, row, marker, pauseRequested, uploading, removing,
                 stored, disturbances>>

(***************************************************************************)
(* fetchNewFiles: a mailbox lists the mails after the checkpoint, a folder *)
(* or the upload bucket lists everything, and filterAlreadyProcessedFiles  *)
(* drops the documents that have a row that is not PENDING.                *)
(***************************************************************************)
ListedAfterNext(s, mark) ==   \* mutant: off by one at the checkpoint
  {f \in File : f.src = s /\ <<s, f.doc>> \in present \ gone
                /\ (s \in Mailbox => f.doc > mark + 1)}

Listed(s, mark) ==
  {f \in File : f.src = s /\ <<s, f.doc>> \in present \ gone
                /\ (s \in Mailbox => f.doc > mark)}

AnyRow(f) ==   \* mutant of AlreadyProcessed: without $ne PENDING
  \E n \in Name : Exists([src |-> f.src, doc |-> f.doc, name |-> n])

AlreadyProcessed(f) ==
  \E n \in Name : Settled([src |-> f.src, doc |-> f.doc, name |-> n])

Fetch(r) ==
  LET s == run[r].src
      listed == Listed(s, run[r].mark)
      todo == IF s \in Mailbox THEN listed
              ELSE {f \in listed : ~ AlreadyProcessed(f)}
  IN
  /\ run[r].pc = "fetch"
  /\ Become(r, [run[r] EXCEPT !.pc = "next", !.todo = todo])
  /\ UNCHANGED <<present, gone, row, marker, pauseRequested, uploading, removing,
                 stored, disturbances>>

(* processFile looks for a row of this very file that is not PENDING.      *)
Duplicate(f) == Settled(f)

Unsorted(f, files) == TRUE   \* mutant of InOrder: the files are not sorted

(* By UID in a mailbox.  The documents of a folder, which sorts by time    *)
(* and path, and of a bucket, listed by key, are numbered in that order.   *)
InOrder(f, files) == \A g \in files : f.doc <= g.doc

TakeFile(r) ==
  /\ run[r].pc = "next"
  /\ \/ /\ run[r].todo = {}
        /\ Become(r, [Idle EXCEPT !.pc = "source", !.left = run[r].left])
     \/ \E f \in run[r].todo :
          /\ InOrder(f, run[r].todo)
          /\ Become(r, [run[r] EXCEPT
                          !.pc = IF Duplicate(f) THEN "mark" ELSE "extract",
                          !.todo = @ \ {f}, !.file = f])
  /\ UNCHANGED <<present, gone, row, marker, pauseRequested, uploading, removing,
                 stored, disturbances>>

(***************************************************************************)
(* The extraction ends, well or badly, and upsertFromPending looks for a   *)
(* PENDING row of the document: of any attachment and any source of the    *)
(* tenant that names a document alike.  It overwrites that row but for its *)
(* attachment name, so the row moves to this file's source.                *)
(***************************************************************************)
SameType(s, t) ==
  \E type \in {Mailbox, Folder, Bucket} : s \in type /\ t \in type

SameDocument(k, f) == k.doc = f.doc /\ SameType(k.src, f.src)

MatchesAny(k, f) == Exists(k) /\ SameDocument(k, f)   \* mutant: any status

Matches(k, f) == row[k].status = "PENDING" /\ SameDocument(k, f)

Moved(k, f) == [k EXCEPT !.src = f.src]

(* E11000 on the success path is a duplicate; on the failure path it is    *)
(* rethrown and ends the whole run.                                        *)
AfterConflict(rec, outcome) ==
  IF outcome = "read" THEN [rec EXCEPT !.pc = "mark"] ELSE Idle

Extract(r) ==
  LET f == run[r].file IN
  /\ run[r].pc = "extract"
  /\ \E outcome \in {"read", "failed"} :
       IF ~ \E k \in Key : Matches(k, f)
         THEN /\ Become(r, [run[r] EXCEPT !.pc = "create", !.outcome = outcome])
              /\ UNCHANGED <<row, stored>>
         ELSE \E k \in Key :
           /\ Matches(k, f)
           /\ IF Moved(k, f) # k /\ Exists(Moved(k, f))
                THEN /\ Become(r, AfterConflict(run[r], outcome))
                     /\ UNCHANGED <<row, stored>>
                ELSE /\ Become(r, [run[r] EXCEPT !.pc = "mark"])
                     /\ row' = [row EXCEPT ![k] = NoRow,
                                  ![Moved(k, f)] = [status |-> outcome,
                                                    holds |-> f]]
                     /\ stored' = stored \cup {f}
  /\ UNCHANGED <<present, gone, marker, pauseRequested, uploading, removing,
                 disturbances>>

(* No PENDING row was found: InvoiceModel.create, some time later.         *)
Create(r) ==
  LET f == run[r].file IN
  /\ run[r].pc = "create"
  /\ IF Exists(f)
       THEN /\ Become(r, AfterConflict(run[r], run[r].outcome))
            /\ UNCHANGED <<row, stored>>
       ELSE /\ Become(r, [run[r] EXCEPT !.pc = "mark"])
            /\ row' = [row EXCEPT ![f] = [status |-> run[r].outcome,
                                          holds |-> f]]
            /\ stored' = stored \cup {f}
  /\ UNCHANGED <<present, gone, marker, pauseRequested, uploading, removing,
                 disturbances>>

(***************************************************************************)
(* The checkpoint is saved if it differs from the one this run saved or    *)
(* loaded last, whatever another run saved since; then the pause flag is   *)
(* looked at.                                                              *)
(***************************************************************************)
SaveCheckpoint(r) ==
  LET d == run[r].file.doc IN
  /\ run[r].pc = "mark"
  /\ marker' = [marker EXCEPT ![run[r].src] = IF d # run[r].mark THEN d ELSE @]
  /\ Become(r, IF pauseRequested[r] THEN Idle
               ELSE [run[r] EXCEPT !.pc = "next", !.file = NoFile, !.mark = d])
  /\ UNCHANGED <<present, gone, row, pauseRequested, uploading, removing, stored,
                 disturbances>>

RunStep(r) ==
  \/ OpenSource(r) \/ Fetch(r) \/ TakeFile(r) \/ Extract(r) \/ Create(r)
  \/ SaveCheckpoint(r)

-------------------------------------------------------------------------------
(* Disturbances: bounded together by MaxDisturbance.                         *)

Disturb ==
  /\ disturbances < MaxDisturbance
  /\ disturbances' = disturbances + 1

(* The process dies, or a source or the database throws out of runOnce.    *)
Crash(r) ==
  /\ Disturb
  /\ run[r].pc # "idle"
  /\ Become(r, Idle)
  /\ UNCHANGED <<present, gone, row, marker, pauseRequested, uploading, removing,
                 stored>>

(***************************************************************************)
(* POST /jobs/ingest/pause of this tenant, or of another one served by the *)
(* same process: the flag does not tell tenants apart.  Another tenant's   *)
(* runOnce clears it as well.  The scheduled worker serves no requests.    *)
(***************************************************************************)
RequestPause(r) ==
  /\ Disturb
  /\ r \notin Worker
  /\ ~ pauseRequested[r]
  /\ pauseRequested' = [pauseRequested EXCEPT ![r] = TRUE]
  /\ UNCHANGED <<present, gone, row, marker, run, uploading, removing, stored>>

OtherTenantStarts(r) ==
  /\ pauseRequested[r]
  /\ pauseRequested' = [pauseRequested EXCEPT ![r] = FALSE]
  /\ UNCHANGED <<present, gone, row, marker, run, uploading, removing, stored,
                 disturbances>>

(* POST /invoices/retry                                                    *)
Retry(k) ==
  /\ Disturb
  /\ Settled(k)
  /\ row' = [row EXCEPT ![k].status = "PENDING"]
  /\ UNCHANGED <<present, gone, marker, run, pauseRequested, uploading, removing,
                 stored>>

(* POST /invoices/delete: the row, and later the uploaded object, unless   *)
(* the file store fails.                                                   *)
Delete(k) ==
  /\ Disturb
  /\ Exists(k)
  /\ row' = [row EXCEPT ![k] = NoRow]
  /\ removing' = IF k.src \in Bucket THEN removing \cup {<<k.src, k.doc>>}
                 ELSE removing
  /\ UNCHANGED <<present, gone, marker, run, pauseRequested, uploading, stored>>

RemoveObject(s, d) ==
  /\ <<s, d>> \in removing
  /\ removing' = removing \ {<<s, d>>}
  /\ gone' \in {gone, gone \cup {<<s, d>>}}
  /\ UNCHANGED <<present, row, marker, run, pauseRequested, uploading, stored,
                 disturbances>>

-------------------------------------------------------------------------------
Next ==
  \/ \E s \in Source, d \in Doc :
       Arrive(s, d) \/ PutObject(s, d) \/ CreatePending(s, d) \/ RemoveObject(s, d)
  \/ \E r \in Run : \/ Start(r) \/ RunStep(r) \/ Crash(r)
                   \/ RequestPause(r) \/ OtherTenantStarts(r)
  \/ \E k \in Key : Retry(k) \/ Delete(k)

(* A schedule starts the worker again and again, and a run that does not   *)
(* crash goes on.                                                          *)
Fairness ==
  /\ \A r \in Run : WF_vars(RunStep(r))
  /\ \A r \in Worker : WF_vars(Start(r))

Spec == Init /\ [][Next]_vars /\ Fairness

(* Uploads are read by runs of the API only: an assumption about the users,*)
(* who keep pressing the ingest button.                                    *)
UserSpec == Spec /\ \A r \in Run \ Worker : WF_vars(Start(r))

-------------------------------------------------------------------------------
(***************************************************************************)
(* The checkpoint of a mailbox covers only files that reached a row: with  *)
(* at most one supported attachment per mail, no crash, pause, overlap of  *)
(* runs, checkpoint going back or failed insert makes a run skip a mail.   *)
(***************************************************************************)
NothingSkipped ==
  \A f \in File :
    f.src \in Mailbox /\ f.doc <= marker[f.src] => f \in stored

(***************************************************************************)
(* A run writes over a row only while the row is PENDING: a row somebody   *)
(* may be reviewing never changes its content, even if a second run was    *)
(* still extracting the same file, and a retried or deleted one does.      *)
(***************************************************************************)
SettledKeepsContent ==
  [][\A k \in Key : Settled(k) /\ Settled(k)' => row'[k] = row[k]]_vars

(* Every file that arrived reaches a row, unless its upload was deleted,   *)
(* whatever crashed, was paused or failed in between.                      *)
EveryFileIsStored ==
  \A f \in File : <<f.src, f.doc>> \in present
    ~> f \in stored \/ <<f.src, f.doc>> \in gone

(***************************************************************************)
(* A PENDING row of a folder file, one somebody asked to retry, does not   *)
(* stay PENDING: the folder lists the file again and the filter lets it    *)
(* pass.                                                                   *)
(***************************************************************************)
RetryIsServed ==
  \A k \in Key : k.src \in Folder /\ row[k].status = "PENDING"
    ~> row[k].status # "PENDING"

==============================================================================

---------------------------- MODULE InvoiceReview ----------------------------
(***************************************************************************)
(* The two review operations of services/invoiceService.ts that touch the  *)
(* database more than once, and so can be overtaken between their steps:   *)
(* PATCH /invoices/:id loads a document, recomputes and saves it; POST     *)
(* /invoices/delete reads the storage keys, deletes the rows and then the  *)
(* objects.  A delete for many ids interleaves like one request per id.    *)
(***************************************************************************)
EXTENDS InvoiceRows

CONSTANT Deletion   \* delete requests, each served at most once

VARIABLES
  edit,       \* the PATCH requests
  deletion    \* the delete requests

reviewVars == <<edit, deletion>>

(***************************************************************************)
(* An open edit keeps the document it loaded.  Once it is saved, reopened  *)
(* tells if it wrote a status over EXPORTED, and mixed if it wrote only    *)
(* one of status and parsed fields while the other one was no longer what  *)
(* it had loaded.                                                          *)
(***************************************************************************)
EditRecord ==
  [pc       : {"idle", "loaded", "saved", "refused"},
   inv      : Invoice,
   status   : Status,
   parsed   : Parsed,
   version  : Nat,
   reopened : BOOLEAN,
   mixed    : BOOLEAN]

(* An edit of invoice i that holds no copy of the document.                *)
Closed(pc, i, reopened, mixed) ==
  [pc |-> pc, inv |-> i, status |-> "NONE", parsed |-> Unparsed,
   version |-> 0, reopened |-> reopened, mixed |-> mixed]

DeletionRecord ==
  [pc  : {"idle", "found", "deleted", "done"},
   inv : Invoice,
   key : BOOLEAN]

ReviewTypeOK ==
  /\ edit \in [Edit -> EditRecord]
  /\ deletion \in [Deletion -> DeletionRecord]

(* Any request may name any invoice. *)
ReviewInit ==
  /\ \E target \in [Edit -> Invoice] :
       edit = [e \in Edit |-> Closed("idle", target[e], FALSE, FALSE)]
  /\ \E target \in [Deletion -> Invoice] :
       deletion = [d \in Deletion |->
                     [pc |-> "idle", inv |-> target[d], key |-> FALSE]]

(***************************************************************************)
(* updateInvoiceParsedFields, first half: findOne, then 404 for a missing  *)
(* row and 400 "Exported invoices cannot be modified."                     *)
(***************************************************************************)
Load(e) ==
  LET i == edit[e].inv IN
  /\ edit[e].pc = "idle"
  /\ IF Exists(i) /\ status[i] # "EXPORTED"
       THEN edit' = [edit EXCEPT ![e] =
                       [@ EXCEPT !.pc = "loaded", !.status = status[i],
                                 !.parsed = parsed[i], !.version = version[i]]]
       ELSE edit' = [edit EXCEPT ![e] = Closed("refused", i, FALSE, FALSE)]
  /\ UNCHANGED <<rowVars, deletion>>

(* The gaps left in a parsed record by an edit that sets the fields in     *)
(* `set`, the ones in `bad` to nothing or to a value that raises a flag.   *)
Edited(gaps, set, bad) == (gaps \ set) \cup bad

EditedStatusUnknown(e, set, bad) ==   \* mutant: a status of no schema
  IF edit[e].status = "APPROVED" THEN "APPROVED" ELSE "REVIEWED"

EditedStatusParsed(e, set, bad) ==   \* mutant: does not look for gaps
  IF edit[e].status = "APPROVED" THEN "APPROVED" ELSE "PARSED"

EditedStatusAnew(e, set, bad) ==   \* mutant: APPROVED is not kept
  IF Edited(edit[e].parsed.gaps, set, bad) = {} THEN "PARSED"
  ELSE "NEEDS_REVIEW"

(* The status the edit computes from its own copy: an APPROVED document    *)
(* keeps its status.                                                       *)
EditedStatus(e, set, bad) ==
  IF edit[e].status = "APPROVED" THEN "APPROVED"
  ELSE IF Edited(edit[e].parsed.gaps, set, bad) = {} THEN "PARSED"
  ELSE "NEEDS_REVIEW"

(***************************************************************************)
(* Second half: invoice.set("parsed", nextParsed) puts the whole object    *)
(* built from the loaded copy in place of the nested path, so what the     *)
(* worker wrote since is overwritten; a request that names the values the  *)
(* copy already has leaves the path unmodified.  save() writes the         *)
(* modified paths only.  The whole array processingIssues is always among  *)
(* them, so the command also asks for the __v that was loaded and          *)
(* increments it.  The status path is modified only if the computed status *)
(* differs from the loaded one.                                            *)
(***************************************************************************)
VersionIgnored(e) == TRUE   \* mutant: save() without __v

VersionMatches(e) == version[edit[e].inv] = edit[e].version

NextParsed(e, set, bad) ==
  [gaps  |-> Edited(edit[e].parsed.gaps, set, bad),
   edits |-> edit[e].parsed.edits \cup {e}]

SaveWith(e, st, next, writeParsed) ==
  LET i == edit[e].inv
      writeStatus == st # edit[e].status
  IN
  /\ parsed' = [parsed EXCEPT ![i] = IF writeParsed THEN next ELSE @]
  /\ status' = [status EXCEPT ![i] = IF writeStatus THEN st ELSE @]
  /\ edit' = [edit EXCEPT ![e] =
       Closed("saved", i, writeStatus /\ status[i] = "EXPORTED",
              \/ ~ writeStatus /\ status[i] # edit[e].status
              \/ ~ writeParsed /\ parsed[i] # edit[e].parsed)]

Save(e) ==
  LET i == edit[e].inv IN
  /\ edit[e].pc = "loaded"
  /\ Exists(i)
  /\ VersionMatches(e)
  /\ \E set \in SUBSET Field : \E bad \in SUBSET set :
       LET next == NextParsed(e, set, bad) IN
       \E writeParsed \in {TRUE, next.gaps # edit[e].parsed.gaps} :
         SaveWith(e, EditedStatus(e, set, bad), next, writeParsed)
  /\ version' = [version EXCEPT ![i] = @ + 1]
  /\ UNCHANGED <<approved, exportInfo, original, deletion>>

(* The save finds no row with that _id and __v: VersionError. *)
SaveConflict(e) ==
  LET i == edit[e].inv IN
  /\ edit[e].pc = "loaded"
  /\ ~ (Exists(i) /\ VersionMatches(e))
  /\ edit' = [edit EXCEPT ![e] = Closed("refused", i, FALSE, FALSE)]
  /\ UNCHANGED <<rowVars, deletion>>

Deletable(i) == Exists(i) /\ status[i] # "EXPORTED"

(* deleteInvoices: find the storage keys of the rows that may be deleted.  *)
FindKeys(d) ==
  LET i == deletion[d].inv IN
  /\ deletion[d].pc = "idle"
  /\ deletion' = [deletion EXCEPT ![d] =
       [@ EXCEPT !.pc = "found",
                 !.key = Deletable(i) /\ original[i] # "none"]]
  /\ UNCHANGED <<rowVars, edit>>

DeleteRowUnapproved(d) ==   \* mutant: the second filter spares APPROVED
  LET i == deletion[d].inv
      may == Deletable(i) /\ status[i] # "APPROVED"
  IN
  /\ deletion[d].pc = "found"
  /\ status' = [status EXCEPT ![i] = IF may THEN "DELETED" ELSE @]
  /\ deletion' = [deletion EXCEPT ![d] = [@ EXCEPT !.pc = "deleted"]]
  /\ UNCHANGED <<parsed, version, approved, exportInfo, original, edit>>

(* deleteMany evaluates the same filter again. *)
DeleteRow(d) ==
  LET i == deletion[d].inv IN
  /\ deletion[d].pc = "found"
  /\ status' = [status EXCEPT ![i] = IF Deletable(i) THEN "DELETED" ELSE @]
  /\ deletion' = [deletion EXCEPT ![d] = [@ EXCEPT !.pc = "deleted"]]
  /\ UNCHANGED <<parsed, version, approved, exportInfo, original, edit>>

(* The objects of all keys found are deleted; a failure is only logged.    *)
DeleteObject(d) ==
  LET i == deletion[d].inv IN
  /\ deletion[d].pc = "deleted"
  /\ \/ /\ deletion[d].key
        /\ original' = [original EXCEPT ![i] = "removed"]
     \/ UNCHANGED original
  /\ deletion' = [deletion EXCEPT ![d] = [@ EXCEPT !.pc = "done"]]
  /\ UNCHANGED <<status, parsed, version, approved, exportInfo, edit>>

ReviewNext ==
  \/ \E e \in Edit : Load(e) \/ Save(e) \/ SaveConflict(e)
  \/ \E d \in Deletion : FindKeys(d) \/ DeleteRow(d) \/ DeleteObject(d)

==============================================================================

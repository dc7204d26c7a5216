------------------------------ MODULE Dashboard ------------------------------
(***************************************************************************)
(* The dashboard (frontend App.tsx) as a state machine: the list of        *)
(* invoices it shows, what is selected and opened, and the card of the     *)
(* ingestion job, which follows a stream.  What one callback does between  *)
(* two awaits is one step.                                                 *)
(*                                                                         *)
(* Lists and details are asked for all the time: on a change of the tab,   *)
(* after every operation, at every message of the stream.  No request is   *)
(* cancelled or put in order, so an answer of any age may come at any      *)
(* time, or not at all; instead of the requests on their way the model     *)
(* keeps what the server held up to now.  A handler goes on with the       *)
(* values it saw when it was called, such as an invoice that was open.     *)
(*                                                                         *)
(* The active invoice and the popup use one hook and do not influence each *)
(* other, nor do they and the card of the job, which makes lists be loaded *)
(* more often: a behaviour is about one of these parts of the page.        *)
(***************************************************************************)
EXTENDS Naturals, FiniteSets

CONSTANTS
  Invoice,      \* ids of invoices
  None,
  Initial,      \* statuses of the rows when the dashboard is opened
  MaxChanges    \* bound: changes of rows

Status == {"PENDING", "PARSED", "APPROVED", "EXPORTED", "deleted"}

ASSUME DashboardAssumption ==
  /\ None \notin Invoice /\ IsFiniteSet(Invoice) /\ MaxChanges \in Nat
  /\ Initial \subseteq Status \ {"deleted"}

VARIABLES
  part,      \* "active", "popup" or "card"
  past,      \* at the server: what the rows were, and are
  rows,      \* at the server: status and updatedAt of each invoice
  list,      \* the invoices shown
  selected,  \* selectedIds
  open,      \* activeId or popupInvoiceId
  detail,    \* the invoice in full, of the panel
  answer,    \* what a handler will hear of its request, or None
  job,       \* at the server: the status of the ingestion job
  said,      \* at the server: what the status was, and is
  card,      \* ingestionStatus: the status shown, or None
  rendered,  \* ... when the effects ran last
  stream,    \* is the stream open?
  sent,      \* the last status on its way in the stream, or None
  broke,     \* history: the last stream broke
  lost       \* history: before the page was rendered, an answer replaced the
             \* last message of the stream, which said that the job had ended

shown == <<list, selected, open, detail>>
lapses == <<broke, lost>>
jobs  == <<job, said, card, rendered, stream, sent, lapses>>
vars  == <<part, shown, past, rows, answer, jobs>>

(* selection.ts.  PARSED stands for NEEDS_REVIEW and the failures, too. *)
Selectable(row) == row.status \notin {"EXPORTED", "PENDING"}
Retryable(row)  == row.status # "EXPORTED"
Approvable(row) == row.status = "PARSED"
Exportable(row) == row.status = "APPROVED"

(* A bug: only what is left in the list stays selected. *)
MergeListed(ids, l) == ids \cap DOMAIN l

MergeSelected(ids, l) == ids \ {i \in DOMAIN l : ~Selectable(l[i])}

Chosen(ids, Test(_)) == {i \in ids \cap DOMAIN list : Test(list[i])}

Existing(r) == {i \in Invoice : r[i].status # "deleted"}

(* fetchInvoices, under the tab "ALL" or that of a status *)
Listed(r) ==
  {[i \in ids |-> r[i]] :
     ids \in {Existing(r)} \cup {{i \in Existing(r) : r[i].status = s} : s \in Status}}

(* An IngestionJobStatus.  A pause is shown while the file in hand is still *)
(* read, and the last progress event of a job says only that it ended.     *)
Idle   == [state |-> "idle", running |-> FALSE]
JobStatus == [state : {"running", "paused"}, running : BOOLEAN]
             \cup [state : {"completed", "failed"}, running : {FALSE}]
Running(c) == c # None /\ c.running

Init ==
  /\ part \in {"active", "popup", "card"}
  /\ rows \in [Invoice -> [status : Initial, at : {0}]] /\ past = {rows}
  /\ part = "card" => \A i, k \in Invoice : rows[i] = rows[k]
  /\ list = [i \in {} |-> 0] /\ selected = {} /\ open = None /\ detail = None
  /\ answer = None
  /\ job = Idle /\ said = {job}
  /\ card = None /\ rendered = None /\ stream = FALSE /\ sent = None
  /\ broke = FALSE /\ lost = FALSE

-----------------------------------------------------------------------------
Panel == part \in {"active", "popup"}

(* Rows change: by the worker or other users, or by an operation. *)
Change(ids, status(_)) ==
  /\ ids # {} => Cardinality(past) <= MaxChanges
  /\ rows' = [i \in Invoice |-> IF i \in ids
                THEN [status |-> status(i), at |-> Cardinality(past)] ELSE rows[i]]
  /\ past' = past \cup {rows'}

Open(ids) == {i \in ids : rows[i].status \notin {"EXPORTED", "deleted"}}

OthersChange ==
  /\ Panel
  /\ \E i \in Open(Invoice), s \in Status : Change({i}, LAMBDA k : s)
  /\ UNCHANGED <<part, shown, answer, jobs>>

(***************************************************************************)
(* A list replaces the one shown, whatever was shown meanwhile; what it    *)
(* shows as exported or pending is deselected; if its caller saw an        *)
(* invoice open that is not in the list, the panel is closed, or moved to  *)
(* the first invoice.  An id that becomes None clears the detail.          *)
(***************************************************************************)
BecomesOpen(i) ==
  /\ open' = i
  /\ detail' = IF i = None /\ open # None THEN None ELSE detail

ShowList ==
  /\ Panel
  /\ \E r \in past : \E l \in Listed(r), saw \in Invoice \cup {None} :
       LET ids   == DOMAIN l
           first == IF part = "popup" \/ ids = {} THEN {None} ELSE ids
       IN /\ list' = l
          /\ selected' = MergeSelected(selected, l)
          /\ \E i \in (IF saw # None /\ saw \notin ids THEN first ELSE {open}) : BecomesOpen(i)
  /\ UNCHANGED <<part, past, rows, answer, jobs>>

(* An invoice in full: of the one that is open, or of another one that was *)
(* when it was asked for.  None if the invoice is deleted or the request   *)
(* failed.                                                                 *)
ShowDetail ==
  /\ Panel
  /\ \E r \in past :
       detail' \in {None} \cup {[id |-> i, row |-> r[i]] : i \in Existing(r)}
  /\ UNCHANGED <<part, past, rows, list, selected, open, answer, jobs>>

-----------------------------------------------------------------------------
(* selectNewerInvoice: the detail, unless it is of another invoice or      *)
(* older than the list's row.                                              *)
Newer(d, i) ==
  IF i \notin DOMAIN list THEN d
  ELSE IF d = None \/ d.id # i \/ d.row.at < list[i].at THEN [id |-> i, row |-> list[i]]
  ELSE d

(* activeInvoice or popupInvoice *)
Displayed == Newer(detail, open)

(* A row or its file name is clicked; the popup is closed. *)
Click(i) ==
  /\ i \in DOMAIN list \/ (part = "popup" /\ i = None)
  /\ BecomesOpen(i)
  /\ UNCHANGED <<part, past, rows, list, selected, answer, jobs>>

Toggle(i) ==
  /\ i \in DOMAIN list /\ Selectable(list[i])
  /\ selected' = IF i \in selected THEN selected \ {i} ELSE selected \cup {i}
  /\ UNCHANGED <<part, past, rows, list, open, detail, answer, jobs>>

(* toggleSelectAllVisible; visible is what the search leaves of the list *)
ToggleAll ==
  /\ \E visible \in SUBSET Chosen(DOMAIN list, Selectable) \ {{}} :
       selected' = IF visible \subseteq selected THEN selected \ visible
                                                 ELSE selected \cup visible
  /\ UNCHANGED <<part, past, rows, list, open, detail, answer, jobs>>

(***************************************************************************)
(* The handlers.  The server does to the rows what their status allows     *)
(* now; an export may fail for some.  What the handler deselects, it       *)
(* deselects when it hears of it: everything after a deletion or a retry   *)
(* that affected a row, what was exported after an export.                 *)
(***************************************************************************)
Request(ids, able(_), become(_), deselect(_)) ==
  /\ ids # {} /\ answer = None
  /\ \E done \in SUBSET {i \in ids : able(rows[i])} :
       /\ Change(done, become)
       /\ answer' = deselect(done)
  /\ UNCHANGED <<part, shown, jobs>>

Modifiable(row) == row.status \notin {"EXPORTED", "deleted"}

All(done)   == IF done = {} THEN {} ELSE Invoice
These(done) == done
Nobody(done) == {}

Approve == Request(Chosen(selected, Approvable), Approvable, LAMBDA i : "APPROVED", Nobody)
Retry   == Request(Chosen(selected, Retryable), Modifiable, LAMBDA i : "PENDING", All)
Delete  == Request(selected, Modifiable, LAMBDA i : "deleted", All)
DeleteSingle ==
  \E i \in DOMAIN list : Request({i}, Modifiable, LAMBDA k : "deleted", These)
SaveListCell ==
  \E i \in Chosen(DOMAIN list, Retryable) :
    Request({i}, Modifiable, LAMBDA k : rows[k].status, Nobody)
SaveField ==
  /\ part = "popup" /\ Displayed # None /\ Retryable(Displayed.row)
  /\ Request({Displayed.id}, Modifiable, LAMBDA k : rows[k].status, Nobody)

(***************************************************************************)
(* handleExport deselects what was exported, handleDownloadXml what it     *)
(* asked for and the server did not skip; it stops if none was approved    *)
(* any more.  The marking of an exported row may fail.                     *)
(***************************************************************************)
Export ==
  LET ids      == Chosen(selected, Exportable)
      approved == {i \in ids : Exportable(rows[i])}
  IN /\ ids = selected \cap DOMAIN list
     /\ ids # {} /\ answer = None
     /\ \E exported \in SUBSET approved : \E marked \in SUBSET exported :
          /\ Change(marked, LAMBDA i : "EXPORTED")
          /\ answer' \in {exported} \cup
                (IF approved = {} THEN {} ELSE {ids \ (approved \ exported)})
     /\ UNCHANGED <<part, shown, jobs>>

(* The answer comes, or the request failed, whether the server acted or    *)
(* not.                                                                    *)
Answered ==
  /\ answer # None
  /\ selected' \in {selected \ answer, selected}
  /\ answer' = None
  /\ UNCHANGED <<part, past, rows, list, open, detail, jobs>>

-----------------------------------------------------------------------------
(***************************************************************************)
(* The card.  Statuses of any age arrive as answers to a refresh, to a     *)
(* start or to a pause; a stream begins with the status of its time and    *)
(* then has, in order, those that are broadcast.  When the page has been   *)
(* rendered, the effects see whether running has changed: they open a      *)
(* stream or close it.  A completed job is hidden after 3.5 seconds.       *)
(***************************************************************************)
OfPage == <<part, shown, past, rows, answer>>

Report(status) == job' = status /\ said' = said \cup {status}

(* A job, or two that overlap, and a pause of it: IngestionJobs says which  *)
(* status follows which.                                                   *)
JobChanges ==
  /\ part = "card" /\ job # Idle
  /\ \E status \in JobStatus :
       /\ Report(status)
       /\ sent' = IF stream THEN status ELSE sent
  /\ lost' = (lost /\ ~stream)
  /\ UNCHANGED <<OfPage, card, rendered, stream, broke>>

(* POST /jobs/ingest starts a job unless one runs; others may do so, too.  *)
(* Nobody is told but who asked.                                           *)
Ingest ==
  /\ part = "card" /\ ~job.running
  /\ Report([state |-> "running", running |-> TRUE])
  /\ UNCHANGED <<OfPage, card, rendered, stream, sent, lapses>>

(* setIngestionStatus by a handler or a refresh *)
HearAnswer ==
  /\ part = "card"
  /\ card' \in said
  /\ lost' = (lost \/ (Running(rendered) /\ ~Running(card) /\ Running(card')))
  /\ UNCHANGED <<OfPage, job, said, rendered, stream, sent, broke>>

(* ... and by a message: one that others follow, or the last one so far    *)
HearMessage ==
  /\ sent # None
  /\ \/ card' \in said /\ UNCHANGED sent
     \/ card' = sent /\ sent' = None
  /\ UNCHANGED <<OfPage, job, said, rendered, stream, lapses>>

(* A bug: a stream has but what is broadcast after it was opened. *)
Silence == None

(* The server begins a stream with the status, if it ever had one. *)
Greeting == IF job = Idle THEN None ELSE job

(* A bug: only the first status that runs is followed. *)
FollowOnce(new) == Running(new) /\ rendered = None

Follow(new) == Running(new) /\ ~Running(rendered)

(* The effects *)
Render ==
  /\ rendered # card
  /\ rendered' = card
  /\ stream' = (Follow(card) \/ (stream /\ Running(card)))
  /\ sent' = IF Follow(card) THEN Greeting ELSE IF Running(card) THEN sent ELSE None
  /\ broke' = (broke /\ ~Follow(card)) /\ lost' = (lost /\ ~Follow(card))
  /\ UNCHANGED <<OfPage, job, said, card>>

(* The stream is closed on an error and the status asked for: if the job   *)
(* still runs, nothing opens a stream again.                               *)
Break ==
  /\ stream
  /\ stream' = FALSE /\ sent' = None /\ broke' = TRUE
  /\ UNCHANGED <<OfPage, job, said, card, rendered, lost>>

Hide ==
  /\ rendered # None /\ rendered.state = "completed"
  /\ card' = None
  /\ UNCHANGED <<OfPage, job, said, rendered, stream, sent, lapses>>

-----------------------------------------------------------------------------
Act == Approve \/ Retry \/ Delete \/ DeleteSingle \/ Export \/ SaveListCell \/ SaveField

Next ==
  \/ OthersChange \/ ShowList \/ ShowDetail \/ Act \/ Answered
  \/ \E i \in Invoice \cup {None} : Click(i)
  \/ \E i \in Invoice : Toggle(i)
  \/ ToggleAll
  \/ JobChanges \/ Ingest \/ HearAnswer \/ HearMessage \/ Render \/ Break \/ Hide

Spec == Init /\ [][Next]_vars

-----------------------------------------------------------------------------
(* No invoice that is shown as exported or pending is selected, whatever   *)
(* list came late and whatever was toggled since (mergeSelectedIds), so no *)
(* export names one that is not shown as approved.                         *)
SelectionIsOpen ==
  \A i \in selected \cap DOMAIN list : Selectable(list[i])

(* A page that says that a job is running follows it, unless its stream    *)
(* broke: every job and not only the first, however the answer to a start, *)
(* refreshes and messages of an earlier stream overtake each other (the    *)
(* effect on ingestionStatus.running).                                     *)
RunningIsFollowed == Running(rendered) => stream \/ broke

(* A page that shows a job as running when it has ended hears of the end:  *)
(* it is on its way in the stream, or the stream that will be opened       *)
(* begins with it - however starts, ends, streams opened and closed and    *)
(* answers of any age overtake each other (GET /jobs/ingest/sse).  The     *)
(* exceptions: the stream broke, or the end was heard and an answer that   *)
(* is older replaced it before the effects saw it.                         *)
EndIsHeard ==
  Running(card) /\ ~job.running /\ ~broke /\ ~lost =>
    IF Running(rendered) THEN sent = job ELSE Greeting = job

=============================================================================

---------------------------- MODULE IngestionJobs ----------------------------
(***************************************************************************)
(* The ingestion jobs of one API process (routes/jobs.ts): the status of   *)
(* each tenant's job in a map, the runs of IngestionService behind them,   *)
(* the pause flag all runs share, and the event streams that show a status *)
(* to browsers.  Everything is in memory; handlers and the code of a run   *)
(* between two awaits are atomic, so a run is a step per await: reading a  *)
(* source, processing a file, saving the checkpoint.  What a run does to   *)
(* rows and checkpoints is in Ingestion.                                   *)
(***************************************************************************)
EXTENDS Integers, FiniteSets

CONSTANTS
  Tenant,
  Run,        \* runs that may be active at a time
  NoTenant,   \* the tenant of a run that is not active
  Client,     \* browsers with an event stream
  MaxSources, \* bound: sources of one run
  MaxFiles    \* bound: new files in one source

ASSUME NoTenantAssumption == NoTenant \notin Tenant
ASSUME BoundAssumption == MaxSources \in Nat \ {0} /\ MaxFiles \in Nat

VARIABLES
  status,         \* currentJobStatusByTenant, the idle status if absent
  run,            \* the runs: where they are, and what was asked of them
  pauseRequested, \* IngestionService.pauseRequested
  client          \* of each stream its tenant and the last event it got

vars == <<status, run, pauseRequested, client>>

Count == Nat

Status == [state : {"idle", "running", "completed", "failed", "paused"},
           running : BOOLEAN, total : Count, processed : Count]

Idle    == [state |-> "idle", running |-> FALSE, total |-> 0, processed |-> 0]
Started == [state |-> "running", running |-> TRUE, total |-> 0, processed |-> 0]

(* Besides the program's own variables a run records whether anybody asked *)
(* for a pause since it started (asked), and how many files it finished    *)
(* (late) since its own tenant did (pausing) and no other job started.     *)
RunRecord == [tenant : Tenant \cup {NoTenant},
              pc : {"scan", "file", "saving"},
              sources : 0..MaxSources, left : 0..MaxFiles,
              asked : BOOLEAN, pausing : BOOLEAN, late : Count]

NoRun == [tenant |-> NoTenant, pc |-> "scan", sources |-> 0, left |-> 0,
          asked |-> FALSE, pausing |-> FALSE, late |-> 0]

NewRun(t) == [NoRun EXCEPT !.tenant = t, !.sources = MaxSources]

Active(r) == run[r].tenant # NoTenant

NoClient == [tenant |-> NoTenant, seen |-> Idle]

TypeOK ==
  /\ status \in [Tenant -> Status]
  /\ run \in [Run -> RunRecord]
  /\ pauseRequested \in BOOLEAN
  /\ client \in [Client -> [tenant : Tenant \cup {NoTenant}, seen : Status]]

Init ==
  /\ status = [t \in Tenant |-> Idle]
  /\ run = [r \in Run |-> NoRun]
  /\ pauseRequested = FALSE
  /\ client = [c \in Client |-> NoClient]

-------------------------------------------------------------------------------
PublishSilently(t, st) ==   \* mutant of Publish: no broadcast
  /\ status' = [status EXCEPT ![t] = st]
  /\ UNCHANGED client

(* setCurrentStatus followed by broadcastToSubscribers                       *)
Publish(t, st) ==
  /\ status' = [status EXCEPT ![t] = st]
  /\ client' = [c \in Client |->
                  IF client[c].tenant = t THEN [client[c] EXCEPT !.seen = st]
                  ELSE client[c]]

(* A progress event of a run that goes on: a pause just shown is hidden    *)
(* again until the run reaches its check.                                  *)
Progress(t, total, processed) ==
  Publish(t, [state |-> "running", running |-> TRUE,
              total |-> total, processed |-> processed])

(* The last progress event and the then or catch of the job, with only     *)
(* microtasks in between.  A run that ends without an exception shows all  *)
(* its files as processed, a paused one too.                               *)
Finished(st, state) ==
  [st EXCEPT !.state = state, !.running = FALSE,
             !.processed = IF st.total > @ THEN st.total ELSE @]

Failed(st) == [st EXCEPT !.state = "failed", !.running = FALSE]

End(r, st) ==
  /\ run' = [run EXCEPT ![r] = NoRun]
  /\ Publish(run[r].tenant, st)

-------------------------------------------------------------------------------
StartableAlways(t) == TRUE   \* mutant of Startable

Startable(t) == ~status[t].running

ClearedNever == pauseRequested   \* mutant of Cleared

(* runOnce starts by clearing the flag, whoever asked for a pause. *)
Cleared == FALSE

(***************************************************************************)
(* POST /jobs/ingest, and the second half of POST /jobs/ingest/email-      *)
(* simulate, which looks at the status again after it has sent its mails.  *)
(* Up to the first await of runOnce this is one step.                      *)
(***************************************************************************)
StartJob(t) ==
  /\ Startable(t)
  /\ \E r \in Run :
       /\ ~Active(r)
       /\ run' = [q \in Run |->
                    IF q = r THEN NewRun(t)
                    ELSE [run[q] EXCEPT !.pausing = FALSE, !.late = 0]]
  /\ pauseRequested' = Cleared
  /\ Publish(t, Started)

CompleteLate(r) ==   \* mutant of Complete: off by one, the end is missed
  /\ run[r].sources = 0
  /\ End(r, Finished(status[run[r].tenant], "completed"))

(* The last source is done. *)
Complete(r) ==
  /\ run[r].sources = 1
  /\ End(r, Finished(status[run[r].tenant], "completed"))

(* Another one is left. *)
NextSource(r) ==
  /\ run[r].sources > 1
  /\ run' = [run EXCEPT ![r].pc = "scan", ![r].sources = @ - 1, ![r].left = 0]

FoundLast(t, n) == n   \* mutant of Found: the last source only

Found(t, n) == status[t].total + n

(* A source was listed and filtered; an event shows the new total. *)
Scan(r) ==
  LET t == run[r].tenant IN
  /\ Active(r) /\ run[r].pc = "scan"
  /\ UNCHANGED pauseRequested
  /\ \/ \E n \in 1..MaxFiles :
          /\ run' = [run EXCEPT ![r].pc = "file", ![r].left = n]
          /\ Progress(t, Found(t, n), status[t].processed)
     \/ NextSource(r) /\ Progress(t, status[t].total, status[t].processed)
     \/ Complete(r)

(* processFile resolved. *)
FileDone(r) ==
  /\ Active(r) /\ run[r].pc = "file"
  /\ run' = [run EXCEPT ![r].pc = "saving",
                        ![r].late = IF run[r].pausing THEN @ + 1 ELSE @]
  /\ LET t == run[r].tenant IN
     Progress(t, status[t].total, status[t].processed + 1)
  /\ UNCHANGED pauseRequested

PauseSeenLate(r) == pauseRequested /\ run[r].left = 1  \* mutant of PauseSeen

PauseSeen(r) == pauseRequested

(* The checkpoint is saved: pause, next file or next source. *)
CheckpointSaved(r) ==
  /\ Active(r) /\ run[r].pc = "saving"
  /\ UNCHANGED pauseRequested
  /\ \/ /\ PauseSeen(r)
        /\ End(r, Finished(status[run[r].tenant], "paused"))
     \/ /\ ~PauseSeen(r)
        /\ run[r].left > 1
        /\ run' = [run EXCEPT ![r].pc = "file", ![r].left = @ - 1]
        /\ UNCHANGED <<status, client>>
     \/ /\ ~PauseSeen(r)
        /\ run[r].left = 1
        /\ \/ NextSource(r) /\ UNCHANGED <<status, client>>
           \/ Complete(r)

(* A source, the database or a row of a file throws. *)
Throw(r) ==
  /\ Active(r)
  /\ End(r, Failed(status[run[r].tenant]))
  /\ UNCHANGED pauseRequested

Pausing(st) == [st EXCEPT !.state = "pausing"]   \* mutant of Paused

Paused(st) == [st EXCEPT !.state = "paused"]

(* POST /jobs/ingest/pause; without a running job it changes nothing. *)
Pause(t) ==
  /\ status[t].running
  /\ pauseRequested' = TRUE
  /\ run' = [r \in Run |->
               [run[r] EXCEPT !.asked = Active(r),
                              !.pausing = @ \/ run[r].tenant = t]]
  /\ Publish(t, Paused(status[t]))

(* GET /jobs/ingest/sse: the current status at once, then every change. *)
Subscribe(c, t) ==
  /\ client[c].tenant = NoTenant
  /\ client' = [client EXCEPT ![c] = [tenant |-> t, seen |-> status[t]]]
  /\ UNCHANGED <<status, run, pauseRequested>>

Close(c) ==
  /\ client[c].tenant # NoTenant
  /\ client' = [client EXCEPT ![c] = NoClient]
  /\ UNCHANGED <<status, run, pauseRequested>>

(* The process restarts: the map, the flag, the runs and the streams go. *)
Restart ==
  /\ status' = [t \in Tenant |-> Idle]
  /\ run' = [r \in Run |-> NoRun]
  /\ pauseRequested' = FALSE
  /\ client' = [c \in Client |-> NoClient]

RunStep(r) == Scan(r) \/ FileDone(r) \/ CheckpointSaved(r)

Next ==
  \/ \E t \in Tenant : StartJob(t) \/ Pause(t)
  \/ \E r \in Run : RunStep(r) \/ Throw(r)
  \/ \E c \in Client : Close(c) \/ \E t \in Tenant : Subscribe(c, t)
  \/ Restart

(* Sources, the database and the extraction answer or throw in the end. *)
Spec == Init /\ [][Next]_vars /\ \A r \in Run : WF_vars(RunStep(r))

-------------------------------------------------------------------------------
(***************************************************************************)
(* A tenant has one run at a time, and exactly while the status says so:   *)
(* two ingest requests, or one during the mail simulation of another, do   *)
(* not start two, and no end of a run leaves the status running.           *)
(***************************************************************************)
OneJobPerTenant ==
  /\ \A q, r \in Run : Active(r) /\ run[q].tenant = run[r].tenant => q = r
  /\ \A t \in Tenant : status[t].running <=> \E r \in Run : run[r].tenant = t

(* The counts a browser divides to draw its progress bar: never more files *)
(* processed than found, and the files a run still has are those missing.  *)
CountsAgree ==
  /\ \A t \in Tenant : status[t].processed <= status[t].total
  /\ \A r \in Run : Active(r) =>
       LET st == status[run[r].tenant]
       IN  st.total - st.processed =
             IF run[r].pc = "saving" THEN run[r].left - 1 ELSE run[r].left

(* Every open stream has been told the current status of its tenant. *)
StreamsAreCurrent ==
  \A c \in Client : client[c].tenant # NoTenant =>
    client[c].seen = status[client[c].tenant]

(* A job whose tenant paused it finishes at most the file it is at or, if  *)
(* it was listing a source, the first file of it; unless another tenant    *)
(* starts a job meanwhile, which clears the flag for all.                  *)
PauseIsHonoured == \A r \in Run : run[r].late <= 1

(***************************************************************************)
(* A run stops early only if some tenant's pause was accepted while it was *)
(* active: a pause that came too late to stop its own run is not left for  *)
(* a later one.  It may have been another tenant's pause.                  *)
(***************************************************************************)
StopsOnlyIfAsked ==
  [][\A t \in Tenant, r \in Run :
       /\ run[r].tenant = t /\ status[t].running
       /\ ~status'[t].running /\ status'[t].state = "paused"
       => run[r].asked]_vars

(* A job ends, so that the tenant can start another one. *)
JobEnds == \A t \in Tenant : status[t].running ~> ~status[t].running

==============================================================================

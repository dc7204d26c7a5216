------------------------- MODULE IngestionJobs_proofs -------------------------
(***************************************************************************)
(* The safety of IngestionJobs for any tenants, runs, browsers and bounds. *)
(***************************************************************************)
EXTENDS IngestionJobs, TLAPS

(* Every status a handler or a run publishes is one.                         *)
LEMMA StatusTypes ==
  /\ Idle \in Status /\ Started \in Status
  /\ \A st \in Status, state \in {"completed", "paused"} :
       Finished(st, state) \in Status
  /\ \A st \in Status : Failed(st) \in Status /\ Paused(st) \in Status
  /\ \A m, n \in Nat :
       [state |-> "running", running |-> TRUE, total |-> m, processed |-> n]
         \in Status
BY DEF Status, Count, Idle, Started, Finished, Failed, Paused

LEMMA RunTypes ==
  /\ NoRun \in RunRecord
  /\ \A t \in Tenant : NewRun(t) \in RunRecord
<1>1. NoRun \in RunRecord
  BY BoundAssumption DEF NoRun, RunRecord, Count
<1>2. MaxSources \in 0..MaxSources
  BY BoundAssumption
<1>3. ASSUME NEW t \in Tenant
      PROVE  [NoRun EXCEPT !.tenant = t, !.sources = MaxSources] \in RunRecord
  BY <1>1, <1>2 DEF RunRecord
<1> QED
  BY <1>1, <1>3 DEF NewRun

LEMMA TypeInit == Init => TypeOK
<1> SUFFICES ASSUME Init PROVE TypeOK
  OBVIOUS
<1>1. NoClient \in [tenant : Tenant \cup {NoTenant}, seen : Status]
  BY StatusTypes DEF NoClient
<1> QED
  BY <1>1, StatusTypes, RunTypes DEF Init, TypeOK

LEMMA PublishType ==
  ASSUME TypeOK, NEW t \in Tenant, NEW st \in Status, Publish(t, st)
  PROVE  /\ status' \in [Tenant -> Status]
         /\ client' \in [Client -> [tenant : Tenant \cup {NoTenant}, seen : Status]]
<1>1. \A c \in Client : [client[c] EXCEPT !.seen = st]
                          \in [tenant : Tenant \cup {NoTenant}, seen : Status]
  BY DEF TypeOK
<1> QED
  BY <1>1 DEF Publish, TypeOK

-------------------------------------------------------------------------------
(* What a run can do: end with a status that does not run, or go on, with  *)
(* a progress event or without.                                            *)
Ends(r) ==
  \E st \in Status :
    /\ ~st.running
    /\ (st.state = "paused") => PauseSeen(r)
    /\ st.processed <= st.total \/ status[run[r].tenant].processed > status[run[r].tenant].total
    /\ End(r, st)

GoesOn(r) ==
  \E rec \in RunRecord :
    /\ rec.tenant = run[r].tenant
    /\ run' = [run EXCEPT ![r] = rec]
    /\ \/ UNCHANGED <<status, client>>
       \/ \E m, n \in Nat : Progress(run[r].tenant, m, n)

LEMMA NextSourceGoesOn ==
  ASSUME TypeOK, NEW r \in Run, Active(r), NextSource(r)
  PROVE  \E rec \in RunRecord :
           /\ rec.tenant = run[r].tenant /\ rec.pc = "scan" /\ rec.left = 0
           /\ run' = [run EXCEPT ![r] = rec]
<1> DEFINE rec == [run[r] EXCEPT !.pc = "scan", !.sources = @ - 1, !.left = 0]
<1>1. rec \in RunRecord /\ rec.tenant = run[r].tenant
  BY BoundAssumption DEF TypeOK, RunRecord, NextSource
<1>2. rec.pc = "scan" /\ rec.left = 0
  BY DEF TypeOK, RunRecord
<1>3. run' = [run EXCEPT ![r] = rec]
  BY DEF NextSource, TypeOK
<1> HIDE DEF rec
<1> QED
  BY <1>1, <1>2, <1>3

LEMMA FinishedEnds ==
  ASSUME TypeOK, NEW r \in Run, Active(r), NEW state \in {"completed", "paused"},
         End(r, Finished(status[run[r].tenant], state)),
         state = "paused" => PauseSeen(r)
  PROVE  Ends(r)
<1> DEFINE old == status[run[r].tenant]
           st == Finished(old, state)
<1>1. old \in Status
  BY DEF TypeOK, RunRecord, Active
<1>2. st \in Status
  BY <1>1, StatusTypes
<1>3. /\ ~st.running /\ st.state = state /\ st.total = old.total
      /\ st.processed = IF old.total > old.processed THEN old.total
                        ELSE old.processed
  BY <1>1 DEF Finished, Status
<1>4. st.processed <= st.total \/ old.processed > old.total
  BY <1>1, <1>3 DEF Status, Count
<1> QED
  BY <1>2, <1>3, <1>4 DEF Ends

LEMMA ThrowEnds ==
  ASSUME TypeOK, NEW r \in Run, Throw(r)
  PROVE  Ends(r)
<1> DEFINE old == status[run[r].tenant]
<1>1. old \in Status /\ old.total \in Nat /\ old.processed \in Nat
  BY DEF TypeOK, RunRecord, Active, Throw, Status, Count
<1>2. /\ Failed(old) \in Status /\ ~Failed(old).running
      /\ Failed(old).state = "failed"
      /\ Failed(old).processed = old.processed /\ Failed(old).total = old.total
  BY <1>1, StatusTypes DEF Failed, Status
<1>3. Failed(old).processed <= Failed(old).total \/ old.processed > old.total
  BY <1>1, <1>2
<1> QED
  BY <1>2, <1>3 DEF Throw, Ends

LEMMA RunStepShape ==
  ASSUME TypeOK, NEW r \in Run, RunStep(r) \/ Throw(r)
  PROVE  Active(r) /\ UNCHANGED pauseRequested /\ (Ends(r) \/ GoesOn(r))
<1>0. Active(r) /\ UNCHANGED pauseRequested
  BY DEF RunStep, Scan, FileDone, CheckpointSaved, Throw
<1> DEFINE t == run[r].tenant
<1>t. /\ t \in Tenant /\ run[r] \in RunRecord /\ status[t] \in Status
      /\ status[t].total \in Nat /\ status[t].processed \in Nat
  BY <1>0 DEF TypeOK, RunRecord, Active, Status, Count
<1>1. CASE Complete(r)
  BY <1>0, <1>1, FinishedEnds DEF Complete
<1>2. CASE Scan(r)
  <2>1. ASSUME NEW n \in 1..MaxFiles,
               run' = [run EXCEPT ![r].pc = "file", ![r].left = n],
               Progress(t, Found(t, n), status[t].processed)
        PROVE  GoesOn(r)
    <3> DEFINE rec == [run[r] EXCEPT !.pc = "file", !.left = n]
    <3>0. n \in 0..MaxFiles
      BY BoundAssumption
    <3>1. rec \in RunRecord /\ rec.tenant = t
      BY <1>t, <3>0 DEF RunRecord
    <3>2. run' = [run EXCEPT ![r] = rec]
      BY <2>1 DEF TypeOK
    <3>3. Found(t, n) \in Nat
      BY <1>t, BoundAssumption DEF Found
    <3> QED
      BY <1>t, <2>1, <3>1, <3>2, <3>3 DEF GoesOn
  <2>2. ASSUME NextSource(r), Progress(t, status[t].total, status[t].processed)
        PROVE  GoesOn(r)
    BY <1>0, <1>t, <2>2, NextSourceGoesOn DEF GoesOn
  <2> QED
    BY <1>0, <1>1, <1>2, <2>1, <2>2 DEF Scan
<1>3. CASE FileDone(r)
  <2> DEFINE rec == [run[r] EXCEPT !.pc = "saving",
                       !.late = IF run[r].pausing THEN @ + 1 ELSE @]
  <2>0. (IF run[r].pausing THEN run[r].late + 1 ELSE run[r].late) \in Count
    BY <1>t DEF RunRecord, Count
  <2>1. rec \in RunRecord /\ rec.tenant = t
    BY <1>t, <2>0 DEF RunRecord
  <2>2. run' = [run EXCEPT ![r] = rec]
    BY <1>3 DEF TypeOK, FileDone
  <2>3. Progress(t, status[t].total, status[t].processed + 1)
    BY <1>3 DEF FileDone
  <2>4. status[t].processed + 1 \in Nat
    BY <1>t
  <2> HIDE DEF rec
  <2> QED
    BY <1>0, <1>t, <2>1, <2>2, <2>3, <2>4 DEF GoesOn
<1>4. CASE CheckpointSaved(r)
  <2>1. CASE PauseSeen(r) /\ End(r, Finished(status[t], "paused"))
    BY <1>0, <2>1, FinishedEnds
  <2>2. CASE /\ run[r].left > 1
             /\ run' = [run EXCEPT ![r].pc = "file", ![r].left = @ - 1]
             /\ UNCHANGED <<status, client>>
    <3> DEFINE rec == [run[r] EXCEPT !.pc = "file", !.left = @ - 1]
    <3>0. run[r].left - 1 \in 0..MaxFiles
      BY <1>t, <2>2, BoundAssumption DEF RunRecord
    <3>1. rec \in RunRecord /\ rec.tenant = t
      BY <1>t, <3>0 DEF RunRecord
    <3>2. run' = [run EXCEPT ![r] = rec]
      BY <2>2 DEF TypeOK
    <3> HIDE DEF rec
    <3> QED
      BY <1>0, <2>2, <3>1, <3>2 DEF GoesOn
  <2>3. CASE NextSource(r) /\ UNCHANGED <<status, client>>
    BY <1>0, <2>3, NextSourceGoesOn DEF GoesOn
  <2> QED
    BY <1>1, <1>4, <2>1, <2>2, <2>3 DEF CheckpointSaved
<1>5. CASE Throw(r)
  BY <1>0, <1>5, ThrowEnds
<1> QED
  BY <1>0, <1>2, <1>3, <1>4, <1>5 DEF RunStep

LEMMA TypeNext == TypeOK /\ [Next]_vars => TypeOK'
<1> SUFFICES ASSUME TypeOK, [Next]_vars PROVE TypeOK'
  OBVIOUS
<1>1. ASSUME NEW t \in Tenant, StartJob(t) PROVE TypeOK'
  <2>1. ASSUME NEW q \in Run
        PROVE  [run[q] EXCEPT !.pausing = FALSE, !.late = 0] \in RunRecord
    <3>1. run[q] \in RunRecord
      BY DEF TypeOK
    <3> QED
      BY <3>1 DEF RunRecord, Count
  <2>2. run' \in [Run -> RunRecord]
    BY <1>1, <2>1, RunTypes DEF StartJob
  <2> QED
    BY <1>1, <2>2, PublishType, StatusTypes DEF StartJob, Cleared, TypeOK
<1>2. ASSUME NEW t \in Tenant, Pause(t) PROVE TypeOK'
  <2>1. ASSUME NEW r \in Run
        PROVE  [run[r] EXCEPT !.asked = Active(r),
                              !.pausing = @ \/ run[r].tenant = t] \in RunRecord
    <3>1. run[r] \in RunRecord
      BY DEF TypeOK
    <3>2. Active(r) \in BOOLEAN /\ (run[r].pausing \/ run[r].tenant = t) \in BOOLEAN
      BY DEF Active
    <3> QED
      BY <3>1, <3>2 DEF RunRecord
  <2>2. Paused(status[t]) \in Status
    BY StatusTypes DEF TypeOK
  <2> QED
    BY <1>2, <2>1, <2>2, PublishType DEF Pause, TypeOK
<1>3. ASSUME NEW r \in Run, RunStep(r) \/ Throw(r) PROVE TypeOK'
  <2>0. Active(r) /\ UNCHANGED pauseRequested /\ (Ends(r) \/ GoesOn(r))
    BY <1>3, RunStepShape
  <2>1. run[r].tenant \in Tenant
    BY <2>0 DEF TypeOK, RunRecord, Active
  <2>2. CASE Ends(r)
    BY <2>0, <2>1, <2>2, RunTypes, PublishType DEF Ends, End, TypeOK
  <2>3. CASE GoesOn(r)
    BY <2>0, <2>1, <2>3, StatusTypes, PublishType DEF GoesOn, Progress, TypeOK
  <2> QED
    BY <2>0, <2>2, <2>3
<1>4. ASSUME NEW c \in Client, NEW t \in Tenant, Subscribe(c, t) PROVE TypeOK'
  BY <1>4 DEF Subscribe, TypeOK
<1>5. ASSUME NEW c \in Client, Close(c) PROVE TypeOK'
  BY <1>5, StatusTypes DEF Close, NoClient, TypeOK
<1>6. CASE Restart
  BY <1>6, StatusTypes, RunTypes DEF Restart, NoClient, TypeOK
<1>7. CASE UNCHANGED vars
  BY <1>7 DEF vars, TypeOK
<1> QED
  BY <1>1, <1>2, <1>3, <1>4, <1>5, <1>6, <1>7 DEF Next

(* Every variable of the jobs keeps its type. *)
THEOREM TypeCorrect == Spec => []TypeOK
BY TypeInit, TypeNext, PTL DEF Spec

-------------------------------------------------------------------------------
(* What the requests do to the runs                                          *)

LEMMA StartJobRuns ==
  ASSUME TypeOK, NEW t \in Tenant, StartJob(t)
  PROVE  \E r \in Run :
           /\ ~Active(r)
           /\ run'[r] = NewRun(t)
           /\ \A q \in Run \ {r} :
                /\ run'[q].tenant = run[q].tenant
                /\ run'[q].pc = run[q].pc /\ run'[q].left = run[q].left
                /\ ~run'[q].pausing /\ run'[q].late = 0
<1>1. PICK r \in Run :
        /\ ~Active(r)
        /\ run' = [q \in Run |-> IF q = r THEN NewRun(t)
                                 ELSE [run[q] EXCEPT !.pausing = FALSE, !.late = 0]]
  BY DEF StartJob
<1>2. ASSUME NEW q \in Run \ {r}
      PROVE  /\ run'[q].tenant = run[q].tenant
             /\ run'[q].pc = run[q].pc /\ run'[q].left = run[q].left
             /\ ~run'[q].pausing /\ run'[q].late = 0
  <2>1. run[q] \in RunRecord
    BY DEF TypeOK
  <2>2. run'[q] = [run[q] EXCEPT !.pausing = FALSE, !.late = 0]
    BY <1>1
  <2> QED
    BY <2>1, <2>2 DEF RunRecord
<1>3. run'[r] = NewRun(t)
  BY <1>1
<1> QED
  BY <1>1, <1>2, <1>3

LEMMA NewRunFields ==
  ASSUME NEW t
  PROVE  /\ NewRun(t).tenant = t /\ NewRun(t).late = 0 /\ NewRun(t).left = 0
         /\ NewRun(t).pc = "scan" /\ ~NewRun(t).pausing
BY DEF NewRun, NoRun

LEMMA PauseRuns ==
  ASSUME TypeOK, NEW t \in Tenant, Pause(t), NEW r \in Run
  PROVE  /\ run'[r].tenant = run[r].tenant /\ run'[r].pc = run[r].pc
         /\ run'[r].left = run[r].left /\ run'[r].late = run[r].late
         /\ run'[r].asked <=> Active(r)
         /\ run'[r].pausing <=> run[r].pausing \/ run[r].tenant = t
<1>1. run[r] \in RunRecord
  BY DEF TypeOK
<1>2. run'[r] = [run[r] EXCEPT !.asked = Active(r),
                               !.pausing = @ \/ run[r].tenant = t]
  BY DEF Pause
<1> QED
  BY <1>1, <1>2 DEF RunRecord

LEMMA PublishFields ==
  ASSUME TypeOK, NEW t \in Tenant, NEW st, Publish(t, st)
  PROVE  /\ status'[t] = st
         /\ \A p \in Tenant \ {t} : status'[p] = status[p]
BY DEF Publish, TypeOK

LEMMA ProgressFields ==
  ASSUME TypeOK, NEW t \in Tenant, NEW m, NEW n, Progress(t, m, n)
  PROVE  /\ status'[t].running
         /\ status'[t].total = m /\ status'[t].processed = n
         /\ \A p \in Tenant \ {t} : status'[p] = status[p]
<1> DEFINE st == [state |-> "running", running |-> TRUE, total |-> m, processed |-> n]
<1>1. st.running /\ st.total = m /\ st.processed = n /\ Publish(t, st)
  BY DEF Progress
<1> HIDE DEF st
<1> QED
  BY <1>1, PublishFields

-------------------------------------------------------------------------------
(* One run per tenant, while the status says so                              *)

LEMMA OneJobInit == Init => OneJobPerTenant
BY NoTenantAssumption DEF Init, OneJobPerTenant, Active, NoRun, Idle

LEMMA OneJobNext == TypeOK /\ OneJobPerTenant /\ [Next]_vars => OneJobPerTenant'
<1> SUFFICES ASSUME TypeOK, OneJobPerTenant, [Next]_vars PROVE OneJobPerTenant'
  OBVIOUS
<1> USE NoTenantAssumption DEF OneJobPerTenant, Active
<1>1. ASSUME NEW t \in Tenant, StartJob(t) PROVE OneJobPerTenant'
  <2>1. PICK r \in Run :
          /\ ~Active(r)
          /\ run'[r] = NewRun(t)
          /\ \A q \in Run \ {r} : run'[q].tenant = run[q].tenant
    BY <1>1, StartJobRuns
  <2>2. run'[r].tenant = t
    BY <2>1, NewRunFields
  <2>3. \A q \in Run : run[q].tenant # t
    BY <1>1 DEF StartJob, Startable
  <2>4. /\ status'[t].running
        /\ \A p \in Tenant \ {t} : status'[p] = status[p]
    <3>1. Publish(t, Started) /\ Started.running
      BY <1>1 DEF StartJob, Started
    <3> QED
      BY <3>1, PublishFields
  <2>5. \A p \in Tenant : status'[p].running <=> p = t \/ status[p].running
    BY <2>4
  <2>6. \A p \in Tenant :
          (\E q \in Run : run'[q].tenant = p)
            <=> p = t \/ \E q \in Run : run[q].tenant = p
    BY <2>1, <2>2
  <2>7. \A p, q \in Run : Active(p)' /\ run'[q].tenant = run'[p].tenant => q = p
    BY <2>1, <2>2, <2>3
  <2> QED
    BY <2>5, <2>6, <2>7
<1>2. ASSUME NEW t \in Tenant, Pause(t) PROVE OneJobPerTenant'
  <2>1. \A q \in Run : run'[q].tenant = run[q].tenant
    BY <1>2, PauseRuns
  <2>2. status[t] \in Status
    BY DEF TypeOK
  <2>3. Paused(status[t]).running = status[t].running
    BY <2>2 DEF Paused, Status
  <2>4. \A p \in Tenant : status'[p].running <=> status[p].running
    <3>1. Publish(t, Paused(status[t]))
      BY <1>2 DEF Pause
    <3> QED
      BY <2>3, <3>1, PublishFields
  <2> QED
    BY <2>1, <2>4
<1>3. ASSUME NEW r \in Run, RunStep(r) \/ Throw(r) PROVE OneJobPerTenant'
  <2> DEFINE t == run[r].tenant
  <2>0. Active(r) /\ UNCHANGED pauseRequested /\ (Ends(r) \/ GoesOn(r))
    BY <1>3, RunStepShape
  <2>1. t \in Tenant /\ status[t].running
    BY <2>0 DEF TypeOK, RunRecord
  <2>2. CASE Ends(r)
    <3>1. PICK st \in Status : ~st.running /\ End(r, st)
      BY <2>2 DEF Ends
    <3>2. /\ run'[r].tenant = NoTenant
          /\ \A q \in Run \ {r} : run'[q] = run[q]
      BY <3>1 DEF End, TypeOK, NoRun
    <3>3. ~status'[t].running /\ \A p \in Tenant \ {t} : status'[p] = status[p]
      BY <2>1, <3>1, PublishFields DEF End
    <3>4. \A q \in Run : run[q].tenant = t => q = r
      BY <2>0
    <3>5. \A p \in Tenant :
            (\E q \in Run : run'[q].tenant = p)
              <=> p # t /\ \E q \in Run : run[q].tenant = p
      BY <3>2, <3>4
    <3>6. \A p, q \in Run : Active(p)' /\ run'[q].tenant = run'[p].tenant => q = p
      BY <3>2
    <3> QED
      BY <3>3, <3>5, <3>6
  <2>3. CASE GoesOn(r)
    <3>1. \A q \in Run : run'[q].tenant = run[q].tenant
      BY <2>3 DEF GoesOn, TypeOK
    <3>2. \A p \in Tenant : status'[p].running <=> status[p].running
      <4>1. CASE UNCHANGED <<status, client>>
        BY <4>1
      <4>2. ASSUME NEW m, NEW n, Progress(t, m, n)
            PROVE  \A p \in Tenant : status'[p].running <=> status[p].running
        BY <2>1, <4>2, ProgressFields
      <4> QED
        BY <2>3, <4>1, <4>2 DEF GoesOn
    <3> QED
      BY <3>1, <3>2
  <2> QED
    BY <2>0, <2>2, <2>3
<1>4. ASSUME NEW c \in Client, Close(c) \/ \E t \in Tenant : Subscribe(c, t)
      PROVE  OneJobPerTenant'
  BY <1>4 DEF Close, Subscribe
<1>5. CASE Restart
  BY <1>5 DEF Restart, NoRun, Idle
<1>6. CASE UNCHANGED vars
  BY <1>6 DEF vars
<1> QED
  BY <1>1, <1>2, <1>3, <1>4, <1>5, <1>6 DEF Next

(* Whatever requests overlap, a tenant has one run at a time, exactly while *)
(* its status says that a job is running.                                  *)
THEOREM OneJob == Spec => []OneJobPerTenant
BY TypeCorrect, OneJobInit, OneJobNext, PTL DEF Spec

-------------------------------------------------------------------------------
(* What the browsers see                                                     *)

LEMMA StreamsNext == TypeOK /\ StreamsAreCurrent /\ [Next]_vars => StreamsAreCurrent'
<1> SUFFICES ASSUME TypeOK, StreamsAreCurrent, [Next]_vars PROVE StreamsAreCurrent'
  OBVIOUS
<1> USE DEF TypeOK, StreamsAreCurrent
<1>1. ASSUME NEW t \in Tenant, NEW st \in Status, Publish(t, st)
      PROVE  StreamsAreCurrent'
  BY <1>1 DEF Publish
<1>2. ASSUME NEW t \in Tenant, StartJob(t) \/ Pause(t) PROVE StreamsAreCurrent'
  BY <1>1, <1>2, StatusTypes DEF StartJob, Pause
<1>3. ASSUME NEW r \in Run, RunStep(r) \/ Throw(r) PROVE StreamsAreCurrent'
  <2>0. Active(r) /\ UNCHANGED pauseRequested /\ (Ends(r) \/ GoesOn(r))
    BY <1>3, RunStepShape
  <2>1. run[r].tenant \in Tenant
    BY <2>0 DEF RunRecord, Active
  <2>2. CASE Ends(r)
    BY <1>1, <2>1, <2>2 DEF Ends, End
  <2>3. CASE GoesOn(r)
    BY <1>1, <2>1, <2>3, StatusTypes DEF GoesOn, Progress
  <2> QED
    BY <2>0, <2>2, <2>3
<1>4. ASSUME NEW c \in Client, NEW t \in Tenant, Subscribe(c, t)
      PROVE  StreamsAreCurrent'
  BY <1>4, NoTenantAssumption DEF Subscribe
<1>5. ASSUME NEW c \in Client, Close(c) PROVE StreamsAreCurrent'
  BY <1>5 DEF Close, NoClient
<1>6. CASE Restart
  BY <1>6 DEF Restart, NoClient
<1>7. CASE UNCHANGED vars
  BY <1>7 DEF vars
<1> QED
  BY <1>2, <1>3, <1>4, <1>5, <1>6, <1>7 DEF Next

(* No change of a status is missed by an open stream of its tenant. *)
THEOREM StreamsCurrent == Spec => []StreamsAreCurrent
<1>1. Init => StreamsAreCurrent
  BY DEF Init, StreamsAreCurrent, NoClient
<1> QED
  BY <1>1, TypeCorrect, StreamsNext, PTL DEF Spec

-------------------------------------------------------------------------------
(* Pausing.  PauseIsHonoured is not inductive: a run its tenant paused has *)
(* finished no file since, unless it is about to read the flag, which is   *)
(* then set; and while the flag is set every active run was asked to stop. *)
PauseInv ==
  \A r \in Run :
    /\ run[r].late <= 1
    /\ ~run[r].pausing => run[r].late = 0
    /\ run[r].pc # "saving" => run[r].late = 0
    /\ run[r].pausing => pauseRequested
    /\ Active(r) /\ pauseRequested => run[r].asked

LEMMA PauseInit == Init => PauseInv
BY DEF Init, PauseInv, NoRun

LEMMA PauseNext == TypeOK /\ PauseInv /\ [Next]_vars => PauseInv'
<1> SUFFICES ASSUME TypeOK, PauseInv, [Next]_vars PROVE PauseInv'
  OBVIOUS
<1> USE DEF PauseInv, Active, TypeOK
<1>1. ASSUME NEW t \in Tenant, StartJob(t) PROVE PauseInv'
  <2>1. ~pauseRequested'
    BY <1>1 DEF StartJob, Cleared
  <2>2. \A q \in Run : ~run'[q].pausing /\ run'[q].late = 0
    BY <1>1, StartJobRuns, NewRunFields
  <2> QED
    BY <2>1, <2>2
<1>2. ASSUME NEW t \in Tenant, Pause(t) PROVE PauseInv'
  <2>1. pauseRequested'
    BY <1>2 DEF Pause
  <2> QED
    BY <1>2, <2>1, PauseRuns
<1>3. ASSUME NEW r \in Run, NEW st, End(r, st), UNCHANGED pauseRequested
      PROVE  PauseInv'
  BY <1>3 DEF End, NoRun, RunRecord
<1>4. ASSUME NEW r \in Run, NextSource(r), UNCHANGED pauseRequested,
             run[r].late = 0
      PROVE  PauseInv'
  BY <1>4 DEF NextSource, RunRecord
<1>5. ASSUME NEW r \in Run, Scan(r) PROVE PauseInv'
  BY <1>3, <1>4, <1>5 DEF Scan, Complete, RunRecord
<1>6. ASSUME NEW r \in Run, FileDone(r) PROVE PauseInv'
  BY <1>6 DEF FileDone, RunRecord
<1>7. ASSUME NEW r \in Run, CheckpointSaved(r) PROVE PauseInv'
  BY <1>3, <1>4, <1>7 DEF CheckpointSaved, PauseSeen, Complete, RunRecord
<1>8. ASSUME NEW r \in Run, Throw(r) PROVE PauseInv'
  BY <1>3, <1>8 DEF Throw
<1>9. ASSUME NEW c \in Client, Close(c) \/ \E t \in Tenant : Subscribe(c, t)
      PROVE  PauseInv'
  BY <1>9 DEF Close, Subscribe
<1>10. CASE Restart
  BY <1>10 DEF Restart, NoRun
<1>11. CASE UNCHANGED vars
  BY <1>11 DEF vars
<1> QED
  BY <1>1, <1>2, <1>5, <1>6, <1>7, <1>8, <1>9, <1>10, <1>11 DEF Next, RunStep

LEMMA PauseHolds == Spec => []PauseInv
BY TypeCorrect, PauseInit, PauseNext, PTL DEF Spec

(* A paused job finishes one more file at most, for any number of tenants, *)
(* runs, sources and files.                                                *)
THEOREM PauseHonoured == Spec => []PauseIsHonoured
<1>1. PauseInv => PauseIsHonoured
  BY DEF PauseInv, PauseIsHonoured
<1> QED
  BY <1>1, PauseHolds, PTL

(* A job shows that it was paused only if a pause was accepted since it    *)
(* started.                                                                *)
THEOREM StopsIfAsked == Spec => StopsOnlyIfAsked
<1> DEFINE Stops(t, r) ==
      /\ run[r].tenant = t /\ status[t].running
      /\ ~status'[t].running /\ status'[t].state = "paused"
<1>1. ASSUME TypeOK, PauseInv, OneJobPerTenant, [Next]_vars,
             NEW t \in Tenant, NEW r \in Run, Stops(t, r)
      PROVE  run[r].asked
  <2>0. Active(r)
    BY <1>1, NoTenantAssumption DEF Active
  <2>1. ASSUME NEW q \in Run, RunStep(q) \/ Throw(q) PROVE run[r].asked
    <3>1. Active(q) /\ (Ends(q) \/ GoesOn(q))
      BY <1>1, <2>1, RunStepShape
    <3>2. run[q].tenant \in Tenant
      BY <1>1, <3>1 DEF TypeOK, RunRecord, Active
    <3>3. ~GoesOn(q)
      <4>1. ASSUME NEW m, NEW n, Progress(run[q].tenant, m, n) PROVE FALSE
        BY <1>1, <3>2, <4>1, ProgressFields
      <4> QED
        BY <1>1, <4>1 DEF GoesOn
    <3>4. run[q].tenant = t /\ PauseSeen(q)
      BY <1>1, <3>1, <3>2, <3>3, PublishFields DEF Ends, End
    <3>5. q = r
      BY <1>1, <3>1, <3>4 DEF OneJobPerTenant
    <3> QED
      BY <1>1, <2>0, <3>4, <3>5 DEF PauseInv, PauseSeen
  <2>2. ASSUME NEW p \in Tenant, StartJob(p) PROVE FALSE
    BY <1>1, <2>2 DEF StartJob, Publish, Started, TypeOK
  <2>3. ASSUME NEW p \in Tenant, Pause(p) PROVE FALSE
    BY <1>1, <2>3 DEF Pause, Publish, Paused, TypeOK, Status
  <2>4. CASE Restart
    BY <1>1, <2>4 DEF Restart, Idle
  <2>5. ASSUME NEW c \in Client, Close(c) \/ \E p \in Tenant : Subscribe(c, p)
        PROVE  FALSE
    BY <1>1, <2>5 DEF Close, Subscribe
  <2>6. CASE UNCHANGED vars
    BY <1>1, <2>6 DEF vars
  <2> QED
    BY <1>1, <2>1, <2>2, <2>3, <2>4, <2>5, <2>6 DEF Next
<1>2. TypeOK /\ PauseInv /\ OneJobPerTenant /\ [Next]_vars
        => [\A t \in Tenant, r \in Run : Stops(t, r) => run[r].asked]_vars
  BY <1>1
<1> QED
  BY <1>2, TypeCorrect, PauseHolds, OneJob, PTL DEF Spec, StopsOnlyIfAsked

-------------------------------------------------------------------------------
(* The counts.  Besides CountsAgree a run that lists a source has no file  *)
(* left, and one that is at a file has.                                    *)
LeftInv ==
  \A r \in Run : Active(r) =>
    IF run[r].pc = "scan" THEN run[r].left = 0 ELSE run[r].left >= 1

CountsInv == CountsAgree /\ LeftInv

Missing(rec) == IF rec.pc = "saving" THEN rec.left - 1 ELSE rec.left

LEMMA CountsInit == Init => CountsInv
BY DEF Init, CountsInv, CountsAgree, LeftInv, Active, NoRun, Idle

(* A run that goes on keeps the sum of what it shows and what is left.     *)
LEMMA CountsGoOn ==
  ASSUME TypeOK, CountsInv, OneJobPerTenant,
         NEW r \in Run, Active(r), NEW rec \in RunRecord,
         rec.tenant = run[r].tenant, run' = [run EXCEPT ![r] = rec],
         IF rec.pc = "scan" THEN rec.left = 0 ELSE rec.left >= 1,
         NEW t \in Tenant, t = run[r].tenant,
         \A p \in Tenant \ {t} : status'[p] = status[p],
         status'[t].processed \in Nat, status'[t].total \in Nat,
         status'[t].total - status'[t].processed = Missing(rec)
  PROVE  CountsInv'
<1>1. run'[r] = rec /\ \A q \in Run \ {r} : run'[q] = run[q]
  BY DEF TypeOK
<1>2. rec.left \in Nat
  BY DEF RunRecord
<1>3. status'[t].processed <= status'[t].total
  BY <1>2 DEF Missing, RunRecord
<1>4. \A q \in Run \ {r} : Active(q) => run[q].tenant \in Tenant \ {t}
  BY DEF OneJobPerTenant, Active, TypeOK, RunRecord
<1>5. CountsAgree'
  BY <1>1, <1>3, <1>4 DEF CountsInv, CountsAgree, Missing, Active
<1>6. LeftInv'
  BY <1>1 DEF CountsInv, LeftInv, Active
<1> QED
  BY <1>5, <1>6 DEF CountsInv

(* An end leaves no run behind. *)
LEMMA CountsEnd ==
  ASSUME TypeOK, CountsInv, OneJobPerTenant, NEW r \in Run, Active(r), Ends(r)
  PROVE  CountsInv'
<1> DEFINE t == run[r].tenant
<1>1. t \in Tenant
  BY DEF TypeOK, RunRecord, Active
<1>2. PICK st \in Status :
        /\ st.processed <= st.total \/ status[t].processed > status[t].total
        /\ End(r, st)
  BY DEF Ends
<1>3. st.processed <= st.total
  BY <1>1, <1>2 DEF CountsInv, CountsAgree, TypeOK, Status, Count
<1>4. status'[t] = st /\ \A p \in Tenant \ {t} : status'[p] = status[p]
  BY <1>1, <1>2, PublishFields DEF End
<1>5. ~Active(r)' /\ \A q \in Run \ {r} : run'[q] = run[q]
  BY <1>2 DEF End, TypeOK, Active, NoRun
<1>6. \A q \in Run \ {r} : Active(q) => run[q].tenant \in Tenant \ {t}
  BY DEF OneJobPerTenant, Active, TypeOK, RunRecord
<1>7. CountsAgree'
  BY <1>3, <1>4, <1>5, <1>6 DEF CountsInv, CountsAgree, Active
<1>8. LeftInv'
  BY <1>5 DEF CountsInv, LeftInv, Active
<1> QED
  BY <1>7, <1>8 DEF CountsInv

LEMMA CountsRunStep ==
  ASSUME TypeOK, CountsInv, OneJobPerTenant, NEW r \in Run, RunStep(r) \/ Throw(r)
  PROVE  CountsInv'
<1>0. Active(r)
  BY RunStepShape
<1> DEFINE t == run[r].tenant
<1>t. /\ t \in Tenant /\ run[r] \in RunRecord
      /\ status[t].total \in Nat /\ status[t].processed \in Nat
  BY <1>0 DEF TypeOK, RunRecord, Active, Status, Count
<1>m. status[t].total - status[t].processed = Missing(run[r])
  BY <1>0 DEF CountsInv, CountsAgree, Missing
<1>l. IF run[r].pc = "scan" THEN run[r].left = 0 ELSE run[r].left >= 1
  BY <1>0 DEF CountsInv, LeftInv
<1>1. CASE Complete(r)
  BY <1>0, <1>1, FinishedEnds, CountsEnd DEF Complete
<1>2. CASE Scan(r)
  <2>1. ASSUME NEW n \in 1..MaxFiles,
               run' = [run EXCEPT ![r].pc = "file", ![r].left = n],
               Progress(t, Found(t, n), status[t].processed)
        PROVE  CountsInv'
    <3> DEFINE rec == [run[r] EXCEPT !.pc = "file", !.left = n]
    <3>0. n \in 0..MaxFiles /\ n \in Nat
      BY BoundAssumption
    <3>1. /\ rec \in RunRecord /\ rec.tenant = t
          /\ rec.pc = "file" /\ rec.left = n
      BY <1>t, <3>0 DEF RunRecord
    <3>2. run' = [run EXCEPT ![r] = rec]
      BY <2>1 DEF TypeOK
    <3> HIDE DEF rec
    <3>3. /\ status'[t].total = status[t].total + n
          /\ status'[t].processed = status[t].processed
          /\ \A p \in Tenant \ {t} : status'[p] = status[p]
      BY <1>t, <2>1, ProgressFields DEF Found
    <3>4. status'[t].total - status'[t].processed = Missing(rec)
      BY <1>2, <1>t, <1>m, <1>l, <3>0, <3>1, <3>3 DEF Missing, Scan
    <3>5. /\ status'[t].total \in Nat /\ status'[t].processed \in Nat
          /\ rec.pc # "scan" /\ rec.left >= 1
      BY <1>t, <3>0, <3>1, <3>3
    <3> QED
      BY <1>0, <1>t, <3>1, <3>2, <3>3, <3>4, <3>5, CountsGoOn
  <2>2. CASE NextSource(r) /\ Progress(t, status[t].total, status[t].processed)
    <3>1. PICK rec \in RunRecord :
            /\ rec.tenant = t /\ rec.pc = "scan" /\ rec.left = 0
            /\ run' = [run EXCEPT ![r] = rec]
      BY <1>0, <2>2, NextSourceGoesOn
    <3>2. /\ status'[t].total = status[t].total
          /\ status'[t].processed = status[t].processed
          /\ \A p \in Tenant \ {t} : status'[p] = status[p]
      BY <1>t, <2>2, ProgressFields
    <3>3. status'[t].total - status'[t].processed = Missing(rec)
      BY <1>2, <1>m, <1>l, <3>1, <3>2 DEF Missing, Scan
    <3> QED
      BY <1>0, <1>t, <3>1, <3>2, <3>3, CountsGoOn
  <2> QED
    BY <1>1, <1>2, <2>1, <2>2 DEF Scan
<1>3. CASE FileDone(r)
  <2> DEFINE rec == [run[r] EXCEPT !.pc = "saving",
                       !.late = IF run[r].pausing THEN @ + 1 ELSE @]
  <2>0. (IF run[r].pausing THEN run[r].late + 1 ELSE run[r].late) \in Count
    BY <1>t DEF RunRecord, Count
  <2>1. /\ rec \in RunRecord /\ rec.tenant = t
        /\ rec.pc = "saving" /\ rec.left = run[r].left
    BY <1>t, <2>0 DEF RunRecord
  <2>2. run' = [run EXCEPT ![r] = rec]
    BY <1>3 DEF TypeOK, FileDone
  <2> HIDE DEF rec
  <2>3. Progress(t, status[t].total, status[t].processed + 1)
    BY <1>3 DEF FileDone
  <2>4. /\ status'[t].total = status[t].total
        /\ status'[t].processed = status[t].processed + 1
        /\ \A p \in Tenant \ {t} : status'[p] = status[p]
    BY <1>t, <2>3, ProgressFields
  <2>5. run[r].pc = "file" /\ run[r].left >= 1 /\ run[r].left \in Nat
    BY <1>3, <1>t, <1>l DEF FileDone, RunRecord
  <2>6. status'[t].total - status'[t].processed = Missing(rec)
    BY <1>t, <1>m, <2>1, <2>4, <2>5 DEF Missing
  <2>7. /\ status'[t].total \in Nat /\ status'[t].processed \in Nat
        /\ rec.pc # "scan" /\ rec.left >= 1
    BY <1>t, <2>1, <2>4, <2>5
  <2> QED
    BY <1>0, <1>t, <2>1, <2>2, <2>4, <2>6, <2>7, CountsGoOn
<1>4. CASE CheckpointSaved(r)
  <2>0. /\ run[r].pc = "saving" /\ run[r].left \in Nat
    BY <1>4, <1>t DEF CheckpointSaved, RunRecord
  <2>1. CASE PauseSeen(r) /\ End(r, Finished(status[t], "paused"))
    BY <1>0, <2>1, FinishedEnds, CountsEnd
  <2>2. CASE /\ run[r].left > 1
             /\ run' = [run EXCEPT ![r].pc = "file", ![r].left = @ - 1]
             /\ UNCHANGED <<status, client>>
    <3> DEFINE rec == [run[r] EXCEPT !.pc = "file", !.left = @ - 1]
    <3>0. run[r].left - 1 \in 0..MaxFiles
      BY <1>t, <2>2, BoundAssumption DEF RunRecord
    <3>1. /\ rec \in RunRecord /\ rec.tenant = t
          /\ rec.pc = "file" /\ rec.left = run[r].left - 1
      BY <1>t, <3>0 DEF RunRecord
    <3>2. run' = [run EXCEPT ![r] = rec]
      BY <2>2 DEF TypeOK
    <3> HIDE DEF rec
    <3>3. rec.left >= 1
      BY <2>0, <2>2, <3>1
    <3>4. status'[t].total - status'[t].processed = Missing(rec)
      BY <1>m, <2>0, <2>2, <3>1 DEF Missing
    <3> QED
      BY <1>0, <1>t, <2>2, <3>1, <3>2, <3>3, <3>4, CountsGoOn
  <2>3. CASE run[r].left = 1 /\ NextSource(r) /\ UNCHANGED <<status, client>>
    <3>1. PICK rec \in RunRecord :
            /\ rec.tenant = t /\ rec.pc = "scan" /\ rec.left = 0
            /\ run' = [run EXCEPT ![r] = rec]
      BY <1>0, <2>3, NextSourceGoesOn
    <3>2. status'[t].total - status'[t].processed = Missing(rec)
      BY <1>m, <2>0, <2>3, <3>1 DEF Missing
    <3> QED
      BY <1>0, <1>t, <2>3, <3>1, <3>2, CountsGoOn
  <2> QED
    BY <1>1, <1>4, <2>1, <2>2, <2>3 DEF CheckpointSaved
<1>5. CASE Throw(r)
  BY <1>0, <1>5, ThrowEnds, CountsEnd
<1> QED
  BY <1>2, <1>3, <1>4, <1>5 DEF RunStep

LEMMA CountsNext ==
  TypeOK /\ CountsInv /\ OneJobPerTenant /\ [Next]_vars => CountsInv'
<1> SUFFICES ASSUME TypeOK, CountsInv, OneJobPerTenant, [Next]_vars
             PROVE  CountsInv'
  OBVIOUS
<1>1. ASSUME NEW t \in Tenant, StartJob(t) PROVE CountsInv'
  <2>1. PICK r \in Run :
          /\ ~Active(r)
          /\ run'[r] = NewRun(t)
          /\ \A q \in Run \ {r} :
               /\ run'[q].tenant = run[q].tenant
               /\ run'[q].pc = run[q].pc /\ run'[q].left = run[q].left
    BY <1>1, StartJobRuns
  <2>2. run'[r].tenant = t /\ run'[r].pc = "scan" /\ run'[r].left = 0
    BY <2>1, NewRunFields
  <2>3. Publish(t, Started)
    BY <1>1 DEF StartJob
  <2>4. /\ status'[t].total = 0 /\ status'[t].processed = 0
        /\ \A p \in Tenant \ {t} : status'[p] = status[p]
    BY <2>3, PublishFields DEF Started
  <2>5. \A q \in Run : Active(q) => run[q].tenant \in Tenant \ {t}
    BY <1>1 DEF StartJob, Startable, OneJobPerTenant, Active, TypeOK, RunRecord
  <2>6. CountsAgree'
    BY <2>1, <2>2, <2>4, <2>5 DEF CountsInv, CountsAgree, Active
  <2>7. LeftInv'
    BY <2>1, <2>2 DEF CountsInv, LeftInv, Active
  <2> QED
    BY <2>6, <2>7 DEF CountsInv
<1>2. ASSUME NEW t \in Tenant, Pause(t) PROVE CountsInv'
  <2>1. \A r \in Run : /\ run'[r].tenant = run[r].tenant
                       /\ run'[r].pc = run[r].pc /\ run'[r].left = run[r].left
    BY <1>2, PauseRuns
  <2>2. Publish(t, Paused(status[t])) /\ status[t] \in Status
    BY <1>2 DEF Pause, TypeOK
  <2>3. /\ Paused(status[t]).total = status[t].total
        /\ Paused(status[t]).processed = status[t].processed
    BY <2>2 DEF Paused, Status
  <2>4. \A p \in Tenant : /\ status'[p].total = status[p].total
                          /\ status'[p].processed = status[p].processed
    BY <2>2, <2>3, PublishFields
  <2>5. \A r \in Run : Active(r) => run[r].tenant \in Tenant
    BY DEF Active, TypeOK, RunRecord
  <2>6. CountsAgree'
    BY <2>1, <2>4, <2>5 DEF CountsInv, CountsAgree, Active
  <2>7. LeftInv'
    BY <2>1 DEF CountsInv, LeftInv, Active
  <2> QED
    BY <2>6, <2>7 DEF CountsInv
<1>3. ASSUME NEW r \in Run, RunStep(r) \/ Throw(r) PROVE CountsInv'
  BY <1>3, CountsRunStep
<1>4. ASSUME NEW c \in Client, Close(c) \/ \E t \in Tenant : Subscribe(c, t)
      PROVE  CountsInv'
  BY <1>4 DEF Close, Subscribe, CountsInv, CountsAgree, LeftInv, Active
<1>5. CASE Restart
  BY <1>5 DEF Restart, NoRun, Idle, CountsInv, CountsAgree, LeftInv, Active
<1>6. CASE UNCHANGED vars
  BY <1>6 DEF vars, CountsInv, CountsAgree, LeftInv, Active
<1> QED
  BY <1>1, <1>2, <1>3, <1>4, <1>5, <1>6 DEF Next

(* The progress shown is consistent: never more processed than found, and  *)
(* what is missing is what the run still has to do.                        *)
THEOREM Counts == Spec => []CountsAgree
<1>1. Spec => []CountsInv
  BY TypeCorrect, OneJob, CountsInit, CountsNext, PTL DEF Spec
<1> QED
  BY <1>1, PTL DEF CountsInv

==============================================================================

--------------------------- MODULE Ingestion_proofs ---------------------------
(***************************************************************************)
(* Proofs about Ingestion for any sources, documents, runs and bounds: its *)
(* types, that the checkpoint of a mailbox covers only files that reached  *)
(* a row, if a mail has one supported attachment at most, and that no run  *)
(* writes over a settled row.                                              *)
(***************************************************************************)
EXTENDS Ingestion, TLAPS

AtFile == {"extract", "create", "mark"}
AtSource == {"fetch", "next"} \cup AtFile

(* A run has a source while it reads one, and a file while it works on one. *)
Equipped(rec) ==
  /\ rec.pc \in AtSource => rec.src \in Source
  /\ rec.pc \in AtFile => rec.file \in File

TypeInv == TypeOK /\ \A r \in Run : Equipped(run[r])

LEMMA IdleType == Idle \in RunRecord /\ Equipped(Idle)
BY DEF Idle, RunRecord, Equipped, AtSource, AtFile

LEMMA KeyType ==
  ASSUME NEW k \in Key, NEW f \in File
  PROVE  /\ k.src \in Source /\ k.doc \in Doc /\ k.name \in Name
         /\ f \in Key /\ f.src \in Source /\ f.doc \in Doc
         /\ Moved(k, f) \in Key
         /\ Moved(k, f).src = f.src /\ Moved(k, f).doc = k.doc
BY KeyAssumption, FileAssumption DEF Moved

(* What a step of a run makes of its record and of the rows.               *)
LEMMA StepType ==
  ASSUME TypeInv, NEW r \in Run, Start(r) \/ RunStep(r)
  PROVE  /\ \E rec \in RunRecord : Become(r, rec) /\ Equipped(rec)
         /\ row' \in [Key -> [status : {"none", "PENDING", "read", "failed"},
                              holds : File \cup {NoFile}]]
         /\ stored' \subseteq File
         /\ marker' \in [Source -> Doc \cup {0}]
<1>0. /\ run[r] \in RunRecord /\ Equipped(run[r])
      /\ row \in [Key -> [status : {"none", "PENDING", "read", "failed"},
                          holds : File \cup {NoFile}]]
      /\ stored \subseteq File /\ marker \in [Source -> Doc \cup {0}]
  BY DEF TypeInv, TypeOK
<1> USE DEF AtSource, AtFile
<1>1. CASE Start(r)
  <2> DEFINE rec == [Idle EXCEPT !.pc = "source",
                       !.left = IF r \in Worker THEN Source \ Bucket ELSE Source]
  <2>1. Become(r, rec) /\ UNCHANGED <<row, stored, marker>>
    BY <1>1 DEF Start
  <2>2. rec \in RunRecord /\ Equipped(rec)
    BY DEF Idle, RunRecord, Equipped
  <2> HIDE DEF rec
  <2>3. QED
    BY <1>0, <2>1, <2>2
<1>2. CASE OpenSource(r)
  <2>1. UNCHANGED <<row, stored, marker>>
    BY <1>2 DEF OpenSource
  <2>2. CASE Become(r, Idle)
    BY <1>0, <2>1, <2>2, IdleType
  <2>3. CASE ~ Become(r, Idle)
    <3>1. PICK s \in run[r].left :
            Become(r, [Idle EXCEPT !.pc = "fetch", !.left = run[r].left \ {s},
                                   !.src = s, !.mark = marker[s]])
      BY <1>2, <2>3 DEF OpenSource
    <3> DEFINE rec == [Idle EXCEPT !.pc = "fetch", !.left = run[r].left \ {s},
                                   !.src = s, !.mark = marker[s]]
    <3>2. s \in Source
      BY <1>0 DEF RunRecord
    <3>3. marker[s] \in Doc \cup {0}
      BY <1>0, <3>2
    <3>4. rec \in RunRecord /\ Equipped(rec)
      BY <1>0, <3>2, <3>3 DEF Idle, RunRecord, Equipped
    <3> HIDE DEF rec
    <3>5. QED
      BY <1>0, <2>1, <3>1, <3>4 DEF rec
  <2>4. QED
    BY <2>2, <2>3
<1>3. CASE Fetch(r)
  <2>1. PICK todo \in SUBSET File :
          Become(r, [run[r] EXCEPT !.pc = "next", !.todo = todo])
    BY <1>3 DEF Fetch, Listed
  <2> DEFINE rec == [run[r] EXCEPT !.pc = "next", !.todo = todo]
  <2>2. run[r].pc = "fetch" /\ UNCHANGED <<row, stored, marker>>
    BY <1>3 DEF Fetch
  <2>3. rec \in RunRecord /\ Equipped(rec)
    BY <1>0, <2>2 DEF RunRecord, Equipped
  <2> HIDE DEF rec
  <2>4. QED
    BY <1>0, <2>1, <2>2, <2>3 DEF rec
<1>4. CASE TakeFile(r)
  <2>1. run[r].pc = "next" /\ UNCHANGED <<row, stored, marker>>
    BY <1>4 DEF TakeFile
  <2>2. CASE run[r].todo = {}
    <3> DEFINE rec == [Idle EXCEPT !.pc = "source", !.left = run[r].left]
    <3>1. Become(r, rec)
      BY <1>4, <2>2 DEF TakeFile
    <3>2. rec \in RunRecord /\ Equipped(rec)
      BY <1>0 DEF Idle, RunRecord, Equipped
    <3> HIDE DEF rec
    <3>3. QED
      BY <1>0, <2>1, <3>1, <3>2
  <2>3. CASE run[r].todo # {}
    <3>1. PICK f \in run[r].todo, pc \in {"mark", "extract"} :
            Become(r, [run[r] EXCEPT !.pc = pc, !.todo = @ \ {f}, !.file = f])
      BY <1>4, <2>3 DEF TakeFile
    <3> DEFINE rec == [run[r] EXCEPT !.pc = pc, !.todo = @ \ {f}, !.file = f]
    <3>2. rec \in RunRecord /\ Equipped(rec)
      BY <1>0, <2>1 DEF RunRecord, Equipped
    <3> HIDE DEF rec
    <3>3. QED
      BY <1>0, <2>1, <3>1, <3>2 DEF rec
  <2>4. QED
    BY <2>2, <2>3
<1>5. ASSUME NEW pc \in {"create", "mark"}, run[r].pc \in AtFile
      PROVE  /\ [run[r] EXCEPT !.pc = pc] \in RunRecord
             /\ Equipped([run[r] EXCEPT !.pc = pc])
  BY <1>0, <1>5 DEF RunRecord, Equipped
<1>6. ASSUME NEW outcome \in {"read", "failed"}, run[r].pc \in AtFile
      PROVE  /\ AfterConflict(run[r], outcome) \in RunRecord
             /\ Equipped(AfterConflict(run[r], outcome))
  BY <1>5, <1>6, IdleType DEF AfterConflict
<1>7. CASE Extract(r)
  <2> DEFINE f == run[r].file
  <2>1. run[r].pc = "extract" /\ f \in File /\ UNCHANGED marker
    BY <1>0, <1>7 DEF Extract, Equipped
  <2>2. PICK outcome \in {"read", "failed"} :
          IF ~ \E k \in Key : Matches(k, f)
            THEN /\ Become(r, [run[r] EXCEPT !.pc = "create", !.outcome = outcome])
                 /\ UNCHANGED <<row, stored>>
            ELSE \E k \in Key :
              /\ Matches(k, f)
              /\ IF Moved(k, f) # k /\ Exists(Moved(k, f))
                   THEN /\ Become(r, AfterConflict(run[r], outcome))
                        /\ UNCHANGED <<row, stored>>
                   ELSE /\ Become(r, [run[r] EXCEPT !.pc = "mark"])
                        /\ row' = [row EXCEPT ![k] = NoRow,
                                     ![Moved(k, f)] = [status |-> outcome,
                                                       holds |-> f]]
                        /\ stored' = stored \cup {f}
    BY <1>7 DEF Extract
  <2>3. CASE ~ \E k \in Key : Matches(k, f)
    <3> DEFINE rec == [run[r] EXCEPT !.pc = "create", !.outcome = outcome]
    <3>1. rec \in RunRecord /\ Equipped(rec)
      BY <1>0, <2>1 DEF RunRecord, Equipped
    <3>2. Become(r, rec) /\ UNCHANGED <<row, stored, marker>>
      BY <2>1, <2>2, <2>3
    <3> HIDE DEF rec
    <3>3. QED
      BY <1>0, <3>1, <3>2
  <2>4. CASE \E k \in Key : Matches(k, f)
    <3>1. PICK k \in Key :
            IF Moved(k, f) # k /\ Exists(Moved(k, f))
              THEN /\ Become(r, AfterConflict(run[r], outcome))
                   /\ UNCHANGED <<row, stored>>
              ELSE /\ Become(r, [run[r] EXCEPT !.pc = "mark"])
                   /\ row' = [row EXCEPT ![k] = NoRow,
                                ![Moved(k, f)] = [status |-> outcome, holds |-> f]]
                   /\ stored' = stored \cup {f}
      BY <2>2, <2>4
    <3>2. NoRow \in [status : {"none", "PENDING", "read", "failed"},
                     holds : File \cup {NoFile}]
      BY DEF NoRow
    <3>3. Moved(k, f) \in Key
      BY <2>1, KeyType
    <3>4. QED
      BY <1>0, <1>5, <1>6, <2>1, <3>1, <3>2, <3>3
  <2>5. QED
    BY <2>3, <2>4
<1>8. CASE Create(r)
  <2> DEFINE f == run[r].file
  <2>1. run[r].pc = "create" /\ f \in File /\ UNCHANGED marker
    BY <1>0, <1>8 DEF Create, Equipped
  <2>2. f \in Key /\ run[r].outcome \in {"read", "failed"}
    BY <1>0, <2>1, FileAssumption DEF RunRecord
  <2>3. CASE Exists(f)
    BY <1>0, <1>6, <1>8, <2>1, <2>2, <2>3 DEF Create
  <2>4. CASE ~ Exists(f)
    BY <1>0, <1>5, <1>8, <2>1, <2>2, <2>4 DEF Create
  <2>5. QED
    BY <2>3, <2>4
<1>9. CASE SaveCheckpoint(r)
  <2> DEFINE d == run[r].file.doc
             rec == [run[r] EXCEPT !.pc = "next", !.file = NoFile, !.mark = d]
  <2>1. /\ run[r].pc = "mark" /\ UNCHANGED <<row, stored>>
        /\ Become(r, Idle) \/ Become(r, rec)
    BY <1>9 DEF SaveCheckpoint
  <2>2. d \in Doc
    BY <1>0, <2>1, KeyAssumption, FileAssumption DEF Equipped
  <2>3. rec \in RunRecord /\ Equipped(rec)
    BY <1>0, <2>1, <2>2 DEF RunRecord, Equipped
  <2>4. marker' \in [Source -> Doc \cup {0}]
    BY <1>0, <1>9, <2>2 DEF SaveCheckpoint
  <2> HIDE DEF rec
  <2>5. QED
    BY <1>0, <2>1, <2>3, <2>4, IdleType
<1>10. QED
  BY <1>1, <1>2, <1>3, <1>4, <1>7, <1>8, <1>9 DEF RunStep

LEMMA TypeInit == Init => TypeInv
<1> SUFFICES ASSUME Init PROVE TypeInv
  OBVIOUS
<1>1. \A r \in Run : Equipped(run[r])
  BY IdleType DEF Init
<1>2. run \in [Run -> RunRecord]
  BY IdleType DEF Init
<1>3. row \in [Key -> [status : {"none", "PENDING", "read", "failed"},
                       holds : File \cup {NoFile}]]
  BY DEF Init, NoRow
<1>4. QED
  BY <1>1, <1>2, <1>3, DisturbanceAssumption DEF Init, TypeInv, TypeOK

LEMMA TypeNext == TypeInv /\ [Next]_vars => TypeInv'
<1> SUFFICES ASSUME TypeInv, [Next]_vars PROVE TypeInv'
  OBVIOUS
<1>0. TypeOK /\ \A r \in Run : Equipped(run[r])
  BY DEF TypeInv
<1>1. ASSUME NEW r \in Run, Start(r) \/ RunStep(r) PROVE TypeInv'
  <2>1. PICK rec \in RunRecord : Become(r, rec) /\ Equipped(rec)
    BY <1>1, StepType
  <2>2. run' \in [Run -> RunRecord] /\ \A q \in Run : Equipped(run'[q])
    BY <1>0, <2>1 DEF Become, TypeOK
  <2>3. UNCHANGED <<present, gone, uploading, removing, disturbances>>
    BY <1>1 DEF Start, RunStep, OpenSource, Fetch, TakeFile, Extract, Create,
                SaveCheckpoint
  <2>4. pauseRequested' \in [Run -> BOOLEAN]
    BY <1>0, <1>1 DEF Start, RunStep, OpenSource, Fetch, TakeFile, Extract,
                      Create, SaveCheckpoint, TypeOK
  <2>5. /\ row' \in [Key -> [status : {"none", "PENDING", "read", "failed"},
                             holds : File \cup {NoFile}]]
        /\ stored' \subseteq File /\ marker' \in [Source -> Doc \cup {0}]
    BY <1>1, StepType
  <2>6. QED
    BY <1>0, <2>2, <2>3, <2>4, <2>5 DEF TypeInv, TypeOK, Equipped
<1>2. ASSUME NEW s \in Source, NEW d \in Doc,
             \/ Arrive(s, d) \/ PutObject(s, d) \/ CreatePending(s, d)
             \/ RemoveObject(s, d)
      PROVE  TypeInv'
  <2>1. UNCHANGED <<run, pauseRequested, marker, stored, disturbances>>
    BY <1>2 DEF Arrive, PutObject, CreatePending, RemoveObject
  <2>2. /\ present' \subseteq Source \X Doc /\ gone' \subseteq Bucket \X Doc
        /\ uploading' \subseteq Bucket \X Doc /\ removing' \subseteq Bucket \X Doc
    BY <1>0, <1>2 DEF Arrive, PutObject, CreatePending, RemoveObject, TypeOK
  <2>3. row' \in [Key -> [status : {"none", "PENDING", "read", "failed"},
                          holds : File \cup {NoFile}]]
    <3>1. \/ UNCHANGED row
          \/ \E k : row' = [row EXCEPT ![k] = [status |-> "PENDING",
                                               holds |-> NoFile]]
      BY <1>2 DEF Arrive, PutObject, CreatePending, RemoveObject
    <3> DEFINE pending == [status |-> "PENDING", holds |-> NoFile]
               Row == [status : {"none", "PENDING", "read", "failed"},
                       holds : File \cup {NoFile}]
    <3>2. pending \in Row
      OBVIOUS
    <3>3. row \in [Key -> Row]
      BY <1>0 DEF TypeOK
    <3>4. UNCHANGED row \/ \E k : row' = [row EXCEPT ![k] = pending]
      BY <3>1
    <3> HIDE DEF pending, Row
    <3>5. row' \in [Key -> Row]
      BY <3>2, <3>3, <3>4
    <3>6. QED
      BY <3>5 DEF Row
  <2>4. QED
    BY <1>0, <2>1, <2>2, <2>3 DEF TypeInv, TypeOK, Equipped
<1>3. ASSUME NEW r \in Run, Crash(r) \/ RequestPause(r) \/ OtherTenantStarts(r)
      PROVE  TypeInv'
  <2>1. UNCHANGED <<present, gone, row, marker, uploading, removing, stored>>
    BY <1>3 DEF Crash, RequestPause, OtherTenantStarts
  <2>2. run' \in [Run -> RunRecord] /\ \A q \in Run : Equipped(run'[q])
    BY <1>0, <1>3, IdleType DEF Crash, RequestPause, OtherTenantStarts, Become,
                                TypeOK
  <2>3. pauseRequested' \in [Run -> BOOLEAN] /\ disturbances' \in 0..MaxDisturbance
    <3>1. disturbances' \in 0..MaxDisturbance
      <4>1. disturbances \in 0..MaxDisturbance
        BY <1>0 DEF TypeOK
      <4>2. \/ disturbances' = disturbances
            \/ disturbances < MaxDisturbance /\ disturbances' = disturbances + 1
        BY <1>3 DEF Crash, RequestPause, OtherTenantStarts, Disturb
      <4>3. QED
        BY <4>1, <4>2, DisturbanceAssumption
    <3>2. QED
      BY <1>0, <1>3, <3>1 DEF Crash, RequestPause, OtherTenantStarts, TypeOK
  <2>4. QED
    BY <1>0, <2>1, <2>2, <2>3 DEF TypeInv, TypeOK, Equipped
<1>4. ASSUME NEW k \in Key, Retry(k) \/ Delete(k) PROVE TypeInv'
  <2>1. UNCHANGED <<present, gone, marker, run, pauseRequested, uploading, stored>>
    BY <1>4 DEF Retry, Delete
  <2>2. row' \in [Key -> [status : {"none", "PENDING", "read", "failed"},
                          holds : File \cup {NoFile}]]
    BY <1>0, <1>4 DEF Retry, Delete, NoRow, TypeOK
  <2>3. disturbances' \in 0..MaxDisturbance
    BY <1>0, <1>4, DisturbanceAssumption DEF Retry, Delete, Disturb, TypeOK
  <2>4. removing' \subseteq Bucket \X Doc
    BY <1>0, <1>4, KeyAssumption DEF Retry, Delete, TypeOK
  <2>5. QED
    BY <1>0, <2>1, <2>2, <2>3, <2>4 DEF TypeInv, TypeOK, Equipped
<1>5. CASE UNCHANGED vars
  BY <1>0, <1>5 DEF vars, TypeInv, TypeOK, Equipped
<1>6. QED
  BY <1>1, <1>2, <1>3, <1>4, <1>5 DEF Next

(***************************************************************************)
(* The variables keep their types: every row holds a file the sources can  *)
(* contain or nothing, and every checkpoint is a document number.          *)
(***************************************************************************)
THEOREM TypeCorrect == Spec => []TypeOK
<1>1. TypeInv => TypeOK
  BY DEF TypeInv
<1>2. QED
  BY <1>1, TypeInit, TypeNext, PTL DEF Spec

-------------------------------------------------------------------------------
(***************************************************************************)
(* Nothing is skipped.  The checkpoint alone is not inductive: a run moves *)
(* it past the file in hand, so what matters is that every file of the     *)
(* mailbox the run has passed is stored, and that whatever arrives later   *)
(* has a higher number than everything the run has still in hand.          *)
(***************************************************************************)
OneAttachment ==
  \A f, g \in File :
    f.src \in Mailbox /\ g.src = f.src /\ g.doc = f.doc => g = f

InHand(rec) == IF rec.pc = "next" THEN rec.todo ELSE rec.todo \cup {rec.file}

(* What a run at a mailbox knows, when the files of `done` are stored.     *)
Ordered(rec, done) ==
  rec.pc \in AtSource /\ rec.src \in Mailbox =>
    /\ \A f \in File : f.src = rec.src /\ f.doc <= rec.mark => f \in done
    /\ rec.pc # "fetch" =>
         /\ \A g \in InHand(rec) : g.src = rec.src
         /\ \A f \in File : f.src = rec.src =>
              \/ f \in done \/ f \in InHand(rec)
              \/ \A g \in InHand(rec) : g.doc < f.doc
    /\ rec.pc \in AtFile => \A g \in rec.todo : rec.file.doc <= g.doc
    /\ rec.pc = "mark" => rec.file \in done

(* A row of a mailbox holds a stored file of its own document.             *)
MailRow(k, entry, done) ==
  k.src \in Mailbox /\ entry.status # "none" =>
    entry.holds \in done /\ entry.holds.src = k.src /\ entry.holds.doc = k.doc

(* Mails get their numbers in the order they arrive.                       *)
InSequence ==
  \A s \in Mailbox, c \in Doc, d \in Doc :
    <<s, d>> \in present /\ c < d => <<s, c>> \in present

SkipInv ==
  /\ NothingSkipped
  /\ InSequence
  /\ \A k \in Key : MailRow(k, row[k], stored)
  /\ \A r \in Run : Ordered(run[r], stored)

LEMMA DocOfFile ==
  ASSUME NEW f \in File
  PROVE  /\ f \in Key /\ f.src \in Source /\ f.doc \in Doc
         /\ f.doc \in Nat /\ f.doc > 0
<1>1. f \in Key /\ f.src \in Source /\ f.doc \in Doc
  BY KeyAssumption, FileAssumption
<1>2. f.doc \in Nat \ {0}
  BY <1>1, DocAssumption
<1>3. \A n \in Nat \ {0} : n \in Nat /\ n > 0
  OBVIOUS
<1>4. QED
  BY <1>1, <1>2, <1>3

LEMMA SkipInit == Init => SkipInv
<1> SUFFICES ASSUME Init PROVE SkipInv
  OBVIOUS
<1>1. NothingSkipped
  BY DocOfFile DEF Init, NothingSkipped
<1>2. \A k \in Key : MailRow(k, row[k], stored)
  BY DEF Init, MailRow, NoRow
<1>3. \A r \in Run : Ordered(run[r], stored)
  BY DEF Init, Ordered, Idle, AtSource, AtFile
<1>4. QED
  BY <1>1, <1>2, <1>3 DEF SkipInv, InSequence, Init

(* Once more files are stored, everything known stays known.               *)
LEMMA MoreStored ==
  ASSUME NEW done, NEW more, done \subseteq more
  PROVE  /\ \A rec : Ordered(rec, done) => Ordered(rec, more)
         /\ \A k, entry : MailRow(k, entry, done) => MailRow(k, entry, more)
<1>1. ASSUME NEW rec, Ordered(rec, done) PROVE Ordered(rec, more)
  <2> DEFINE held == InHand(rec)
  <2> HIDE DEF held
  <2> SUFFICES ASSUME rec.pc \in AtSource, rec.src \in Mailbox
               PROVE  Ordered(rec, more)
    BY DEF Ordered
  <2>1. \A f \in File : f.src = rec.src /\ f.doc <= rec.mark => f \in more
    BY <1>1 DEF Ordered
  <2>2. ASSUME rec.pc # "fetch"
        PROVE  /\ \A g \in InHand(rec) : g.src = rec.src
               /\ \A f \in File : f.src = rec.src =>
                    \/ f \in more \/ f \in InHand(rec)
                    \/ \A g \in InHand(rec) : g.doc < f.doc
    BY <1>1, <2>2 DEF Ordered
  <2>3. rec.pc \in AtFile => \A g \in rec.todo : rec.file.doc <= g.doc
    BY <1>1 DEF Ordered
  <2>4. rec.pc = "mark" => rec.file \in more
    BY <1>1 DEF Ordered
  <2>5. QED
    BY <2>1, <2>2, <2>3, <2>4 DEF Ordered
<1>2. QED
  BY <1>1 DEF MailRow

LEMMA IdleOrdered == \A done : Ordered(Idle, done)
BY DEF Ordered, Idle, AtSource, AtFile

(* What a step of run r leaves, for any files stored.                      *)
LEMMA RunOrdered ==
  ASSUME SkipInv, NEW r \in Run, NEW rec, run \in [Run -> RunRecord],
         run' = [run EXCEPT ![r] = rec],
         stored \subseteq stored', Ordered(rec, stored')
  PROVE  \A q \in Run : Ordered(run'[q], stored')
<1>1. run'[r] = rec /\ \A q \in Run : q # r => run'[q] = run[q]
  OBVIOUS
<1>2. \A q \in Run : Ordered(run[q], stored')
  BY MoreStored DEF SkipInv
<1>3. QED
  BY <1>1, <1>2

(* Two files of one document of a mailbox are one. *)
LEMMA SameMail ==
  ASSUME OneAttachment, NEW f \in File, NEW g \in File, f.src \in Mailbox,
         g.src = f.src, g.doc = f.doc
  PROVE  g = f
BY DEF OneAttachment

(* A row under the name of a mail's file holds that file, stored.          *)
LEMMA RowOfMail ==
  ASSUME OneAttachment, SkipInv, TypeInv, NEW f \in File, f.src \in Mailbox,
         NEW k \in Key, k.src = f.src, k.doc = f.doc, Exists(k)
  PROVE  f \in stored
<1>1. /\ row[k].holds \in stored /\ row[k].holds.src = f.src
      /\ row[k].holds.doc = f.doc
  BY DEF SkipInv, MailRow, Exists
<1>2. row[k].holds \in File
  BY <1>1 DEF TypeInv, TypeOK
<1>3. QED
  BY <1>1, <1>2, SameMail

(* A run has ended its work on a file: the file is stored, and what it     *)
(* knew of the others it still knows.                                      *)
LEMMA MarkOrdered ==
  ASSUME TypeInv, NEW r \in Run, run[r].pc \in {"extract", "create"},
         Ordered(run[r], stored), NEW done, stored \subseteq done,
         run[r].src \in Mailbox => run[r].file \in done
  PROVE  Ordered([run[r] EXCEPT !.pc = "mark"], done)
<1> DEFINE rec == [run[r] EXCEPT !.pc = "mark"]
<1>1. run[r] \in RunRecord
  BY DEF TypeInv, TypeOK
<1>2. /\ rec.pc = "mark" /\ rec.src = run[r].src /\ rec.todo = run[r].todo
      /\ rec.file = run[r].file /\ rec.mark = run[r].mark
  BY <1>1 DEF RunRecord
<1>3. InHand(rec) = InHand(run[r])
  BY <1>2 DEF InHand
<1>4. Ordered(run[r], done)
  BY MoreStored
<1> HIDE DEF rec
<1>5. QED
  BY <1>2, <1>3, <1>4 DEF Ordered, AtSource, AtFile, rec

LEMMA CreateOrdered ==
  ASSUME TypeInv, NEW r \in Run, run[r].pc = "extract",
         Ordered(run[r], stored), NEW outcome
  PROVE  Ordered([run[r] EXCEPT !.pc = "create", !.outcome = outcome], stored)
<1> DEFINE rec == [run[r] EXCEPT !.pc = "create", !.outcome = outcome]
<1>1. run[r] \in RunRecord
  BY DEF TypeInv, TypeOK
<1>2. /\ rec.pc = "create" /\ rec.src = run[r].src /\ rec.todo = run[r].todo
      /\ rec.file = run[r].file /\ rec.mark = run[r].mark
  BY <1>1 DEF RunRecord
<1>3. InHand(rec) = InHand(run[r])
  BY <1>2 DEF InHand
<1> HIDE DEF rec
<1>4. QED
  BY <1>2, <1>3 DEF Ordered, AtSource, AtFile, rec

(* Steps of a run that write no row. *)
LEMMA ReadingOrdered ==
  ASSUME OneAttachment, TypeInv, SkipInv, NEW r \in Run,
         Start(r) \/ OpenSource(r) \/ Fetch(r) \/ TakeFile(r)
  PROVE  \E rec : run' = [run EXCEPT ![r] = rec] /\ Ordered(rec, stored)
<1>0. run[r] \in RunRecord /\ Equipped(run[r]) /\ Ordered(run[r], stored)
  BY DEF TypeInv, TypeOK, SkipInv
<1>1. CASE Start(r)
  <2> DEFINE rec == [Idle EXCEPT !.pc = "source",
                       !.left = IF r \in Worker THEN Source \ Bucket ELSE Source]
  <2>1. run' = [run EXCEPT ![r] = rec]
    BY <1>1 DEF Start, Become
  <2>2. rec.pc = "source"
    BY DEF Idle
  <2> HIDE DEF rec
  <2>3. QED
    BY <2>1, <2>2 DEF Ordered, AtSource, AtFile
<1>2. CASE OpenSource(r)
  <2>1. CASE Become(r, Idle)
    BY <2>1, IdleOrdered DEF Become
  <2>2. CASE ~ Become(r, Idle)
    <3>1. PICK s \in run[r].left :
            Become(r, [Idle EXCEPT !.pc = "fetch", !.left = run[r].left \ {s},
                                   !.src = s, !.mark = marker[s]])
      BY <1>2, <2>2 DEF OpenSource
    <3> DEFINE rec == [Idle EXCEPT !.pc = "fetch", !.left = run[r].left \ {s},
                                   !.src = s, !.mark = marker[s]]
    <3>2. rec.pc = "fetch" /\ rec.src = s /\ rec.mark = marker[s]
      BY DEF Idle
    <3>3. run' = [run EXCEPT ![r] = rec]
      BY <3>1 DEF Become
    <3> HIDE DEF rec
    <3>4. Ordered(rec, stored)
      BY <3>2 DEF Ordered, AtFile, SkipInv, NothingSkipped
    <3>5. QED
      BY <3>3, <3>4
  <2>3. QED
    BY <2>1, <2>2
<1>3. CASE Fetch(r)
  <2> DEFINE s == run[r].src
             listed == Listed(s, run[r].mark)
             todo == IF s \in Mailbox THEN listed
                     ELSE {f \in listed : ~ AlreadyProcessed(f)}
             rec == [run[r] EXCEPT !.pc = "next", !.todo = todo]
  <2>1. run[r].pc = "fetch" /\ run' = [run EXCEPT ![r] = rec]
    BY <1>3 DEF Fetch, Become
  <2>2. /\ rec.pc = "next" /\ rec.src = s /\ rec.todo = todo
        /\ rec.mark = run[r].mark
    BY <1>0 DEF RunRecord
  <2>3. ASSUME s \in Mailbox PROVE Ordered(rec, stored)
    <3>1. \A f \in File : f.src = s /\ f.doc <= rec.mark => f \in stored
      BY <1>0, <2>1, <2>2, <2>3 DEF Ordered, AtSource
    <3>2. todo = {f \in File : f.src = s /\ <<s, f.doc>> \in present \ gone
                                          /\ f.doc > rec.mark}
      BY <2>2, <2>3 DEF Listed
    <3>3. \A d : <<s, d>> \notin gone
      BY <2>3, SourceAssumption DEF TypeInv, TypeOK
    <3> HIDE DEF rec, todo, s
    <3>4. rec.mark \in Nat
      <4>1. rec.mark \in Doc \cup {0}
        BY <1>0, <2>2 DEF RunRecord
      <4>2. Doc \cup {0} \subseteq Nat
        <5>1. \A d \in Doc : d \in Nat
          BY DocAssumption
        <5>2. QED
          BY <5>1
      <4>3. QED
        BY <4>1, <4>2
    <3>5. ASSUME NEW f \in File, f.src = s, f \notin stored, f \notin todo,
                 NEW g \in todo
          PROVE  g.doc < f.doc
      <4>1. f.doc \in Nat /\ g \in File /\ g.doc \in Nat
            /\ f.doc \in Doc /\ g.doc \in Doc
        BY <3>2, DocOfFile
      <4>2. f.doc > rec.mark
        BY <3>1, <3>4, <3>5, <4>1
      <4>3. <<s, f.doc>> \notin present
        BY <3>2, <3>3, <3>5, <4>2
      <4>4. <<s, g.doc>> \in present
        BY <3>2
      <4>5. ~ (f.doc < g.doc)
        BY <2>3, <4>1, <4>3, <4>4 DEF SkipInv, InSequence, s
      <4>6. f.doc # g.doc
        BY <4>3, <4>4
      <4>7. QED
        BY <4>1, <4>5, <4>6
    <3>6. InHand(rec) = todo /\ \A g \in todo : g.src = s
      BY <2>2, <3>2 DEF InHand
    <3>7. QED
      BY <2>2, <3>1, <3>5, <3>6 DEF Ordered, AtFile
  <2>4. s \notin Mailbox => Ordered(rec, stored)
    BY <2>2 DEF Ordered
  <2> HIDE DEF rec
  <2>5. QED
    BY <2>1, <2>3, <2>4
<1>4. CASE TakeFile(r)
  <2>1. run[r].pc = "next"
    BY <1>4 DEF TakeFile
  <2>2. CASE run[r].todo = {}
    <3> DEFINE rec == [Idle EXCEPT !.pc = "source", !.left = run[r].left]
    <3>1. run' = [run EXCEPT ![r] = rec]
      BY <1>4, <2>2 DEF TakeFile, Become
    <3>2. rec.pc = "source"
      BY DEF Idle
    <3> HIDE DEF rec
    <3>3. QED
      BY <3>1, <3>2 DEF Ordered, AtSource, AtFile
  <2>3. CASE run[r].todo # {}
    <3>1. PICK f \in run[r].todo :
            /\ InOrder(f, run[r].todo)
            /\ Become(r, [run[r] EXCEPT
                            !.pc = IF Duplicate(f) THEN "mark" ELSE "extract",
                            !.todo = @ \ {f}, !.file = f])
      BY <1>4, <2>3 DEF TakeFile
    <3> DEFINE rec == [run[r] EXCEPT
                         !.pc = IF Duplicate(f) THEN "mark" ELSE "extract",
                         !.todo = @ \ {f}, !.file = f]
    <3>2. /\ rec.pc = IF Duplicate(f) THEN "mark" ELSE "extract"
          /\ rec.todo = run[r].todo \ {f} /\ rec.file = f
          /\ rec.src = run[r].src /\ rec.mark = run[r].mark
      BY <1>0 DEF RunRecord
    <3>3. run' = [run EXCEPT ![r] = rec]
      BY <3>1 DEF Become
    <3>4. f \in File
      BY <1>0 DEF RunRecord
    <3> HIDE DEF rec
    <3>5. ASSUME rec.src \in Mailbox PROVE Ordered(rec, stored)
      <4>1. f.src = rec.src
        BY <1>0, <2>1, <3>2, <3>5 DEF Ordered, AtSource, InHand
      <4>2. InHand(rec) = run[r].todo /\ InHand(run[r]) = run[r].todo
        BY <2>1, <3>2 DEF InHand
      <4>3. rec.pc = "mark" => f \in stored
        <5>1. SUFFICES ASSUME Settled(f) PROVE f \in stored
          BY <3>2 DEF Duplicate
        <5>2. Exists(f)
          BY <5>1 DEF Settled, Exists
        <5>3. QED
          BY <3>4, <3>5, <4>1, <5>2, DocOfFile, RowOfMail
      <4>4. \A g \in rec.todo : f.doc <= g.doc
        BY <3>1, <3>2 DEF InOrder
      <4>5. QED
        <5>1. \A g \in File : g.src = rec.src /\ g.doc <= rec.mark => g \in stored
          BY <1>0, <2>1, <3>2, <3>5 DEF Ordered, AtSource
        <5>2. /\ \A g \in InHand(rec) : g.src = rec.src
              /\ \A g \in File : g.src = rec.src =>
                   \/ g \in stored \/ g \in InHand(rec)
                   \/ \A h \in InHand(rec) : h.doc < g.doc
          BY <1>0, <2>1, <3>2, <3>5, <4>2 DEF Ordered, AtSource
        <5>3. rec.pc = "mark" => rec.file \in stored
          BY <3>2, <4>3
        <5>4. \A g \in rec.todo : rec.file.doc <= g.doc
          BY <3>2, <4>4
        <5>5. QED
          BY <5>1, <5>2, <5>3, <5>4 DEF Ordered
    <3>6. rec.src \notin Mailbox => Ordered(rec, stored)
      BY DEF Ordered
    <3>7. QED
      BY <3>3, <3>5, <3>6
  <2>4. QED
    BY <2>2, <2>3
<1>5. QED
  BY <1>1, <1>2, <1>3, <1>4

(* Steps of a run that write a row, or find one. *)
LEMMA WritingOrdered ==
  ASSUME OneAttachment, TypeInv, SkipInv, NEW r \in Run, Extract(r) \/ Create(r)
  PROVE  /\ stored \subseteq stored'
         /\ \E rec : run' = [run EXCEPT ![r] = rec] /\ Ordered(rec, stored')
         /\ \A k \in Key : MailRow(k, row'[k], stored')
<1> DEFINE f == run[r].file
<1>0. /\ run[r] \in RunRecord /\ Equipped(run[r]) /\ Ordered(run[r], stored)
      /\ \A k \in Key : MailRow(k, row[k], stored)
  BY DEF TypeInv, TypeOK, SkipInv
<1>1. run[r].pc \in {"extract", "create"} /\ f \in File
  BY <1>0 DEF Extract, Create, Equipped, AtFile
<1>2. run[r].src \in Mailbox => f.src = run[r].src
  BY <1>0, <1>1 DEF Ordered, AtSource, AtFile, InHand
<1>3. ASSUME NEW outcome, NEW k \in Key, Exists(k), k.src = f.src, k.doc = f.doc,
             Become(r, AfterConflict(run[r], outcome))
      PROVE  \E rec : run' = [run EXCEPT ![r] = rec] /\ Ordered(rec, stored)
  <2>1. run[r].src \in Mailbox => f \in stored
    BY <1>1, <1>2, <1>3, RowOfMail
  <2>2. Ordered([run[r] EXCEPT !.pc = "mark"], stored)
    BY <1>0, <1>1, <2>1, MarkOrdered
  <2>3. QED
    BY <1>3, <2>2, IdleOrdered DEF AfterConflict, Become
<1>4. ASSUME Become(r, [run[r] EXCEPT !.pc = "mark"]), stored' = stored \cup {f}
      PROVE  \E rec : run' = [run EXCEPT ![r] = rec] /\ Ordered(rec, stored')
  <2>1. stored \subseteq stored' /\ f \in stored'
    BY <1>4
  <2>2. Ordered([run[r] EXCEPT !.pc = "mark"], stored')
    BY <1>0, <1>1, <2>1, MarkOrdered
  <2>3. QED
    BY <1>4, <2>2 DEF Become
<1>5. ASSUME stored' = stored \cup {f}, NEW k \in Key, NEW entry,
             k.src = f.src, k.doc = f.doc, entry.holds = f
      PROVE  MailRow(k, entry, stored')
  BY <1>5 DEF MailRow
<1>6. row \in [Key -> [status : {"none", "PENDING", "read", "failed"},
                       holds : File \cup {NoFile}]]
  BY DEF TypeInv, TypeOK
<1>7. CASE Extract(r)
  <2>1. run[r].pc = "extract"
    BY <1>7 DEF Extract
  <2>2. PICK outcome \in {"read", "failed"} :
          IF ~ \E k \in Key : Matches(k, f)
            THEN /\ Become(r, [run[r] EXCEPT !.pc = "create", !.outcome = outcome])
                 /\ UNCHANGED <<row, stored>>
            ELSE \E k \in Key :
              /\ Matches(k, f)
              /\ IF Moved(k, f) # k /\ Exists(Moved(k, f))
                   THEN /\ Become(r, AfterConflict(run[r], outcome))
                        /\ UNCHANGED <<row, stored>>
                   ELSE /\ Become(r, [run[r] EXCEPT !.pc = "mark"])
                        /\ row' = [row EXCEPT ![k] = NoRow,
                                     ![Moved(k, f)] = [status |-> outcome,
                                                       holds |-> f]]
                        /\ stored' = stored \cup {f}
    BY <1>7 DEF Extract
  <2>3. CASE ~ \E k \in Key : Matches(k, f)
    <3>1. Ordered([run[r] EXCEPT !.pc = "create", !.outcome = outcome], stored)
      BY <1>0, <2>1, CreateOrdered
    <3>2. QED
      BY <1>0, <2>2, <2>3, <3>1 DEF Become
  <2>4. CASE \E k \in Key : Matches(k, f)
    <3>1. PICK k \in Key :
            /\ Matches(k, f)
            /\ IF Moved(k, f) # k /\ Exists(Moved(k, f))
                 THEN /\ Become(r, AfterConflict(run[r], outcome))
                      /\ UNCHANGED <<row, stored>>
                 ELSE /\ Become(r, [run[r] EXCEPT !.pc = "mark"])
                      /\ row' = [row EXCEPT ![k] = NoRow,
                                   ![Moved(k, f)] = [status |-> outcome,
                                                     holds |-> f]]
                      /\ stored' = stored \cup {f}
      BY <2>2, <2>4
    <3>2. /\ Moved(k, f) \in Key /\ Moved(k, f).src = f.src
          /\ Moved(k, f).doc = f.doc
      BY <1>1, <3>1, KeyType DEF Matches, SameDocument
    <3>3. CASE Moved(k, f) # k /\ Exists(Moved(k, f))
      BY <1>0, <1>3, <3>1, <3>2, <3>3
    <3>4. CASE ~ (Moved(k, f) # k /\ Exists(Moved(k, f)))
      <4> DEFINE m == Moved(k, f)
                 entry == [status |-> outcome, holds |-> f]
      <4>1. /\ Become(r, [run[r] EXCEPT !.pc = "mark"])
            /\ row' = [row EXCEPT ![k] = NoRow, ![m] = entry]
            /\ stored' = stored \cup {f}
        BY <3>1, <3>4
      <4>2. entry.holds = f
        OBVIOUS
      <4> HIDE DEF m, entry
      <4>3. \A j \in Key : row'[j] = IF j = m THEN entry
                                      ELSE IF j = k THEN NoRow ELSE row[j]
        BY <1>6, <4>1
      <4>4. MailRow(m, entry, stored')
        BY <1>5, <3>2, <4>1, <4>2 DEF m
      <4>5. \A j \in Key : MailRow(j, row[j], stored')
        BY <1>0, <4>1, MoreStored
      <4>6. \A j : MailRow(j, NoRow, stored')
        BY DEF MailRow, NoRow
      <4>7. \A j \in Key : MailRow(j, row'[j], stored')
        BY <4>3, <4>4, <4>5, <4>6
      <4>8. QED
        BY <1>4, <4>1, <4>7
    <3>5. QED
      BY <3>3, <3>4
  <2>5. QED
    BY <2>3, <2>4
<1>8. CASE Create(r)
  <2>1. f \in Key
    BY <1>1, FileAssumption
  <2>2. CASE Exists(f)
    <3>1. /\ Become(r, AfterConflict(run[r], run[r].outcome))
          /\ UNCHANGED <<row, stored>>
      BY <1>8, <2>2 DEF Create
    <3>2. QED
      BY <1>0, <1>3, <2>1, <2>2, <3>1
  <2>3. CASE ~ Exists(f)
    <3> DEFINE entry == [status |-> run[r].outcome, holds |-> f]
    <3>1. /\ Become(r, [run[r] EXCEPT !.pc = "mark"])
          /\ row' = [row EXCEPT ![f] = entry] /\ stored' = stored \cup {f}
      BY <1>8, <2>3 DEF Create
    <3>2. entry.holds = f
      OBVIOUS
    <3> HIDE DEF entry
    <3>3. \A j \in Key : row'[j] = IF j = f THEN entry ELSE row[j]
      BY <1>6, <3>1
    <3>4. \A j \in Key : MailRow(j, row[j], stored')
      BY <1>0, <3>1, MoreStored
    <3>5. MailRow(f, entry, stored')
      BY <1>5, <2>1, <3>1, <3>2
    <3>6. \A j \in Key : MailRow(j, row'[j], stored')
      BY <3>3, <3>4, <3>5
    <3>7. QED
      BY <1>4, <3>1, <3>6
  <2>4. QED
    BY <2>2, <2>3
<1>9. QED
  BY <1>7, <1>8

(* Saving the checkpoint of a mailbox: whatever has a number up to the     *)
(* file's own is stored.                                                   *)
LEMMA SavingOrdered ==
  ASSUME OneAttachment, TypeInv, SkipInv, NEW r \in Run, SaveCheckpoint(r)
  PROVE  /\ \E rec : run' = [run EXCEPT ![r] = rec] /\ Ordered(rec, stored)
         /\ \A f \in File : f.src \in Mailbox /\ f.doc <= marker'[f.src]
                                => f \in stored
<1> DEFINE s == run[r].src
           d == run[r].file.doc
           rec == [run[r] EXCEPT !.pc = "next", !.file = NoFile, !.mark = d]
<1>0. /\ run[r] \in RunRecord /\ Equipped(run[r]) /\ Ordered(run[r], stored)
      /\ run[r].pc = "mark"
  BY DEF TypeInv, TypeOK, SkipInv, SaveCheckpoint
<1>1. run[r].file \in File /\ run[r].todo \subseteq File /\ d \in Nat
  BY <1>0, DocOfFile DEF Equipped, AtFile, RunRecord
<1>2. /\ rec.pc = "next" /\ rec.src = s /\ rec.todo = run[r].todo /\ rec.mark = d
  BY <1>0 DEF RunRecord
<1>3. run' = [run EXCEPT ![r] = Idle] \/ run' = [run EXCEPT ![r] = rec]
  BY DEF SaveCheckpoint, Become
<1> HIDE DEF rec
<1>4. InHand(run[r]) = run[r].todo \cup {run[r].file} /\ InHand(rec) = run[r].todo
  BY <1>0, <1>2 DEF InHand
<1>5. ASSUME s \in Mailbox, NEW f \in File, f.src = s, f.doc <= d
      PROVE  f \in stored
  <2>1. /\ run[r].file.src = s /\ run[r].file \in stored
        /\ \A g \in run[r].todo : g.src = s /\ d <= g.doc
    BY <1>0, <1>4, <1>5 DEF Ordered, AtSource, AtFile
  <2>2. \/ f \in stored \/ f \in run[r].todo \/ f = run[r].file
        \/ d < f.doc
    BY <1>0, <1>4, <1>5 DEF Ordered, AtSource, AtFile
  <2>3. f.doc \in Nat
    BY DocOfFile
  <2>4. CASE f \in run[r].todo
    <3>1. f.doc = d
      BY <1>1, <1>5, <2>1, <2>3, <2>4
    <3>2. f = run[r].file
      BY <1>1, <1>5, <2>1, <3>1, SameMail
    <3>3. QED
      BY <2>1, <3>2
  <2>5. QED
    BY <1>1, <1>5, <2>1, <2>2, <2>3, <2>4
<1>6. s \in Mailbox => Ordered(rec, stored)
  <2> SUFFICES ASSUME s \in Mailbox PROVE Ordered(rec, stored)
    OBVIOUS
  <2>1. \A f \in File : f.src = rec.src /\ f.doc <= rec.mark => f \in stored
    BY <1>2, <1>5
  <2>2. \A g \in InHand(rec) : g.src = rec.src
    BY <1>0, <1>2, <1>4 DEF Ordered, AtSource, AtFile
  <2>3. ASSUME NEW f \in File, f.src = rec.src
        PROVE  \/ f \in stored \/ f \in InHand(rec)
               \/ \A g \in InHand(rec) : g.doc < f.doc
    <3>1. \/ f \in stored \/ f \in run[r].todo \/ f = run[r].file
          \/ \A g \in run[r].todo : g.doc < f.doc
      BY <1>0, <1>2, <1>4, <2>3 DEF Ordered, AtSource, AtFile
    <3>2. run[r].file \in stored
      BY <1>0 DEF Ordered, AtSource, AtFile
    <3>3. QED
      BY <1>4, <3>1, <3>2
  <2>4. QED
    BY <1>2, <2>1, <2>2, <2>3 DEF Ordered, AtFile
<1>7. s \notin Mailbox => Ordered(rec, stored)
  BY <1>2 DEF Ordered
<1>8. \E q : run' = [run EXCEPT ![r] = q] /\ Ordered(q, stored)
  BY <1>3, <1>6, <1>7, IdleOrdered
<1>9. ASSUME NEW f \in File, f.src \in Mailbox, f.doc <= marker'[f.src]
      PROVE  f \in stored
  <2>1. marker \in [Source -> Doc \cup {0}] /\ f.src \in Source
    BY DocOfFile DEF TypeInv, TypeOK
  <2>2. marker' = [marker EXCEPT ![s] = IF d # run[r].mark THEN d ELSE @]
    BY DEF SaveCheckpoint
  <2>3. marker'[f.src] = marker[f.src] \/ (f.src = s /\ marker'[f.src] = d)
    BY <2>1, <2>2
  <2>4. CASE marker'[f.src] = marker[f.src]
    BY <1>9, <2>4 DEF SkipInv, NothingSkipped
  <2>5. CASE f.src = s /\ marker'[f.src] = d
    BY <1>5, <1>9, <2>5
  <2>6. QED
    BY <2>3, <2>4, <2>5
<1>10. QED
  BY <1>8, <1>9

LEMMA SkipNext == OneAttachment /\ TypeInv /\ SkipInv /\ [Next]_vars => SkipInv'
<1> SUFFICES ASSUME OneAttachment, TypeInv, SkipInv, [Next]_vars PROVE SkipInv'
  OBVIOUS
<1>0. /\ run \in [Run -> RunRecord]
      /\ row \in [Key -> [status : {"none", "PENDING", "read", "failed"},
                          holds : File \cup {NoFile}]]
  BY DEF TypeInv, TypeOK
<1>1. ASSUME NEW r \in Run, Start(r) \/ RunStep(r) PROVE SkipInv'
  <2>1. UNCHANGED present
    BY <1>1 DEF Start, RunStep, OpenSource, Fetch, TakeFile, Extract, Create,
                SaveCheckpoint
  <2>2. CASE Start(r) \/ OpenSource(r) \/ Fetch(r) \/ TakeFile(r)
    <3>1. UNCHANGED <<row, marker, stored>>
      BY <2>2 DEF Start, OpenSource, Fetch, TakeFile
    <3>2. \A q \in Run : Ordered(run'[q], stored')
      BY <1>0, <2>2, <3>1, ReadingOrdered, RunOrdered
    <3>3. QED
      BY <2>1, <3>1, <3>2 DEF SkipInv, NothingSkipped, InSequence
  <2>3. CASE Extract(r) \/ Create(r)
    <3>1. UNCHANGED marker /\ stored \subseteq stored'
      BY <2>3, WritingOrdered DEF Extract, Create
    <3>2. \A k \in Key : MailRow(k, row'[k], stored')
      BY <2>3, WritingOrdered
    <3>3. \A q \in Run : Ordered(run'[q], stored')
      BY <1>0, <2>3, <3>1, WritingOrdered, RunOrdered
    <3>4. QED
      BY <2>1, <3>1, <3>2, <3>3 DEF SkipInv, NothingSkipped, InSequence
  <2>4. CASE SaveCheckpoint(r)
    <3>1. UNCHANGED <<row, stored>>
      BY <2>4 DEF SaveCheckpoint
    <3>2. \A q \in Run : Ordered(run'[q], stored')
      BY <1>0, <2>4, <3>1, SavingOrdered, RunOrdered
    <3>3. NothingSkipped'
      BY <2>4, <3>1, SavingOrdered DEF NothingSkipped
    <3>4. QED
      BY <2>1, <3>1, <3>2, <3>3 DEF SkipInv, InSequence
  <2>5. QED
    BY <1>1, <2>2, <2>3, <2>4 DEF RunStep
<1>2. ASSUME NEW s \in Source, NEW d \in Doc,
             \/ Arrive(s, d) \/ PutObject(s, d) \/ CreatePending(s, d)
             \/ RemoveObject(s, d)
      PROVE  SkipInv'
  <2>1. UNCHANGED <<run, marker, stored>>
    BY <1>2 DEF Arrive, PutObject, CreatePending, RemoveObject
  <2>2. InSequence'
    <3>1. CASE Arrive(s, d)
      <4>1. /\ present' = present \cup {<<s, d>>}
            /\ s \in Mailbox => \A c \in Doc : c < d => <<s, c>> \in present
        BY <3>1 DEF Arrive
      <4>2. QED
        BY <4>1 DEF SkipInv, InSequence
    <3>2. CASE PutObject(s, d)
      <4>1. present' = present \cup {<<s, d>>} /\ s \notin Mailbox
        BY <3>2, SourceAssumption DEF PutObject
      <4>2. QED
        BY <4>1 DEF SkipInv, InSequence
    <3>3. CASE CreatePending(s, d) \/ RemoveObject(s, d)
      BY <3>3 DEF CreatePending, RemoveObject, SkipInv, InSequence
    <3>4. QED
      BY <1>2, <3>1, <3>2, <3>3
  <2>3. \A k \in Key : MailRow(k, row'[k], stored)
    <3>1. CASE UNCHANGED row
      BY <3>1 DEF SkipInv
    <3>2. CASE ~ UNCHANGED row
      <4> DEFINE new == [src |-> s, doc |-> d, name |-> OriginalName]
                 entry == [status |-> "PENDING", holds |-> NoFile]
      <4>1. row' = [row EXCEPT ![new] = entry] /\ <<s, d>> \in uploading
        BY <1>2, <3>2 DEF Arrive, PutObject, CreatePending, RemoveObject
      <4>2. new.src \notin Mailbox
        BY <4>1, SourceAssumption DEF TypeInv, TypeOK
      <4> HIDE DEF new, entry
      <4>3. \A k \in Key : k.src \in Mailbox => row'[k] = row[k]
        BY <1>0, <4>1, <4>2
      <4>4. QED
        BY <4>3 DEF SkipInv, MailRow
    <3>3. QED
      BY <3>1, <3>2
  <2>4. QED
    BY <2>1, <2>2, <2>3 DEF SkipInv, NothingSkipped
<1>3. ASSUME NEW r \in Run, Crash(r) \/ RequestPause(r) \/ OtherTenantStarts(r)
      PROVE  SkipInv'
  <2>1. UNCHANGED <<present, row, marker, stored>>
    BY <1>3 DEF Crash, RequestPause, OtherTenantStarts
  <2>2. \A q \in Run : Ordered(run'[q], stored)
    <3>1. run' = run \/ run' = [run EXCEPT ![r] = Idle]
      BY <1>3 DEF Crash, RequestPause, OtherTenantStarts, Become
    <3>2. \A q \in Run : run'[q] = run[q] \/ run'[q] = Idle
      BY <1>0, <3>1
    <3>3. QED
      BY <3>2, IdleOrdered DEF SkipInv
  <2>3. QED
    BY <2>1, <2>2 DEF SkipInv, NothingSkipped, InSequence
<1>4. ASSUME NEW k \in Key, Retry(k) \/ Delete(k) PROVE SkipInv'
  <2>1. UNCHANGED <<present, marker, run, stored>>
    BY <1>4 DEF Retry, Delete
  <2>2. \A j \in Key : MailRow(j, row'[j], stored)
    <3>1. CASE Retry(k)
      <4> DEFINE entry == [row[k] EXCEPT !.status = "PENDING"]
      <4>1. row' = [row EXCEPT ![k] = entry] /\ row[k].status # "none"
        BY <3>1 DEF Retry, Settled
      <4>2. entry.holds = row[k].holds
        BY <1>0
      <4> HIDE DEF entry
      <4>3. MailRow(k, entry, stored)
        BY <4>1, <4>2 DEF SkipInv, MailRow
      <4>4. QED
        BY <1>0, <4>1, <4>3 DEF SkipInv
    <3>2. CASE Delete(k)
      <4>1. \A j \in Key : row'[j] = row[j] \/ row'[j] = NoRow
        BY <1>0, <3>2 DEF Delete
      <4>2. \A j : MailRow(j, NoRow, stored)
        BY DEF MailRow, NoRow
      <4>3. QED
        BY <4>1, <4>2 DEF SkipInv
    <3>3. QED
      BY <1>4, <3>1, <3>2
  <2>3. QED
    BY <2>1, <2>2 DEF SkipInv, NothingSkipped, InSequence
<1>5. CASE UNCHANGED vars
  BY <1>5 DEF vars, SkipInv, NothingSkipped, InSequence
<1>6. QED
  BY <1>1, <1>2, <1>3, <1>4, <1>5 DEF Next

(***************************************************************************)
(* With one supported attachment per mail, the checkpoint of a mailbox     *)
(* never passes a file that reached no row, for any number of overlapping  *)
(* runs, crashes, pauses, retries and deletions.                           *)
(***************************************************************************)
THEOREM MailIsNotSkipped ==
  ASSUME OneAttachment
  PROVE  Spec => []NothingSkipped
<1>1. TypeInv /\ SkipInv /\ [Next]_vars => SkipInv'
  BY SkipNext
<1>2. SkipInv => NothingSkipped
  BY DEF SkipInv
<1>3. QED
  BY <1>1, <1>2, TypeInit, TypeNext, SkipInit, PTL DEF Spec

-------------------------------------------------------------------------------
(***************************************************************************)
(* Content.  What a step writes into the rows: a row that is not settled,  *)
(* or one that is not settled by it.                                       *)
(***************************************************************************)
LEMMA SettledStays ==
  ASSUME TypeInv, [Next]_vars, NEW k \in Key, Settled(k), Settled(k)'
  PROVE  row'[k] = row[k]
<1> DEFINE Row == [status : {"none", "PENDING", "read", "failed"},
                   holds : File \cup {NoFile}]
<1>0. row \in [Key -> Row]
  BY DEF TypeInv, TypeOK
<1>1. row[k].status \in {"read", "failed"} /\ row'[k].status \in {"read", "failed"}
  BY DEF Settled
<1>2. ASSUME NEW s \in Source, NEW d \in Doc,
             \/ Arrive(s, d) \/ PutObject(s, d) \/ CreatePending(s, d)
             \/ RemoveObject(s, d)
      PROVE  row'[k] = row[k]
  <2> DEFINE pending == [status |-> "PENDING", holds |-> NoFile]
  <2>1. UNCHANGED row \/ \E c : row' = [row EXCEPT ![c] = pending]
    BY <1>2 DEF Arrive, PutObject, CreatePending, RemoveObject
  <2>2. pending.status = "PENDING"
    OBVIOUS
  <2> HIDE DEF pending
  <2>3. QED
    BY <1>0, <1>1, <2>1, <2>2
<1>3. ASSUME NEW r \in Run, RunStep(r)
      PROVE  row'[k] = row[k]
  <2> DEFINE f == run[r].file
  <2>0. run[r].pc \in AtFile => f \in File
    BY DEF TypeInv, Equipped
  <2>1. CASE Extract(r)
    <3>1. run[r].pc = "extract" /\ f \in File
      BY <2>0, <2>1 DEF Extract, AtFile
    <3>2. CASE row' = row
      BY <3>2
    <3>3. CASE row' # row
      <4>1. PICK outcome \in {"read", "failed"}, c \in Key :
              /\ Matches(c, f)
              /\ ~ (Moved(c, f) # c /\ Exists(Moved(c, f)))
              /\ row' = [row EXCEPT ![c] = NoRow,
                           ![Moved(c, f)] = [status |-> outcome, holds |-> f]]
        BY <2>1, <3>3 DEF Extract
      <4>2. k # c /\ k # Moved(c, f)
        BY <1>1, <4>1 DEF Matches, Exists
      <4>3. QED
        BY <1>0, <4>1, <4>2
    <3>4. QED
      BY <3>2, <3>3
  <2>2. CASE Create(r)
    <3>1. \/ UNCHANGED row
          \/ /\ ~ Exists(f)
             /\ \E new : row' = [row EXCEPT ![f] = new]
      BY <2>2 DEF Create
    <3>2. QED
      BY <1>0, <1>1, <3>1 DEF Exists
  <2>3. CASE OpenSource(r) \/ Fetch(r) \/ TakeFile(r) \/ SaveCheckpoint(r)
    BY <2>3 DEF OpenSource, Fetch, TakeFile, SaveCheckpoint
  <2>4. QED
    BY <1>3, <2>1, <2>2, <2>3 DEF RunStep
<1>4. ASSUME NEW r \in Run,
             \/ Start(r) \/ Crash(r) \/ RequestPause(r) \/ OtherTenantStarts(r)
      PROVE  row'[k] = row[k]
  BY <1>4 DEF Start, Crash, RequestPause, OtherTenantStarts
<1>5. ASSUME NEW c \in Key, Retry(c) \/ Delete(c)
      PROVE  row'[k] = row[k]
  <2>1. c # k
    BY <1>0, <1>1, <1>5 DEF Retry, Delete, NoRow
  <2>2. QED
    BY <1>0, <1>5, <2>1 DEF Retry, Delete
<1>6. CASE UNCHANGED vars
  BY <1>6 DEF vars
<1>7. QED
  BY <1>2, <1>3, <1>4, <1>5, <1>6 DEF Next

(***************************************************************************)
(* A run never writes over a row that somebody may be reviewing: only a    *)
(* retry or a deletion opens a row to new content (SettledKeepsContent).   *)
(***************************************************************************)
THEOREM ContentIsKept == Spec => SettledKeepsContent
<1> DEFINE Kept == \A k \in Key : Settled(k) /\ Settled(k)' => row'[k] = row[k]
<1>1. TypeInv /\ [Next]_vars => Kept
  BY SettledStays
<1>2. QED
  BY <1>1, TypeInit, TypeNext, PTL DEF Spec, SettledKeepsContent

==============================================================================

-------------------------- MODULE MeetingJobsProofs --------------------------
EXTENDS MeetingJobs, TLAPS

LEMMA InitType == Init => TypeOK
  BY NoneAssumption, NumbersAssumption
     DEF Init, TypeOK, MeetingStates, JobStates, Kinds, WorkerPoints, Working, JobIds,
         Request, RequestPoints, NoRequest, Sweep, NoSweep

LEMMA RequestType ==
  ASSUME TypeOK, RequestNext
  PROVE  TypeOK'
<1> USE NumbersAssumption DEF TypeOK, meetingVars, content, jobVars, workerVars, MeetingStates, JobStates,
        Kinds, WorkerPoints, Working, Request, RequestPoints
<1>1. ASSUME NEW r \in Requests, Abandon(r) PROVE TypeOK'
  BY <1>1 DEF Abandon, Reply, NoRequest
<1>2. ASSUME NEW r \in Requests, UploadWrite(r) PROVE TypeOK'
  BY <1>2 DEF UploadWrite, Reply, NoRequest
<1>3. ASSUME NEW r \in Requests, FinishWrite(r) PROVE TypeOK'
  BY <1>3 DEF FinishWrite, Reply, NoRequest
<1>4. ASSUME NEW r \in Requests, EnqueueSelect(r) PROVE TypeOK'
  <2>1. req' \in [Requests -> Request]
    BY SMTT(30), <1>4 DEF EnqueueSelect, Reply, NoRequest
  <2>2. QED
    BY <1>4, <2>1 DEF EnqueueSelect
<1>5. ASSUME NEW r \in Requests, EnqueueInsert(r) PROVE TypeOK'
  <2> DEFINE m == req[r].meeting
  <2>1. req' \in [Requests -> Request]
    BY <1>5 DEF EnqueueInsert, Reply, NoRequest
  <2>2. m \in Meetings \cup {None} /\ req[r].kind \in Kinds
    OBVIOUS
  <2>3. UNCHANGED <<trash, content, audio, attempts, workerVars, sweep>>
    BY <1>5 DEF EnqueueInsert
  <2>4. CASE Exists(m)
    <3>1. PICK j \in JobIds : /\ jstatus' = [jstatus EXCEPT ![j] = "queued"]
                             /\ jmeeting' = [jmeeting EXCEPT ![j] = m]
                             /\ jkind' = [jkind EXCEPT ![j] = req[r].kind]
                             /\ status' = [status EXCEPT ![m] = "queued"]
      BY <1>5, <2>4, Zenon DEF EnqueueInsert
    <3>2. QED
      BY <2>1, <2>2, <2>3, <3>1
  <2>5. CASE ~ Exists(m)
    <3>1. UNCHANGED <<jstatus, jmeeting, jkind, status>>
      BY <1>5, <2>5, Zenon DEF EnqueueInsert
    <3>2. QED
      BY <2>1, <2>3, <3>1
  <2>6. QED
    BY <2>4, <2>5
<1>6. ASSUME NEW r \in Requests, PurgeFiles(r) PROVE TypeOK'
  <2>1. req' \in [Requests -> Request]
    BY <1>6 DEF PurgeFiles
  <2>2. QED
    BY <1>6, <2>1 DEF PurgeFiles
<1>7. ASSUME NEW r \in Requests, PurgeRows(r) PROVE TypeOK'
  BY <1>7 DEF PurgeRows, RemoveRows, Reply, NoRequest
<1>8. ASSUME NEW r \in Requests, NEW m \in Meetings, UploadRead(r, m) PROVE TypeOK'
  BY <1>8 DEF UploadRead, Suspend
<1>9. ASSUME NEW r \in Requests, NEW m \in Meetings, FinishRead(r, m) PROVE TypeOK'
  BY <1>9 DEF FinishRead, Suspend
<1>10. ASSUME NEW r \in Requests, NEW m \in Meetings, PurgeCheck(r, m) PROVE TypeOK'
  BY <1>10 DEF PurgeCheck, Suspend
<1>11. ASSUME NEW r \in Requests, NEW m \in Meetings, NEW kind \in Kinds, ProcessRead(r, m, kind)
       PROVE TypeOK'
  BY <1>11 DEF ProcessRead, Suspend
<1>12. ASSUME NEW m \in Meetings, CreateMeeting(m) PROVE TypeOK'
  BY <1>12 DEF CreateMeeting
<1>13. ASSUME NEW m \in Meetings, SoftDelete(m) PROVE TypeOK'
  BY <1>13 DEF SoftDelete
<1>14. ASSUME NEW m \in Meetings, Restore(m) PROVE TypeOK'
  BY <1>14 DEF Restore
<1>15. ASSUME NEW m \in Meetings, Age(m) PROVE TypeOK'
  BY <1>15 DEF Age
<1>16. ASSUME NEW m \in Meetings, NEW t \in Tasks, NEW decide \in BOOLEAN, PatchTask(m, t, decide)
       PROVE TypeOK'
  BY <1>16 DEF PatchTask
<1>17. QED
  BY SMTT(30), <1>1, <1>2, <1>3, <1>4, <1>5, <1>6, <1>7, <1>8, <1>9, <1>10, <1>11, <1>12, <1>13, <1>14,
     <1>15, <1>16 DEF RequestNext

LEMMA SweepType ==
  ASSUME TypeOK, SweepStep
  PROVE  TypeOK'
<1> USE DEF TypeOK, meetingVars, content, jobVars, workerVars, MeetingStates, JobStates, Sweep
<1>1. CASE SweepLoad
  BY <1>1 DEF SweepLoad, SweepAfter, NoSweep
<1>2. CASE SweepFiles
  BY <1>2 DEF SweepFiles
<1>3. CASE SweepRows
  BY <1>3 DEF SweepRows, RemoveRows, SweepAfter, NoSweep
<1>4. CASE SweepFails
  BY <1>4 DEF SweepFails, NoSweep
<1>5. ASSUME NEW m \in Meetings, SweepNext(m) PROVE TypeOK'
  BY <1>5 DEF SweepNext, SweepAfter, NoSweep
<1>6. QED
  BY <1>1, <1>2, <1>3, <1>4, <1>5 DEF SweepStep

LEMMA WorkerType ==
  ASSUME TypeOK, Linked, WorkerNext
  PROVE  TypeOK'
<1> SUFFICES ASSUME NEW w \in Workers,
                    Start(w) \/ Crash(w) \/ Recover(w) \/ SelectJob(w) \/ ClaimJob(w) \/ RunJob(w)
             PROVE  TypeOK'
  BY DEF WorkerNext
<1> USE DEF TypeOK, meetingVars, content, jobVars, MeetingStates, JobStates, WorkerPoints,
        Working, Goto, Held
<1>1. CASE Start(w)
  BY <1>1 DEF Start
<1>2. CASE Crash(w)
  BY <1>2 DEF Crash
<1>3. CASE Recover(w)
  BY <1>3 DEF Recover
<1>4. CASE SelectJob(w)
  BY <1>4 DEF SelectJob
<1>5. CASE ClaimJob(w)
  BY <1>5 DEF ClaimJob
<1>6. CASE ClaimLost(w)
  BY <1>6 DEF ClaimLost
<1>7. CASE MarkProcessing(w)
  BY <1>7 DEF MarkProcessing
<1>8. CASE LoadMeeting(w)
  BY <1>8 DEF LoadMeeting
<1>9. CASE Transcribe(w)
  BY <1>9 DEF Transcribe
<1>10. CASE StoreTranscript(w)
  <2>1. wpc' \in [Workers -> WorkerPoints]
    BY <1>10 DEF StoreTranscript
  <2>2. transcript' \in [Meetings -> BOOLEAN] /\ summary' \in [Meetings -> BOOLEAN]
    BY ZenonT(30), <1>10 DEF StoreTranscript
  <2>3. suggested' \in [Meetings -> SUBSET Tasks] /\ decided' \in [Meetings -> SUBSET Tasks]
    BY <1>10 DEF StoreTranscript
  <2>4. \A m \in Meetings : suggested'[m] \cap decided'[m] = {}
    BY <1>10 DEF StoreTranscript
  <2>5. QED
    BY <1>10, <2>1, <2>2, <2>3, <2>4 DEF StoreTranscript
<1>11. CASE RereadTranscript(w)
  <2>1. wpc' \in [Workers -> WorkerPoints]
    BY <1>11 DEF RereadTranscript
  <2>2. summary' \in [Meetings -> BOOLEAN]
    BY <1>11 DEF RereadTranscript
  <2>3. suggested' \in [Meetings -> SUBSET Tasks] /\ decided' \in [Meetings -> SUBSET Tasks]
    BY <1>11 DEF RereadTranscript
  <2>4. \A m \in Meetings : suggested'[m] \cap decided'[m] = {}
    BY <1>11 DEF RereadTranscript
  <2>5. heard' \in [Workers -> BOOLEAN]
    <3>1. Held(w) \in Meetings
      BY <1>11 DEF RereadTranscript, Linked
    <3>2. QED
      BY <1>11, <3>1 DEF RereadTranscript
  <2>6. QED
    BY <1>11, <2>1, <2>2, <2>3, <2>4, <2>5 DEF RereadTranscript
<1>12. CASE Extract(w)
  BY <1>12 DEF Extract
<1>13. CASE SaveFails(w)
  BY <1>13 DEF SaveFails
<1>14. CASE SaveNothing(w)
  BY <1>14 DEF SaveNothing
<1>15. CASE SaveSummary(w)
  <2>1. wpc' \in [Workers -> WorkerPoints]
    BY <1>15 DEF SaveSummary
  <2>2. PICK new \in SUBSET (Tasks \ (suggested[Held(w)] \cup decided[Held(w)])) :
          /\ summary' = [summary EXCEPT ![Held(w)] = TRUE]
          /\ suggested' = [suggested EXCEPT ![Held(w)] = @ \cup new]
          /\ status' = [status EXCEPT ![Held(w)] = IF new = {} THEN "done" ELSE "review"]
    BY <1>15, Zenon DEF SaveSummary
  <2>3. summary' \in [Meetings -> BOOLEAN] /\ suggested' \in [Meetings -> SUBSET Tasks]
    BY <2>2
  <2>4. status' \in [Meetings -> MeetingStates]
    BY <2>2
  <2>5. \A m \in Meetings : suggested'[m] \cap decided[m] = {}
    BY <2>2
  <2>6. QED
    BY <1>15, <2>1, <2>3, <2>4, <2>5 DEF SaveSummary
<1>16. CASE FinishJob(w)
  BY <1>16 DEF FinishJob, SetJob, LetGo
<1>17. CASE FailJob(w)
  <2>1. jstatus' \in [JobIds -> JobStates]
    BY ZenonT(30), <1>17 DEF FailJob, SetJob
  <2>2. wpc' \in [Workers -> WorkerPoints] /\ wjob' \in [Workers -> JobIds \cup {0}]
          /\ heard' \in [Workers -> BOOLEAN]
    BY <1>17 DEF FailJob, LetGo
  <2>3. QED
    BY <1>17, <2>1, <2>2 DEF FailJob
<1>18. CASE FailMeeting(w)
  BY <1>18 DEF FailMeeting, LetGo
<1>19. QED
  BY <1>1, <1>2, <1>3, <1>4, <1>5, <1>6, <1>7, <1>8, <1>9, <1>10, <1>11, <1>12, <1>13, <1>14,
     <1>15, <1>16, <1>17, <1>18 DEF RunJob, Pipeline

-----------------------------------------------------------------------------
LEMMA RequestLinked ==
  ASSUME TypeOK, Linked, RequestNext
  PROVE  Linked'
<1> USE DEF Linked, meetingVars, content, jobVars, workerVars
<1>1. ASSUME NEW r \in Requests, Abandon(r) \/ UploadWrite(r) \/ FinishWrite(r) \/ EnqueueSelect(r)
                                \/ PurgeFiles(r)
      PROVE Linked'
  <2>1. UNCHANGED <<jstatus, jmeeting, wpc, wjob>>
    BY <1>1 DEF Abandon, UploadWrite, FinishWrite, EnqueueSelect, PurgeFiles
  <2>2. \A q \in Requests : req'[q].at # "idle" => req[q].at # "idle" /\ req'[q].meeting = req[q].meeting
    <3>1. CASE req' = [req EXCEPT ![r] = NoRequest]
      BY <3>1 DEF NoRequest, TypeOK, Request
    <3>2. CASE req[r].at # "idle" /\ \E point : req' = [req EXCEPT ![r].at = point]
      BY <3>2 DEF TypeOK, Request
    <3>3. QED
      BY <1>1, <3>1, <3>2 DEF Abandon, UploadWrite, FinishWrite, EnqueueSelect, PurgeFiles, Reply
  <2>3. QED
    BY <2>1, <2>2
<1>2. ASSUME NEW r \in Requests, EnqueueInsert(r) PROVE Linked'
  <2> DEFINE m == req[r].meeting
  <2>1. \A q \in Requests : req'[q].at # "idle" => req'[q].meeting \in Meetings
    BY <1>2 DEF EnqueueInsert, Reply, NoRequest, TypeOK
  <2>2. m \in Meetings /\ UNCHANGED <<wpc, wjob>>
    BY <1>2 DEF EnqueueInsert, TypeOK
  <2>3. CASE Exists(m)
    <3>1. PICK j \in JobIds : /\ jstatus[j] = "none"
                             /\ jstatus' = [jstatus EXCEPT ![j] = "queued"]
                             /\ jmeeting' = [jmeeting EXCEPT ![j] = m]
      BY <1>2, <2>3, Zenon DEF EnqueueInsert
    <3>2. QED
      BY <2>1, <2>2, <3>1 DEF TypeOK
  <2>4. CASE ~ Exists(m)
    <3>1. UNCHANGED <<jstatus, jmeeting>>
      BY <1>2, <2>4, Zenon DEF EnqueueInsert
    <3>2. QED
      BY <2>1, <2>2, <3>1
  <2>5. QED
    BY <2>3, <2>4
<1>3. ASSUME NEW r \in Requests, PurgeRows(r) PROVE Linked'
  BY <1>3 DEF PurgeRows, RemoveRows, JobsOf, Reply, NoRequest, TypeOK
<1>4. ASSUME NEW r \in Requests, NEW m \in Meetings,
             UploadRead(r, m) \/ FinishRead(r, m) \/ PurgeCheck(r, m)
      PROVE Linked'
  BY <1>4 DEF UploadRead, FinishRead, PurgeCheck, Suspend, TypeOK
<1>5. ASSUME NEW r \in Requests, NEW m \in Meetings, NEW kind \in Kinds, ProcessRead(r, m, kind)
      PROVE Linked'
  BY <1>5 DEF ProcessRead, Suspend, TypeOK
<1>6. ASSUME NEW m \in Meetings,
             \/ CreateMeeting(m) \/ SoftDelete(m) \/ Restore(m) \/ Age(m)
             \/ \E t \in Tasks, decide \in BOOLEAN : PatchTask(m, t, decide)
      PROVE Linked'
  BY <1>6 DEF CreateMeeting, SoftDelete, Restore, Age, PatchTask
<1>7. QED
  BY <1>1, <1>2, <1>3, <1>4, <1>5, <1>6 DEF RequestNext

LEMMA SweepLinked ==
  ASSUME TypeOK, Linked, SweepStep
  PROVE  Linked'
<1> USE DEF Linked, jobVars, workerVars
<1>1. CASE SweepRows
  <2>1. \A j \in JobIds : jstatus'[j] = "none" <=> jstatus[j] = "none"
    BY <1>1 DEF SweepRows, RemoveRows, JobsOf, TypeOK
  <2>2. UNCHANGED <<jmeeting, wpc, wjob, req>>
    BY <1>1 DEF SweepRows, RemoveRows
  <2>3. QED
    BY <2>1, <2>2
<1>2. CASE SweepLoad \/ SweepFiles \/ SweepFails \/ \E m \in Meetings : SweepNext(m)
  BY <1>2 DEF SweepLoad, SweepFiles, SweepFails, SweepNext
<1>3. QED
  BY <1>1, <1>2 DEF SweepStep

LEMMA WorkerLinked ==
  ASSUME TypeOK, Linked, WorkerNext
  PROVE  Linked'
<1> SUFFICES ASSUME NEW w \in Workers,
                    Start(w) \/ Crash(w) \/ Recover(w) \/ SelectJob(w) \/ ClaimJob(w) \/ RunJob(w)
             PROVE  Linked'
  BY DEF WorkerNext
<1> USE DEF Linked, TypeOK, Working, Goto, jobVars
<1>1. CASE Start(w) \/ Crash(w)
  BY <1>1 DEF Start, Crash
<1>2. CASE Recover(w)
  <2>1. \A j \in JobIds : jstatus'[j] = "none" <=> jstatus[j] = "none"
    BY <1>2 DEF Recover, Poisoned
  <2>2. UNCHANGED <<jmeeting, wjob, req>>
    BY <1>2 DEF Recover
  <2>3. \A v \in Workers : wpc'[v] \in Working \cup {"claim", "blame"} => wpc[v] = wpc'[v]
    BY <1>2 DEF Recover
  <2>4. QED
    BY <2>1, <2>2, <2>3
<1>3. CASE SelectJob(w)
  BY <1>3 DEF SelectJob
<1>4. CASE ClaimJob(w)
  BY <1>4 DEF ClaimJob
<1>5. CASE ClaimLost(w) \/ MarkProcessing(w)
  BY <1>5 DEF ClaimLost, MarkProcessing
<1>6. CASE Pipeline(w)
  BY <1>6 DEF Pipeline, LoadMeeting, Transcribe, StoreTranscript, RereadTranscript, Extract,
              SaveFails, SaveNothing, SaveSummary
<1>7. CASE FinishJob(w)
  BY <1>7 DEF FinishJob, SetJob, LetGo
<1>8. CASE FailJob(w)
  BY <1>8 DEF FailJob, SetJob, LetGo
<1>9. CASE FailMeeting(w)
  BY <1>9 DEF FailMeeting, LetGo
<1>10. QED
  BY <1>1, <1>2, <1>3, <1>4, <1>5, <1>6, <1>7, <1>8, <1>9 DEF RunJob

-----------------------------------------------------------------------------
LEMMA TypeLinkedStep == TypeOK /\ Linked /\ [Next]_vars => TypeOK' /\ Linked'
<1> SUFFICES ASSUME TypeOK, Linked, [Next]_vars PROVE TypeOK' /\ Linked'
  OBVIOUS
<1>1. CASE Next
  BY <1>1, RequestType, SweepType, WorkerType, RequestLinked, SweepLinked, WorkerLinked DEF Next
<1>2. CASE UNCHANGED vars
  BY <1>2 DEF vars, meetingVars, content, jobVars, workerVars, TypeOK, Linked
<1>3. QED
  BY <1>1, <1>2

LEMMA InitLinked == Init => Linked
  BY DEF Init, Linked, Working, NoRequest

(* Every variable keeps its type and every reference its row, for any       *)
(* numbers of meetings, tasks, workers and requests: a job names a meeting, *)
(* and a worker at work names the row of a job.                             *)
THEOREM TypeCorrect == Spec => [](TypeOK /\ Linked)
  BY InitType, InitLinked, TypeLinkedStep, PTL DEF Spec

-----------------------------------------------------------------------------
(* Of the requests and the sweep only EnqueueInsert and a purge touch the   *)
(* job table; all others leave queued and purged meetings as they are.      *)
Quiet ==
    /\ UNCHANGED <<jobVars, workerVars>>
    /\ \A m \in Meetings : status'[m] = "queued" => status[m] = "queued"
    /\ \A m \in Meetings : status'[m] = "gone" =>
         /\ status[m] = "gone"
         /\ transcript'[m] = transcript[m] /\ summary'[m] = summary[m]
         /\ suggested'[m] = suggested[m] /\ decided'[m] = decided[m]

Purges(m) == RemoveRows(m) /\ UNCHANGED workerVars

LEMMA RequestKinds ==
  ASSUME TypeOK, RequestNext
  PROVE  \/ Quiet
         \/ \E r \in Requests : EnqueueInsert(r)
         \/ \E m \in Meetings \cup {None} : Purges(m)
<1> USE DEF Quiet, meetingVars, content
<1>1. ASSUME NEW r \in Requests, PurgeRows(r) PROVE \E m \in Meetings \cup {None} : Purges(m)
  <2>1. req[r].meeting \in Meetings \cup {None}
    BY DEF TypeOK, Request
  <2>2. QED
    BY <1>1, <2>1 DEF PurgeRows, Purges
<1>2. ASSUME NEW r \in Requests, Abandon(r) \/ UploadWrite(r) \/ EnqueueSelect(r) \/ PurgeFiles(r)
      PROVE Quiet
  BY <1>2 DEF Abandon, UploadWrite, EnqueueSelect, PurgeFiles
<1>3. ASSUME NEW r \in Requests, FinishWrite(r) PROVE Quiet
  BY <1>3 DEF FinishWrite, TypeOK, Exists
<1>4. ASSUME NEW r \in Requests, NEW m \in Meetings,
             \/ UploadRead(r, m) \/ FinishRead(r, m) \/ PurgeCheck(r, m)
             \/ \E kind \in Kinds : ProcessRead(r, m, kind)
      PROVE Quiet
  BY <1>4 DEF UploadRead, FinishRead, PurgeCheck, ProcessRead
<1>5. ASSUME NEW m \in Meetings, SoftDelete(m) \/ Restore(m) \/ Age(m) PROVE Quiet
  BY <1>5 DEF SoftDelete, Restore, Age
<1>6. ASSUME NEW m \in Meetings, CreateMeeting(m) PROVE Quiet
  BY <1>6 DEF CreateMeeting, TypeOK
<1>7. ASSUME NEW m \in Meetings, NEW t \in Tasks, NEW decide \in BOOLEAN, PatchTask(m, t, decide)
      PROVE Quiet
  <2>1. Exists(m) /\ UNCHANGED <<jobVars, workerVars, transcript, summary>>
    BY <1>7 DEF PatchTask, Visible
  <2>2. \A n \in Meetings \ {m} : /\ status'[n] = status[n]
                                  /\ suggested'[n] = suggested[n] /\ decided'[n] = decided[n]
    BY <1>7 DEF PatchTask, TypeOK
  <2>3. status'[m] \in {status[m], "done", "review"}
    BY <1>7 DEF PatchTask, TypeOK
  <2>4. QED
    BY <2>1, <2>2, <2>3 DEF Exists
<1>8. QED
  BY <1>1, <1>2, <1>3, <1>4, <1>5, <1>6, <1>7 DEF RequestNext

LEMMA SweepKinds ==
  ASSUME TypeOK, SweepStep
  PROVE  Quiet \/ \E m \in Meetings \cup {None} : Purges(m)
<1>1. CASE SweepRows
  <2>1. sweep.on \in Meetings \cup {None}
    BY DEF TypeOK, Sweep
  <2>2. QED
    BY <1>1, <2>1 DEF SweepRows, Purges
<1>2. CASE SweepLoad \/ SweepFiles \/ SweepFails \/ \E m \in Meetings : SweepNext(m)
  BY <1>2 DEF Quiet, SweepLoad, SweepFiles, SweepFails, SweepNext, meetingVars, content
<1>3. QED
  BY <1>1, <1>2 DEF SweepStep

(* What an insertion into the job table does. *)
LEMMA InsertEffect ==
  ASSUME TypeOK, Linked, NEW r \in Requests, EnqueueInsert(r)
  PROVE  \/ UNCHANGED <<jobVars, workerVars, status, content>>
         \/ \E j \in JobIds, m \in Meetings :
              /\ jstatus[j] = "none" /\ Exists(m)
              /\ jstatus' = [jstatus EXCEPT ![j] = "queued"]
              /\ jmeeting' = [jmeeting EXCEPT ![j] = m]
              /\ status' = [status EXCEPT ![m] = "queued"]
              /\ UNCHANGED <<attempts, content, workerVars>>
<1> DEFINE m == req[r].meeting
<1>1. m \in Meetings /\ UNCHANGED <<attempts, content, workerVars>>
  BY DEF EnqueueInsert, TypeOK, Linked
<1>2. CASE Exists(m)
  <2>1. PICK j \in JobIds : /\ jstatus[j] = "none"
                           /\ jstatus' = [jstatus EXCEPT ![j] = "queued"]
                           /\ jmeeting' = [jmeeting EXCEPT ![j] = m]
                           /\ status' = [status EXCEPT ![m] = "queued"]
    BY <1>2, Zenon DEF EnqueueInsert
  <2>2. QED
    BY <1>1, <1>2, <2>1
<1>3. CASE ~ Exists(m)
  <2>1. UNCHANGED <<jstatus, jmeeting, jkind, status>>
    BY <1>3, Zenon DEF EnqueueInsert
  <2>2. QED
    BY <1>1, <2>1 DEF jobVars
<1>4. QED
  BY <1>2, <1>3

(* The pipeline moves its worker on, without reporting on the job; it makes *)
(* no meeting queued or purged, and stores nothing for a purged one.        *)
LEMMA PipelineEffect ==
  ASSUME TypeOK, Linked, NEW w \in Workers, Pipeline(w)
  PROVE  /\ UNCHANGED <<jobVars, wjob>>
         /\ wpc[w] \in Working \ {"mark"}
         /\ \E point \in Working \ {"mark"} : wpc' = [wpc EXCEPT ![w] = point]
         /\ \A m \in Meetings : status'[m] = "queued" => status[m] = "queued"
         /\ \A m \in Meetings : status'[m] = "gone" =>
              /\ status[m] = "gone"
              /\ transcript'[m] = transcript[m]
              /\ summary'[m] \in {summary[m], FALSE}
              /\ suggested'[m] \in {suggested[m], {}} /\ decided'[m] \in {decided[m], {}}
<1> USE DEF Goto, Working, meetingVars, content
<1>1. CASE LoadMeeting(w)
  BY <1>1 DEF LoadMeeting
<1>2. CASE Transcribe(w)
  BY <1>2 DEF Transcribe
<1>3. CASE StoreTranscript(w)
  <2>1. CASE Exists(Held(w))
    BY ZenonT(30), <1>3, <2>1 DEF StoreTranscript, TypeOK, Exists
  <2>2. CASE ~ Exists(Held(w))
    BY <1>3, <2>2 DEF StoreTranscript
  <2>3. QED
    BY <2>1, <2>2
<1>4. CASE RereadTranscript(w)
  BY <1>4 DEF RereadTranscript, TypeOK
<1>5. CASE Extract(w)
  BY <1>5 DEF Extract
<1>6. CASE SaveFails(w)
  BY <1>6 DEF SaveFails
<1>7. CASE SaveNothing(w)
  BY <1>7 DEF SaveNothing, TypeOK, Exists
<1>8. CASE SaveSummary(w)
  <2>1. /\ wpc[w] = "save" /\ wpc' = [wpc EXCEPT ![w] = "finish"]
        /\ UNCHANGED <<jobVars, wjob, transcript, decided>>
    BY <1>8 DEF SaveSummary
  <2>2. Exists(Held(w))
    BY <1>8 DEF SaveSummary
  <2>3. \A m \in Meetings \ {Held(w)} :
          status'[m] = status[m] /\ summary'[m] = summary[m] /\ suggested'[m] = suggested[m]
    BY <1>8 DEF SaveSummary, TypeOK
  <2>4. status'[Held(w)] \in {status[Held(w)], "done", "review"}
    BY <1>8 DEF SaveSummary, TypeOK
  <2>5. QED
    BY <2>1, <2>2, <2>3, <2>4 DEF Exists
<1>9. QED
  BY <1>1, <1>2, <1>3, <1>4, <1>5, <1>6, <1>7, <1>8 DEF Pipeline

-----------------------------------------------------------------------------
(* Attempts.  A row that was never taken counts none, so that a new row in  *)
(* the queue has attempts left.                                             *)
Untaken == \A j \in JobIds : jstatus[j] = "none" => attempts[j] = 0

LEMMA AttemptsStep ==
  ASSUME TypeOK, Linked, Untaken, AttemptsBounded, [Next]_vars
  PROVE  Untaken' /\ AttemptsBounded'
<1> USE NumbersAssumption DEF Untaken, AttemptsBounded, jobVars
<1>1. CASE Quiet
  BY <1>1 DEF Quiet
<1>2. ASSUME NEW r \in Requests, EnqueueInsert(r) PROVE Untaken' /\ AttemptsBounded'
  BY <1>2, InsertEffect DEF TypeOK
<1>3. ASSUME NEW m \in Meetings \cup {None}, Purges(m) PROVE Untaken' /\ AttemptsBounded'
  BY <1>3 DEF Purges, RemoveRows, JobsOf, TypeOK
<1>4. ASSUME NEW w \in Workers, Start(w) \/ Crash(w) \/ SelectJob(w) PROVE Untaken' /\ AttemptsBounded'
  BY <1>4 DEF Start, Crash, SelectJob
<1>5. ASSUME NEW w \in Workers, Recover(w) PROVE Untaken' /\ AttemptsBounded'
  <2>1. UNCHANGED attempts
    BY <1>5 DEF Recover
  <2>2. \A j \in JobIds : jstatus'[j] = "none" => jstatus[j] = "none"
    BY <1>5 DEF Recover, TypeOK
  <2>3. \A j \in JobIds : jstatus'[j] = "queued" =>
          jstatus[j] = "queued" \/ ~ (attempts[j] >= MaxAttempts)
    BY <1>5 DEF Recover, Poisoned, TypeOK
  <2>4. QED
    BY <2>1, <2>2, <2>3 DEF TypeOK
<1>6. ASSUME NEW w \in Workers, ClaimJob(w) PROVE Untaken' /\ AttemptsBounded'
  <2>1. wjob[w] \in JobIds
    BY <1>6 DEF ClaimJob, Linked
  <2>2. CASE jstatus[wjob[w]] = "queued"
    <3>1. /\ jstatus' = [jstatus EXCEPT ![wjob[w]] = "running"]
          /\ attempts' = [attempts EXCEPT ![wjob[w]] = @ + 1]
      BY <1>6, <2>2 DEF ClaimJob
    <3>2. QED
      BY <2>1, <2>2, <3>1 DEF TypeOK
  <2>3. CASE jstatus[wjob[w]] # "queued"
    BY <1>6, <2>3 DEF ClaimJob
  <2>4. QED
    BY <2>2, <2>3
<1>7. ASSUME NEW w \in Workers, RunJob(w) PROVE Untaken' /\ AttemptsBounded'
  <2>1. CASE Pipeline(w)
    BY <2>1, PipelineEffect
  <2>2. CASE ClaimLost(w) \/ MarkProcessing(w) \/ FailMeeting(w)
    BY <2>2 DEF ClaimLost, MarkProcessing, FailMeeting
  <2>3. CASE FinishJob(w) \/ FailJob(w)
    <3>1. /\ wjob[w] \in JobIds /\ jstatus[wjob[w]] # "none" /\ UNCHANGED attempts
          /\ \E outcome \in {"failed", "done"} : SetJob(w, outcome)
      BY <2>3 DEF FinishJob, FailJob, Linked, Working
    <3>2. QED
      BY <3>1 DEF SetJob, TypeOK
  <2>4. QED
    BY <1>7, <2>1, <2>2, <2>3 DEF RunJob
<1>8. CASE UNCHANGED vars
  BY <1>8 DEF vars
<1>9. QED
  BY <1>1, <1>2, <1>3, <1>4, <1>5, <1>6, <1>7, <1>8, RequestKinds, SweepKinds DEF Next, WorkerNext

(* No job is run more than MaxAttempts times, and one in the queue has an   *)
(* attempt left: for any number of workers, crashing at any point.          *)
THEOREM AttemptsAreBounded == Spec => []AttemptsBounded
<1>1. Init => Untaken /\ AttemptsBounded
  BY NumbersAssumption DEF Init, Untaken, AttemptsBounded
<1>2. TypeOK /\ Linked /\ Untaken /\ AttemptsBounded /\ [Next]_vars => Untaken' /\ AttemptsBounded'
  BY AttemptsStep
<1>3. QED
  BY TypeCorrect, <1>1, <1>2, PTL DEF Spec

-----------------------------------------------------------------------------
LEMMA RunningStep ==
  ASSUME TypeOK, Linked, RunningJobHasWorker, [Next]_vars
  PROVE  RunningJobHasWorker'
<1> USE DEF RunningJobHasWorker, jobVars, workerVars
<1>1. CASE Quiet
  BY <1>1 DEF Quiet
<1>2. ASSUME NEW r \in Requests, EnqueueInsert(r) PROVE RunningJobHasWorker'
  BY <1>2, InsertEffect DEF TypeOK
<1>3. ASSUME NEW m \in Meetings \cup {None}, Purges(m) PROVE RunningJobHasWorker'
  BY <1>3 DEF Purges, RemoveRows, TypeOK
<1>4. ASSUME NEW w \in Workers, Start(w) \/ Crash(w) PROVE RunningJobHasWorker'
  <2>1. wpc'[w] \in {"down", "boot"} /\ UNCHANGED jstatus
    BY <1>4 DEF Start, Crash, Goto, TypeOK
  <2>2. QED
    BY <2>1
<1>5. ASSUME NEW w \in Workers, Recover(w) PROVE RunningJobHasWorker'
  <2>1. \A j \in JobIds : jstatus'[j] # "running"
    BY <1>5 DEF Recover
  <2>2. QED
    BY <2>1
<1>6. ASSUME NEW w \in Workers, SelectJob(w) \/ ClaimJob(w) PROVE RunningJobHasWorker'
  <2>1. wpc[w] \notin Working \cup {"down", "boot"}
    BY <1>6 DEF SelectJob, ClaimJob, Working
  <2>2. \A v \in Workers \ {w} : wpc'[v] = wpc[v] /\ wjob'[v] = wjob[v]
    BY <1>6 DEF SelectJob, ClaimJob, Goto, TypeOK
  <2>3. \A j \in JobIds : jstatus'[j] = "running" =>
          jstatus[j] = "running" \/ (wpc'[w] = "mark" /\ wjob'[w] = j)
    <3>1. CASE SelectJob(w)
      BY <3>1 DEF SelectJob
    <3>2. CASE ClaimJob(w)
      BY <3>2 DEF ClaimJob, Goto, TypeOK
    <3>3. QED
      BY <1>6, <3>1, <3>2
  <2>4. QED
    BY <2>1, <2>2, <2>3 DEF Working
<1>7. ASSUME NEW w \in Workers, RunJob(w) PROVE RunningJobHasWorker'
  <2>1. CASE Pipeline(w)
    <3>1. PICK point \in Working : wpc' = [wpc EXCEPT ![w] = point]
      BY <2>1, PipelineEffect
    <3>2. \A v \in Workers : wpc'[v] = wpc[v] \/ (v = w /\ wpc'[v] \in Working)
      BY <3>1 DEF TypeOK
    <3>3. wpc[w] \in Working /\ UNCHANGED <<jstatus, wjob>>
      BY <2>1, PipelineEffect
    <3>4. QED
      BY <3>2, <3>3 DEF Working
  <2>2. CASE MarkProcessing(w)
    BY <2>2 DEF MarkProcessing, Goto, Working, TypeOK
  <2>3. CASE ClaimLost(w) \/ FinishJob(w) \/ FailJob(w) \/ FailMeeting(w)
    <3>1. wpc[w] \notin {"down", "boot"}
      BY <2>3 DEF ClaimLost, FinishJob, FailJob, FailMeeting
    <3>2. \A v \in Workers \ {w} : wpc'[v] = wpc[v] /\ wjob'[v] = wjob[v]
      BY <2>3 DEF ClaimLost, FinishJob, FailJob, FailMeeting, LetGo, Goto, TypeOK
    <3>3. \A j \in JobIds : jstatus'[j] = "running" => jstatus[j] = "running"
      BY <2>3 DEF ClaimLost, FinishJob, FailJob, FailMeeting, SetJob, TypeOK
    <3>4. wpc[w] \in Working => jstatus'[wjob[w]] # "running"
      BY <2>3 DEF ClaimLost, FinishJob, FailJob, FailMeeting, SetJob, Linked, TypeOK, Working
    <3>5. QED
      BY <3>1, <3>2, <3>3, <3>4
  <2>4. QED
    BY <1>7, <2>1, <2>2, <2>3 DEF RunJob
<1>8. CASE UNCHANGED vars
  BY <1>8 DEF vars
<1>9. QED
  BY <1>1, <1>2, <1>3, <1>4, <1>5, <1>6, <1>7, <1>8, RequestKinds, SweepKinds DEF Next, WorkerNext

(* A job is "running" only while a worker works on it or one has yet to     *)
(* start and recover it, for any number of workers.                         *)
THEOREM RunningHasWorker == Spec => []RunningJobHasWorker
<1>1. Init => RunningJobHasWorker
  BY DEF Init, RunningJobHasWorker
<1>2. TypeOK /\ Linked /\ RunningJobHasWorker /\ [Next]_vars => RunningJobHasWorker'
  BY RunningStep
<1>3. QED
  BY TypeCorrect, <1>1, <1>2, PTL DEF Spec

-----------------------------------------------------------------------------
(* A purged meeting.  EmptyRows is the part about its content, NoJobs the   *)
(* part about its jobs: a gone meeting has no job that could bring it back. *)
EmptyRows ==
    \A m \in Meetings : status[m] = "gone" =>
      ~ transcript[m] /\ ~ summary[m] /\ suggested[m] = {} /\ decided[m] = {}

NoJobs ==
    \A j \in JobIds : jstatus[j] # "none" /\ status[jmeeting[j]] = "gone"
                       => jstatus[j] = "removed"

LEMMA PurgedParts == Linked => (PurgedStaysEmpty <=> EmptyRows /\ NoJobs)
  BY DEF Linked, PurgedStaysEmpty, EmptyRows, NoJobs, JobsOf

LEMMA PurgedStep ==
  ASSUME TypeOK, Linked, EmptyRows, NoJobs, [Next]_vars
  PROVE  EmptyRows' /\ NoJobs'
<1> USE DEF EmptyRows, NoJobs
<1>1. CASE Quiet
  BY <1>1 DEF Quiet, jobVars, Linked
<1>2. ASSUME NEW r \in Requests, EnqueueInsert(r) PROVE EmptyRows' /\ NoJobs'
  <2>1. CASE UNCHANGED <<jobVars, workerVars, status, content>>
    BY <2>1 DEF jobVars, content
  <2>2. ASSUME NEW j \in JobIds, NEW m \in Meetings,
               /\ jstatus[j] = "none" /\ Exists(m)
               /\ jstatus' = [jstatus EXCEPT ![j] = "queued"]
               /\ jmeeting' = [jmeeting EXCEPT ![j] = m]
               /\ status' = [status EXCEPT ![m] = "queued"]
               /\ UNCHANGED <<attempts, content, workerVars>>
        PROVE EmptyRows' /\ NoJobs'
    <3>1. EmptyRows'
      BY <2>2 DEF content, TypeOK
    <3>2. NoJobs'
      BY <2>2 DEF TypeOK, Linked
    <3>3. QED
      BY <3>1, <3>2
  <2>3. QED
    BY <1>2, <2>1, <2>2, InsertEffect
<1>3. ASSUME NEW m \in Meetings \cup {None}, Purges(m) PROVE EmptyRows' /\ NoJobs'
  <2>1. EmptyRows'
    BY <1>3 DEF Purges, RemoveRows, TypeOK
  <2>2. NoJobs'
    <3>1. \A j \in JobIds : jstatus'[j] =
             IF jstatus[j] # "none" /\ jmeeting[j] = m THEN "removed" ELSE jstatus[j]
      BY <1>3 DEF Purges, RemoveRows, JobsOf
    <3>2. jmeeting' = jmeeting /\ \A n \in Meetings \ {m} : status'[n] = status[n]
      BY <1>3 DEF Purges, RemoveRows, TypeOK
    <3>3. QED
      BY <3>1, <3>2 DEF Linked
  <2>3. QED
    BY <2>1, <2>2
<1>4. ASSUME NEW w \in Workers, Start(w) \/ Crash(w) \/ SelectJob(w) PROVE EmptyRows' /\ NoJobs'
  BY <1>4 DEF Start, Crash, SelectJob, meetingVars, content, jobVars
<1>5. ASSUME NEW w \in Workers, Recover(w) PROVE EmptyRows' /\ NoJobs'
  <2>1. UNCHANGED <<content, jmeeting>>
    BY <1>5 DEF Recover
  <2>2. \A m \in Meetings : status'[m] = "gone" => status[m] = "gone"
    BY <1>5 DEF Recover, TypeOK
  <2>3. \A j \in JobIds : jstatus[j] \in {"none", "removed"} => jstatus'[j] = jstatus[j]
    BY <1>5 DEF Recover, Poisoned
  <2>4. \A j \in JobIds : jstatus'[j] = "none" <=> jstatus[j] = "none"
    BY <1>5 DEF Recover, Poisoned
  <2>5. QED
    BY <2>1, <2>2, <2>3, <2>4 DEF Linked, content
<1>6. ASSUME NEW w \in Workers, ClaimJob(w) PROVE EmptyRows' /\ NoJobs'
  <2>1. wjob[w] \in JobIds /\ UNCHANGED <<status, content, jmeeting>>
    BY <1>6 DEF ClaimJob, Linked, meetingVars
  <2>2. \A j \in JobIds : jstatus'[j] = jstatus[j] \/ (jstatus[j] = "queued" /\ jstatus'[j] = "running")
    BY <1>6 DEF ClaimJob, TypeOK
  <2>3. QED
    BY <2>1, <2>2 DEF content
<1>7. ASSUME NEW w \in Workers, RunJob(w) PROVE EmptyRows' /\ NoJobs'
  <2>1. CASE Pipeline(w)
    BY ZenonT(40), <2>1, PipelineEffect DEF jobVars, Linked
  <2>2. CASE ClaimLost(w)
    BY <2>2 DEF ClaimLost, meetingVars, content, jobVars
  <2>3. CASE MarkProcessing(w) \/ FailMeeting(w)
    <3>1. \A m \in Meetings : status'[m] = "gone" => status[m] = "gone"
      BY <2>3 DEF MarkProcessing, FailMeeting, Exists, TypeOK
    <3>2. UNCHANGED <<content, jobVars>>
      BY <2>3 DEF MarkProcessing, FailMeeting
    <3>3. QED
      BY <3>1, <3>2 DEF content, jobVars, Linked
  <2>4. CASE FinishJob(w) \/ FailJob(w)
    <3>1. /\ wjob[w] \in JobIds /\ jstatus[wjob[w]] # "none"
          /\ UNCHANGED <<status, content, jmeeting>>
          /\ \E outcome \in {"failed", "done"} : SetJob(w, outcome)
      BY <2>4 DEF FinishJob, FailJob, Linked, Working, meetingVars
    <3>2. \A j \in JobIds : jstatus[j] \in {"none", "removed"} => jstatus'[j] = jstatus[j]
      BY <3>1 DEF SetJob, TypeOK
    <3>3. QED
      BY <3>1, <3>2 DEF content
  <2>5. QED
    BY <1>7, <2>1, <2>2, <2>3, <2>4 DEF RunJob
<1>8. CASE UNCHANGED vars
  BY <1>8 DEF vars, meetingVars, content, jobVars
<1>9. QED
  BY <1>1, <1>2, <1>3, <1>4, <1>5, <1>6, <1>7, <1>8, RequestKinds, SweepKinds DEF Next, WorkerNext

(* A purge is final, whatever is under way for the meeting, for any numbers *)
(* of meetings, workers and requests.                                       *)
THEOREM PurgeIsFinal == Spec => []PurgedStaysEmpty
<1>1. Init => EmptyRows /\ NoJobs
  BY DEF Init, EmptyRows, NoJobs
<1>2. TypeOK /\ Linked /\ EmptyRows /\ NoJobs /\ [Next]_vars => EmptyRows' /\ NoJobs'
  BY PurgedStep
<1>3. Linked /\ EmptyRows /\ NoJobs => PurgedStaysEmpty
  BY PurgedParts
<1>4. QED
  BY TypeCorrect, <1>1, <1>2, <1>3, PTL DEF Spec

-----------------------------------------------------------------------------
(* A meeting in the queue.  Mover(j): job j is active, and whoever holds it *)
(* has only just claimed it.                                                *)
Mover(j) ==
    /\ Active(j)
    /\ \A w \in Workers : wpc[w] \in Working \cup {"blame"} /\ wjob[w] = j => wpc[w] = "mark"

QueuedHasMover ==
    \A m \in Meetings : status[m] = "queued" =>
      \E j \in JobIds : jmeeting[j] = m /\ Mover(j)

LEMMA QueuedParts == JobInvariant <=> Linked /\ Untaken /\ QueuedHasMover
  BY DEF JobInvariant, Untaken, QueuedHasMover, Mover, JobsOf, Active

(* A step keeps the movers of meetings that stay in the queue if it makes   *)
(* none queued, lets go of active jobs only by requeueing them, and lets no *)
(* worker come further with them.                                           *)
LEMMA KeepsMovers ==
  ASSUME QueuedHasMover,
         jmeeting' = jmeeting,
         \A m \in Meetings : status'[m] = "queued" => status[m] = "queued",
         \A m \in Meetings, j \in JobIds :
           status'[m] = "queued" /\ jmeeting[j] = m /\ Mover(j) => Mover(j)'
  PROVE  QueuedHasMover'
  BY DEF QueuedHasMover

LEMMA QueuedStep ==
  ASSUME TypeOK, Linked, QueuedHasMover, [Next]_vars
  PROVE  QueuedHasMover'
<1>1. CASE Quiet
  BY <1>1 DEF Quiet, QueuedHasMover, Mover, Active, jobVars, workerVars
<1>2. ASSUME NEW r \in Requests, EnqueueInsert(r) PROVE QueuedHasMover'
  <2>1. CASE UNCHANGED <<jobVars, workerVars, status, content>>
    BY <2>1 DEF QueuedHasMover, Mover, Active, jobVars, workerVars
  <2>2. ASSUME NEW j \in JobIds, NEW m \in Meetings,
               /\ jstatus[j] = "none"
               /\ jstatus' = [jstatus EXCEPT ![j] = "queued"]
               /\ jmeeting' = [jmeeting EXCEPT ![j] = m]
               /\ status' = [status EXCEPT ![m] = "queued"]
               /\ UNCHANGED workerVars
        PROVE QueuedHasMover'
    <3>1. Mover(j)' /\ jmeeting'[j] = m
      BY <2>2 DEF Mover, Active, workerVars, Linked, TypeOK
    <3>2. ASSUME NEW n \in Meetings \ {m}, status'[n] = "queued"
          PROVE \E i \in JobIds : jmeeting'[i] = n /\ Mover(i)'
      <4>1. status[n] = "queued"
        BY <2>2, <3>2 DEF TypeOK
      <4>2. PICK i \in JobIds : jmeeting[i] = n /\ Mover(i)
        BY <4>1 DEF QueuedHasMover
      <4>3. i # j
        BY <2>2, <4>2 DEF Mover, Active
      <4>4. QED
        BY <2>2, <4>2, <4>3 DEF Mover, Active, workerVars, TypeOK
    <3>3. QED
      BY <3>1, <3>2 DEF QueuedHasMover
  <2>3. QED
    BY <1>2, <2>1, <2>2, InsertEffect
<1>3. ASSUME NEW m \in Meetings \cup {None}, Purges(m) PROVE QueuedHasMover'
  <2>1. jmeeting' = jmeeting /\ UNCHANGED workerVars
    BY <1>3 DEF Purges, RemoveRows
  <2>2. \A n \in Meetings : status'[n] = "queued" => n # m /\ status[n] = "queued"
    BY <1>3 DEF Purges, RemoveRows, TypeOK
  <2>3. \A j \in JobIds : jmeeting[j] # m => jstatus'[j] = jstatus[j]
    BY <1>3 DEF Purges, RemoveRows, JobsOf
  <2>4. QED
    BY <2>1, <2>2, <2>3, KeepsMovers DEF Mover, Active, workerVars
<1>4. ASSUME NEW w \in Workers, Start(w) \/ Crash(w) \/ SelectJob(w) PROVE QueuedHasMover'
  <2>1. UNCHANGED <<status, jstatus, jmeeting>>
    BY <1>4 DEF Start, Crash, SelectJob, meetingVars, jobVars
  <2>2. \A v \in Workers \ {w} : wpc'[v] = wpc[v] /\ wjob'[v] = wjob[v]
    BY <1>4 DEF Start, Crash, SelectJob, Goto, TypeOK
  <2>3. wpc'[w] \notin Working \cup {"blame"}
    BY <1>4 DEF Start, Crash, SelectJob, Goto, TypeOK, Working
  <2>4. QED
    BY <2>1, <2>2, <2>3, KeepsMovers DEF Mover, Active
<1>5. ASSUME NEW w \in Workers, Recover(w) PROVE QueuedHasMover'
  <2>1. UNCHANGED <<jmeeting, wjob>>
    BY <1>5 DEF Recover
  <2>2. \A m \in Meetings : status'[m] = "queued" =>
          status[m] = "queued" /\ \A j \in JobIds : jmeeting[j] = m => j \notin Poisoned
    BY <1>5 DEF Recover, TypeOK, Poisoned
  <2>3. \A j \in JobIds \ Poisoned : Active(j) => Active(j)'
    BY <1>5 DEF Recover, Active
  <2>4. \A v \in Workers : wpc'[v] \in Working \cup {"blame"} => wpc'[v] = wpc[v]
    BY <1>5 DEF Recover, Goto, TypeOK, Working
  <2>5. QED
    BY <2>1, <2>2, <2>3, <2>4, KeepsMovers DEF Mover
<1>6. ASSUME NEW w \in Workers, ClaimJob(w) PROVE QueuedHasMover'
  <2>1. UNCHANGED <<status, jmeeting>>
    BY <1>6 DEF ClaimJob, meetingVars
  <2>2. \A j \in JobIds : Active(j) => Active(j)'
    BY <1>6 DEF ClaimJob, Active, TypeOK
  <2>3. \A v \in Workers \ {w} : wpc'[v] = wpc[v] /\ wjob'[v] = wjob[v]
    BY <1>6 DEF ClaimJob, Goto, TypeOK
  <2>4. wpc'[w] \in {"mark", "idle"}
    BY <1>6 DEF ClaimJob, Goto, TypeOK
  <2>5. QED
    BY <2>1, <2>2, <2>3, <2>4, KeepsMovers DEF Mover, Working
<1>7. ASSUME NEW w \in Workers, RunJob(w) PROVE QueuedHasMover'
  <2>1. CASE Pipeline(w)
    <3>1. PICK point \in Working : wpc' = [wpc EXCEPT ![w] = point]
      BY <2>1, PipelineEffect
    <3>2. /\ wpc[w] \in Working \ {"mark"} /\ UNCHANGED <<jobVars, wjob>>
          /\ \A m \in Meetings : status'[m] = "queued" => status[m] = "queued"
      BY <2>1, PipelineEffect
    <3>3. \A j \in JobIds : Mover(j) => wjob[w] # j
      BY <3>2 DEF Mover
    <3>4. \A v \in Workers \ {w} : wpc'[v] = wpc[v]
      BY <3>1 DEF TypeOK
    <3>5. QED
      BY <3>2, <3>3, <3>4, KeepsMovers DEF Mover, Active, jobVars
  <2>2. CASE ClaimLost(w)
    <3>1. UNCHANGED <<status, jstatus, jmeeting>>
      BY <2>2 DEF ClaimLost, meetingVars, jobVars
    <3>2. \A v \in Workers \ {w} : wpc'[v] = wpc[v] /\ wjob'[v] = wjob[v]
      BY <2>2 DEF ClaimLost, Goto, TypeOK
    <3>3. wpc'[w] \notin Working \cup {"blame"}
      BY <2>2 DEF ClaimLost, Goto, TypeOK, Working
    <3>4. QED
      BY <3>1, <3>2, <3>3, KeepsMovers DEF Mover, Active
  <2>3. CASE MarkProcessing(w)
    <3>1. UNCHANGED <<jstatus, jmeeting, wjob>>
      BY <2>3 DEF MarkProcessing, jobVars
    <3>2. \A m \in Meetings : status'[m] = "queued" => status[m] = "queued" /\ m # Held(w)
      BY <2>3 DEF MarkProcessing, Exists, TypeOK
    <3>3. \A v \in Workers \ {w} : wpc'[v] = wpc[v]
      BY <2>3 DEF MarkProcessing, Goto, TypeOK
    <3>4. QED
      BY <3>1, <3>2, <3>3, KeepsMovers DEF Mover, Active, Held
  <2>4. CASE FinishJob(w) \/ FailJob(w) \/ FailMeeting(w)
    <3>1. wpc[w] \in {"finish", "fail", "blame"} /\ wjob[w] \in JobIds /\ jmeeting' = jmeeting
      BY <2>4 DEF FinishJob, FailJob, FailMeeting, Linked, Working, jobVars
    <3>2. \A m \in Meetings : status'[m] = "queued" => status[m] = "queued"
      BY <2>4 DEF FinishJob, FailJob, FailMeeting, meetingVars, TypeOK
    <3>3. \A j \in JobIds : Mover(j) => wjob[w] # j
      BY <3>1 DEF Mover, Working
    <3>4. \A j \in JobIds \ {wjob[w]} : jstatus'[j] = jstatus[j]
      BY <2>4 DEF FinishJob, FailJob, FailMeeting, SetJob, jobVars, TypeOK
    <3>5. \A v \in Workers \ {w} : wpc'[v] = wpc[v] /\ wjob'[v] = wjob[v]
      BY <2>4 DEF FinishJob, FailJob, FailMeeting, LetGo, Goto, TypeOK
    <3>6. wjob'[w] \in {wjob[w], 0}
      BY <2>4 DEF FinishJob, FailJob, FailMeeting, LetGo, TypeOK
    <3>7. 0 \notin JobIds
      BY NumbersAssumption DEF JobIds
    <3>8. QED
      BY <3>1, <3>2, <3>3, <3>4, <3>5, <3>6, <3>7, KeepsMovers DEF Mover, Active
  <2>5. QED
    BY <1>7, <2>1, <2>2, <2>3, <2>4 DEF RunJob
<1>8. CASE UNCHANGED vars
  BY <1>8 DEF vars, meetingVars, jobVars, workerVars, QueuedHasMover, Mover, Active
<1>9. QED
  BY <1>1, <1>2, <1>3, <1>4, <1>5, <1>6, <1>7, <1>8, RequestKinds, SweepKinds DEF Next, WorkerNext

(* The strengthened form of "queued means there is a job": for any number   *)
(* of workers and requests.                                                 *)
THEOREM JobInvariantHolds == Spec => []JobInvariant
<1>1. Init => Untaken /\ AttemptsBounded /\ QueuedHasMover
  BY NumbersAssumption DEF Init, Untaken, AttemptsBounded, QueuedHasMover
<1>2. /\ TypeOK /\ Linked /\ Untaken /\ AttemptsBounded /\ QueuedHasMover /\ [Next]_vars
      => Untaken' /\ AttemptsBounded' /\ QueuedHasMover'
  BY AttemptsStep, QueuedStep
<1>3. Linked /\ Untaken /\ QueuedHasMover => JobInvariant
  BY QueuedParts
<1>4. QED
  BY TypeCorrect, <1>1, <1>2, <1>3, PTL DEF Spec

(* A meeting shown as waiting in the queue has a job queued or running.     *)
THEOREM QueuedHasJob == Spec => []QueuedMeetingHasJob
<1>1. JobInvariant => QueuedMeetingHasJob
  BY DEF JobInvariant, QueuedMeetingHasJob
<1>2. QED
  BY JobInvariantHolds, <1>1, PTL

-----------------------------------------------------------------------------
(* How much is left of a job, and of a run of it.  A job is queued and      *)
(* taken once per attempt.                                                  *)
JobLeft(j) ==
    CASE jstatus[j] = "queued" -> 2 * (MaxAttempts - attempts[j]) + 1
      [] jstatus[j] = "running" -> 2 * (MaxAttempts - attempts[j]) + 2
      [] OTHER -> 0

RunLeft(w) ==
    CASE wpc[w] = "mark" -> 9
      [] wpc[w] = "load" -> 8
      [] wpc[w] = "transcribe" -> 7
      [] wpc[w] \in {"store", "reread"} -> 6
      [] wpc[w] = "extract" -> 5
      [] wpc[w] = "save" -> 4
      [] wpc[w] \in {"finish", "fail"} -> 3
      [] wpc[w] = "blame" -> 2
      [] OTHER -> 0

(* What a step may do to a job: nothing, take it, put it back, end it.      *)
Taken(j) == jstatus[j] = "queued" /\ jstatus'[j] = "running" /\ attempts'[j] = attempts[j] + 1
Career(j) ==
    \/ jstatus[j] = "none"
    \/ jstatus'[j] = jstatus[j] /\ attempts'[j] = attempts[j]
    \/ Taken(j)
    \/ jstatus[j] = "running" /\ jstatus'[j] = "queued" /\ attempts'[j] = attempts[j]
    \/ jstatus'[j] \in {"done", "failed", "removed"}

LEMMA CareerStep ==
  ASSUME TypeOK, Linked, [Next]_vars, NEW j \in JobIds
  PROVE  Career(j)
<1>. USE DEF Career, jobVars
<1>1. CASE Quiet
  BY <1>1 DEF Quiet
<1>2. ASSUME NEW r \in Requests, EnqueueInsert(r) PROVE Career(j)
  BY <1>2, InsertEffect DEF TypeOK
<1>3. ASSUME NEW m \in Meetings \cup {None}, Purges(m) PROVE Career(j)
  BY <1>3 DEF Purges, RemoveRows, TypeOK
<1>4. ASSUME NEW w \in Workers, Start(w) \/ Crash(w) \/ SelectJob(w) PROVE Career(j)
  BY <1>4 DEF Start, Crash, SelectJob
<1>5. ASSUME NEW w \in Workers, Recover(w) PROVE Career(j)
  BY <1>5 DEF Recover, TypeOK
<1>6. ASSUME NEW w \in Workers, ClaimJob(w) PROVE Career(j)
  BY <1>6 DEF ClaimJob, Taken, TypeOK, Linked
<1>7. ASSUME NEW w \in Workers, RunJob(w) PROVE Career(j)
  <2>1. CASE Pipeline(w)
    BY <2>1, PipelineEffect
  <2>2. CASE ClaimLost(w) \/ MarkProcessing(w) \/ FailMeeting(w)
    BY <2>2 DEF ClaimLost, MarkProcessing, FailMeeting
  <2>3. CASE FinishJob(w) \/ FailJob(w)
    BY <2>3 DEF FinishJob, FailJob, SetJob, TypeOK
  <2>. QED BY <1>7, <2>1, <2>2, <2>3 DEF RunJob
<1>8. CASE UNCHANGED vars
  BY <1>8 DEF vars
<1>. QED
  BY <1>1, <1>2, <1>3, <1>4, <1>5, <1>6, <1>7, <1>8, RequestKinds, SweepKinds DEF Next, WorkerNext

LEMMA JobLeftNumber ==
  ASSUME TypeOK, AttemptsBounded, NEW j \in JobIds
  PROVE  JobLeft(j) \in Nat /\ (Active(j) <=> JobLeft(j) > 0)
<1>1. attempts[j] \in Nat /\ attempts[j] <= MaxAttempts
  BY DEF TypeOK, AttemptsBounded
<1>. QED BY <1>1, NumbersAssumption DEF JobLeft, Active

(* Every change of a job in the queue or at work leaves less of it, and an  *)
(* ended one stays ended.                                                   *)
LEMMA JobLess ==
  ASSUME TypeOK, AttemptsBounded, TypeOK', AttemptsBounded',
         NEW j \in JobIds, Career(j), jstatus[j] # "none"
  PROVE  /\ JobLeft(j)' <= JobLeft(j)
         /\ Active(j) /\ jstatus'[j] # jstatus[j] => JobLeft(j)' < JobLeft(j)
<1>1. attempts[j] \in Nat /\ attempts[j] <= MaxAttempts /\ MaxAttempts \in Nat
  BY NumbersAssumption DEF TypeOK, AttemptsBounded
<1>2. JobLeft(j) \in Nat /\ (Active(j) <=> JobLeft(j) > 0)
  BY JobLeftNumber
<1>3. CASE jstatus'[j] = jstatus[j] /\ attempts'[j] = attempts[j]
  <2>1. JobLeft(j)' = JobLeft(j)
    BY <1>3 DEF JobLeft
  <2>. QED BY <1>2, <1>3, <2>1
<1>4. CASE Taken(j) /\ ~ (jstatus'[j] = jstatus[j])
  <2>1. JobLeft(j) = 2 * (MaxAttempts - attempts[j]) + 1
    BY <1>4 DEF JobLeft, Taken
  <2>2. JobLeft(j)' = 2 * (MaxAttempts - (attempts[j] + 1)) + 2
    BY <1>4 DEF JobLeft, Taken
  <2>. QED BY <1>1, <2>1, <2>2
<1>5. CASE jstatus[j] = "running" /\ jstatus'[j] = "queued" /\ attempts'[j] = attempts[j]
  <2>1. /\ JobLeft(j) = 2 * (MaxAttempts - attempts[j]) + 2
        /\ JobLeft(j)' = 2 * (MaxAttempts - attempts[j]) + 1
    BY <1>5 DEF JobLeft
  <2>. QED BY <1>1, <2>1
<1>6. CASE jstatus'[j] \in {"done", "failed", "removed"}
  <2>1. JobLeft(j)' = 0
    BY <1>6 DEF JobLeft
  <2>. QED BY <1>2, <2>1
<1>. QED BY <1>3, <1>4, <1>5, <1>6 DEF Career, Taken

LEMMA RunLess ==
  ASSUME TypeOK, NEW w \in Workers, RunJob(w)
  PROVE  RunLeft(w)' < RunLeft(w)
<1>. USE DEF TypeOK, Goto, LetGo
<1>1. CASE ClaimLost(w) \/ MarkProcessing(w)
  BY <1>1 DEF ClaimLost, MarkProcessing, RunLeft
<1>2. CASE FinishJob(w) \/ FailJob(w) \/ FailMeeting(w)
  BY <1>2 DEF FinishJob, FailJob, FailMeeting, RunLeft
<1>3. CASE LoadMeeting(w)
  <2>1. wpc[w] = "load" /\ wpc'[w] \in {"fail", "reread", "transcribe"}
    BY <1>3 DEF LoadMeeting
  <2>. QED BY <2>1 DEF RunLeft
<1>4. CASE Transcribe(w)
  <2>1. wpc[w] = "transcribe" /\ wpc'[w] \in {"fail", "store"}
    BY <1>4 DEF Transcribe
  <2>. QED BY <2>1 DEF RunLeft
<1>5. CASE StoreTranscript(w) \/ RereadTranscript(w)
  <2>1. wpc[w] \in {"store", "reread"} /\ wpc'[w] \in {"fail", "extract"}
    BY <1>5 DEF StoreTranscript, RereadTranscript
  <2>. QED BY <2>1 DEF RunLeft
<1>6. CASE Extract(w)
  <2>1. wpc[w] = "extract" /\ wpc'[w] \in {"fail", "save"}
    BY <1>6 DEF Extract
  <2>. QED BY <2>1 DEF RunLeft
<1>7. CASE SaveFails(w) \/ SaveNothing(w) \/ SaveSummary(w)
  <2>1. wpc[w] = "save" /\ wpc'[w] \in {"fail", "finish"}
    BY <1>7 DEF SaveFails, SaveNothing, SaveSummary
  <2>. QED BY <2>1 DEF RunLeft
<1>. QED BY <1>1, <1>2, <1>3, <1>4, <1>5, <1>6, <1>7 DEF RunJob, Pipeline

LEMMA RunLeftNumber == \A w \in Workers : RunLeft(w) \in 0..9
BY DEF RunLeft

(* A run begins only when a worker takes a job out of the queue.            *)
LEMMA RunBegins ==
  ASSUME TypeOK, Linked, [Next]_vars, NEW w \in Workers
  PROVE  RunLeft(w)' <= RunLeft(w) \/ \E j \in JobIds : Taken(j)
<1>. DEFINE Fine == RunLeft(w)' <= RunLeft(w) \/ \E j \in JobIds : Taken(j)
<1>0. RunLeft(w) \in 0..9 /\ (wpc'[w] = wpc[w] => RunLeft(w)' = RunLeft(w))
  BY RunLeftNumber DEF RunLeft
<1>1. CASE Quiet
  BY <1>0, <1>1 DEF Quiet, workerVars
<1>2. ASSUME NEW r \in Requests, EnqueueInsert(r) PROVE Fine
  BY <1>0, <1>2 DEF EnqueueInsert, workerVars
<1>3. ASSUME NEW m \in Meetings \cup {None}, Purges(m) PROVE Fine
  BY <1>0, <1>3 DEF Purges, workerVars
<1>4. ASSUME NEW v \in Workers, Start(v) \/ Crash(v) \/ SelectJob(v) \/ Recover(v) PROVE Fine
  <2>1. wpc'[w] = wpc[w] \/ wpc'[w] \in {"boot", "down", "claim", "idle"}
    BY <1>4 DEF Start, Crash, SelectJob, Recover, Goto, TypeOK
  <2>2. wpc'[w] \in {"boot", "down", "claim", "idle"} => RunLeft(w)' = 0
    BY DEF RunLeft
  <2>. QED BY <1>0, <2>1, <2>2
<1>5. ASSUME NEW v \in Workers, ClaimJob(v) PROVE Fine
  <2>1. CASE jstatus[wjob[v]] = "queued"
    BY <1>5, <2>1 DEF ClaimJob, Taken, TypeOK, Linked
  <2>2. CASE jstatus[wjob[v]] # "queued"
    <3>1. wpc'[w] = wpc[w] \/ wpc'[w] = "idle"
      BY <1>5, <2>2 DEF ClaimJob, Goto, TypeOK
    <3>2. wpc'[w] = "idle" => RunLeft(w)' = 0
      BY DEF RunLeft
    <3>. QED BY <1>0, <3>1, <3>2
  <2>. QED BY <2>1, <2>2
<1>6. ASSUME NEW v \in Workers, RunJob(v) PROVE Fine
  <2>1. CASE v = w
    <3>1. RunLeft(w)' < RunLeft(w) /\ RunLeft(w)' \in 0..9
      BY <1>6, <2>1, RunLess DEF RunLeft
    <3>. QED BY <1>0, <3>1
  <2>2. CASE v # w
    <3>1. wpc'[w] = wpc[w]
      BY <1>6, <2>2 DEF RunJob, ClaimLost, MarkProcessing, Pipeline, LoadMeeting, Transcribe,
           StoreTranscript, RereadTranscript, Extract, SaveFails, SaveNothing, SaveSummary,
           FinishJob, FailJob, FailMeeting, LetGo, Goto, TypeOK
    <3>. QED BY <1>0, <3>1
  <2>. QED BY <2>1, <2>2
<1>7. CASE UNCHANGED vars
  BY <1>0, <1>7 DEF vars, workerVars
<1>. QED
  BY <1>1, <1>2, <1>3, <1>4, <1>5, <1>6, <1>7, RequestKinds, SweepKinds DEF Next, WorkerNext

(* However many workers there are and however often they crash, requeue     *)
(* each other's jobs or work on one together: what is left of a job is a    *)
(* number, zero when it has ended, that every change of its row lowers and  *)
(* none raises; every step of a run lowers what is left of that, and a new  *)
(* run costs a job in the queue an attempt.  So claim_next,                 *)
(* recover_abandoned and run_process_job cannot pass a job round for ever.  *)
THEOREM JobsRunOut ==
  Spec => /\ [](\A j \in JobIds : JobLeft(j) \in Nat /\ (Active(j) <=> JobLeft(j) > 0))
          /\ [][\A j \in JobIds : jstatus[j] # "none" =>
                  /\ JobLeft(j)' <= JobLeft(j)
                  /\ Active(j) /\ jstatus'[j] # jstatus[j] => JobLeft(j)' < JobLeft(j)]_vars
          /\ [][\A w \in Workers :
                  /\ RunJob(w) => RunLeft(w)' < RunLeft(w)
                  /\ RunLeft(w)' > RunLeft(w) =>
                       \E j \in JobIds : jstatus[j] = "queued" /\ JobLeft(j)' < JobLeft(j)]_vars
<1>. DEFINE Numbered == \A j \in JobIds : JobLeft(j) \in Nat /\ (Active(j) <=> JobLeft(j) > 0)
            JobsLower == \A j \in JobIds : jstatus[j] # "none" =>
                           /\ JobLeft(j)' <= JobLeft(j)
                           /\ Active(j) /\ jstatus'[j] # jstatus[j] => JobLeft(j)' < JobLeft(j)
            RunsLower == \A w \in Workers :
                           /\ RunJob(w) => RunLeft(w)' < RunLeft(w)
                           /\ RunLeft(w)' > RunLeft(w) =>
                                \E j \in JobIds : jstatus[j] = "queued" /\ JobLeft(j)' < JobLeft(j)
            Sound == TypeOK /\ Linked /\ AttemptsBounded
<1>1. Spec => []Sound
  BY TypeCorrect, AttemptsAreBounded, PTL
<1>2. Sound => Numbered
  BY JobLeftNumber
<1>3. Sound /\ Sound' /\ [Next]_vars => JobsLower
  BY CareerStep, JobLess
<1>4. Sound /\ Sound' /\ [Next]_vars => RunsLower
  <2>. SUFFICES ASSUME Sound, Sound', [Next]_vars, NEW w \in Workers
       PROVE  /\ RunJob(w) => RunLeft(w)' < RunLeft(w)
              /\ RunLeft(w)' > RunLeft(w) =>
                   \E j \in JobIds : jstatus[j] = "queued" /\ JobLeft(j)' < JobLeft(j)
    OBVIOUS
  <2>1. RunJob(w) => RunLeft(w)' < RunLeft(w)
    BY RunLess
  <2>2. RunLeft(w) \in 0..9 /\ RunLeft(w)' \in 0..9
    BY RunLeftNumber DEF RunLeft
  <2>3. ASSUME NEW j \in JobIds, Taken(j)
        PROVE  jstatus[j] = "queued" /\ JobLeft(j)' < JobLeft(j)
    BY <1>3, <2>3 DEF Taken, Active
  <2>4. RunLeft(w)' > RunLeft(w) => ~ (RunLeft(w)' <= RunLeft(w))
    BY <2>2
  <2>5. RunLeft(w)' <= RunLeft(w) \/ \E j \in JobIds : Taken(j)
    BY RunBegins
  <2>. QED BY <2>1, <2>3, <2>4, <2>5
<1>. HIDE DEF Numbered, JobsLower, RunsLower, Sound
<1>5. Spec => []Numbered /\ [][JobsLower]_vars /\ [][RunsLower]_vars
  BY <1>1, <1>2, <1>3, <1>4, PTL DEF Spec
<1>. QED BY <1>5 DEF Numbered, JobsLower, RunsLower

=============================================================================

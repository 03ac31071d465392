--------------------------- MODULE OneWorkerProofs ---------------------------
(***************************************************************************)
(* What holds of MeetingJobs because one worker runs the queue (the app    *)
(* starts one with each API process, of which a deployment has one):       *)
(* the job table implements JobLife, and a meeting's status agrees with    *)
(* its stored result.  Requests, the sweep and crashes stay unrestricted.  *)
(***************************************************************************)
EXTENDS MeetingJobsProofs

OneWorker == \A v, w \in Workers : v = w

(* At most one job runs, and the worker at work holds it or a removed row.  *)
Sole ==
    /\ \A i, j \in JobIds : jstatus[i] = "running" /\ jstatus[j] = "running" => i = j
    /\ \A w \in Workers : wpc[w] \in Working => jstatus[wjob[w]] \in {"running", "removed"}

Serial ==
    /\ TypeOK /\ Linked
    /\ Untaken /\ AttemptsBounded
    /\ RunningJobHasWorker
    /\ Sole

LEMMA InitSerial == Init => Serial
<1> SUFFICES ASSUME Init PROVE Serial
  OBVIOUS
<1>1. TypeOK /\ Linked
  BY InitType, InitLinked
<1>2. Untaken /\ AttemptsBounded /\ RunningJobHasWorker
  BY NumbersAssumption DEF Init, Untaken, AttemptsBounded, RunningJobHasWorker
<1>3. Sole
  BY DEF Init, Sole, Working
<1>4. QED
  BY <1>1, <1>2, <1>3 DEF Serial

(* A worker about to claim finds no job running: nobody else could run it.  *)
LEMMA NobodyRuns ==
  ASSUME OneWorker, TypeOK, RunningJobHasWorker, NEW w \in Workers, wpc[w] \in {"idle", "claim"}
  PROVE  \A j \in JobIds : jstatus[j] # "running"
  BY DEF OneWorker, RunningJobHasWorker, Working

(* What the steps of the worker do to the job table.                        *)
LEMMA ClaimEffect ==
  ASSUME TypeOK, Linked, NEW w \in Workers, ClaimJob(w)
  PROVE  /\ wpc[w] = "claim" /\ wjob[w] \in JobIds
         /\ UNCHANGED <<jmeeting, meetingVars>>
         /\ \/ /\ jstatus[wjob[w]] = "queued"
               /\ jstatus' = [jstatus EXCEPT ![wjob[w]] = "running"]
               /\ attempts' = [attempts EXCEPT ![wjob[w]] = @ + 1]
               /\ wpc' = [wpc EXCEPT ![w] = "mark"] /\ UNCHANGED <<wjob, heard>>
            \/ /\ UNCHANGED <<jstatus, attempts, heard>>
               /\ wpc' = [wpc EXCEPT ![w] = "idle"]
               /\ wjob' = [wjob EXCEPT ![w] = 0]
<1>1. wjob[w] \in JobIds
  BY DEF ClaimJob, Linked
<1>2. wpc[w] = "claim" /\ UNCHANGED <<jmeeting, meetingVars, heard>>
  BY DEF ClaimJob
<1>3. CASE jstatus[wjob[w]] = "queued"
  BY <1>1, <1>2, <1>3 DEF ClaimJob, Goto
<1>4. CASE jstatus[wjob[w]] # "queued"
  BY <1>1, <1>2, <1>4 DEF ClaimJob, Goto
<1>5. QED
  BY <1>3, <1>4

LEMMA ReportEffect ==
  ASSUME TypeOK, Linked, NEW w \in Workers, FinishJob(w) \/ FailJob(w)
  PROVE  /\ wpc[w] \in Working /\ wjob[w] \in JobIds
         /\ UNCHANGED <<jmeeting, attempts, meetingVars>>
         /\ \/ jstatus[wjob[w]] = "removed" /\ UNCHANGED jstatus
            \/ /\ jstatus[wjob[w]] # "removed"
               /\ \E outcome \in {"failed", "done"} :
                    jstatus' = [jstatus EXCEPT ![wjob[w]] = outcome]
         /\ \E point \in {"idle", "blame"} : wpc' = [wpc EXCEPT ![w] = point]
         /\ \E job \in {0, wjob[w]} : wjob' = [wjob EXCEPT ![w] = job]
<1>1. wpc[w] \in Working /\ wjob[w] \in JobIds
  BY DEF FinishJob, FailJob, Working, Linked
<1>2. UNCHANGED <<jmeeting, attempts, meetingVars>>
  BY DEF FinishJob, FailJob
<1>3. PICK outcome \in {"failed", "done"} :
         jstatus' = [jstatus EXCEPT ![wjob[w]] = IF @ = "removed" THEN @ ELSE outcome]
  BY DEF FinishJob, FailJob, SetJob
<1>4. jstatus[wjob[w]] = "removed" => UNCHANGED jstatus
  BY <1>1, <1>3 DEF TypeOK
<1>5. jstatus[wjob[w]] # "removed" => jstatus' = [jstatus EXCEPT ![wjob[w]] = outcome]
  BY <1>1, <1>3 DEF TypeOK
<1>6. \E point \in {"idle", "blame"} : wpc' = [wpc EXCEPT ![w] = point]
  BY DEF FinishJob, FailJob, LetGo, Goto
<1>7. \E job \in {0, wjob[w]} : wjob' = [wjob EXCEPT ![w] = job]
  BY DEF FinishJob, FailJob, LetGo
<1>8. QED
  BY <1>1, <1>2, <1>4, <1>5, <1>6, <1>7

(* All the job table sees of the other steps of a worker is nothing.        *)
LEMMA WorkerElse ==
  ASSUME TypeOK, Linked, NEW w \in Workers,
         Start(w) \/ Crash(w) \/ SelectJob(w) \/ ClaimLost(w) \/ MarkProcessing(w)
           \/ Pipeline(w) \/ FailMeeting(w)
  PROVE  /\ UNCHANGED jobVars
         /\ \A v \in Workers \ {w} : wpc'[v] = wpc[v] /\ wjob'[v] = wjob[v]
         /\ wpc'[w] \in Working => wpc[w] \in Working /\ wjob'[w] = wjob[w]
<1> USE DEF TypeOK, Goto, jobVars
<1>1. CASE Start(w) \/ Crash(w)
  BY <1>1 DEF Start, Crash, Working
<1>2. CASE SelectJob(w)
  BY <1>2 DEF SelectJob, Working
<1>3. CASE ClaimLost(w) \/ MarkProcessing(w)
  BY <1>3 DEF ClaimLost, MarkProcessing, Working
<1>4. CASE Pipeline(w)
  BY ZenonT(40), <1>4, PipelineEffect DEF Working
<1>5. CASE FailMeeting(w)
  BY <1>5 DEF FailMeeting, LetGo, Working
<1>6. QED
  BY <1>1, <1>2, <1>3, <1>4, <1>5

LEMMA SoleStep ==
  ASSUME OneWorker, TypeOK, Linked, RunningJobHasWorker, Sole, [Next]_vars
  PROVE  Sole'
<1> USE DEF Sole, jobVars, workerVars
<1>1. CASE Quiet
  BY <1>1 DEF Quiet
<1>2. ASSUME NEW r \in Requests, EnqueueInsert(r) PROVE Sole'
  BY SMTT(30), <1>2, InsertEffect DEF TypeOK, Linked
<1>3. ASSUME NEW m \in Meetings \cup {None}, Purges(m) PROVE Sole'
  BY <1>3 DEF Purges, RemoveRows, TypeOK, Linked
<1>4. ASSUME NEW w \in Workers, Recover(w) PROVE Sole'
  <2>1. \A j \in JobIds : jstatus'[j] # "running"
    BY <1>4 DEF Recover
  <2>2. \A v \in Workers : wpc'[v] = "idle"
    BY <1>4 DEF Recover, Goto, OneWorker, TypeOK
  <2>3. QED
    BY <2>1, <2>2 DEF Working
<1>5. ASSUME NEW w \in Workers, ClaimJob(w) PROVE Sole'
  <2>1. wpc[w] = "claim" /\ wjob[w] \in JobIds /\ \A v \in Workers : v = w
    BY <1>5, ClaimEffect DEF OneWorker
  <2>2. \A j \in JobIds : jstatus[j] # "running"
    BY <2>1, NobodyRuns
  <2>3. QED
    BY <1>5, <2>1, <2>2, ClaimEffect DEF Working, TypeOK
<1>6. ASSUME NEW w \in Workers, FinishJob(w) \/ FailJob(w) PROVE Sole'
  <2>1. \A v \in Workers : wpc'[v] \notin Working
    BY <1>6, ReportEffect DEF OneWorker, Working, TypeOK
  <2>2. \A j \in JobIds : jstatus'[j] = "running" => jstatus[j] = "running"
    BY <1>6, ReportEffect DEF TypeOK
  <2>3. QED
    BY <2>1, <2>2
<1>7. ASSUME NEW w \in Workers,
             Start(w) \/ Crash(w) \/ SelectJob(w) \/ ClaimLost(w) \/ MarkProcessing(w)
               \/ Pipeline(w) \/ FailMeeting(w)
      PROVE  Sole'
  <2>1. \A v \in Workers : wpc'[v] \in Working => wpc[v] \in Working /\ wjob'[v] = wjob[v]
    BY <1>7, WorkerElse
  <2>2. QED
    BY <1>7, <2>1, WorkerElse
<1>8. CASE UNCHANGED vars
  BY <1>8 DEF vars
<1>9. QED
  BY <1>1, <1>2, <1>3, <1>4, <1>5, <1>6, <1>7, <1>8, RequestKinds, SweepKinds
     DEF Next, WorkerNext, RunJob

LEMMA SerialStep ==
  ASSUME OneWorker, Serial, [Next]_vars
  PROVE  Serial'
  BY TypeLinkedStep, AttemptsStep, RunningStep, SoleStep DEF Serial

-----------------------------------------------------------------------------
LEMMA InitLife == Init => Life!LifeInit
  BY DEF Init, Life!LifeInit

(* Each step of the server is one step of the abstract job life, or none.   *)
LEMMA LifeStep ==
  ASSUME OneWorker, Serial, [Next]_vars
  PROVE  [Life!LifeNext]_(Life!lifeVars)
<1> USE DEF Life!lifeVars, jobVars
<1>1. CASE Quiet
  BY <1>1 DEF Quiet
<1>2. ASSUME NEW r \in Requests, EnqueueInsert(r) PROVE [Life!LifeNext]_(Life!lifeVars)
  <2>1. CASE UNCHANGED <<jobVars, workerVars, status, content>>
    BY <2>1
  <2>2. CASE \E j \in JobIds : /\ jstatus[j] = "none"
                               /\ jstatus' = [jstatus EXCEPT ![j] = "queued"]
                               /\ UNCHANGED attempts
    BY <2>2 DEF Life!LifeNext, Life!Submit
  <2>3. QED
    BY <1>2, <2>1, <2>2, InsertEffect DEF Serial
<1>3. ASSUME NEW m \in Meetings \cup {None}, Purges(m) PROVE [Life!LifeNext]_(Life!lifeVars)
  <2>1. JobsOf(m) \in SUBSET JobIds /\ \A j \in JobsOf(m) : jstatus[j] # "none"
    BY DEF JobsOf
  <2>2. Life!Remove(JobsOf(m))
    BY <1>3, <2>1 DEF Purges, RemoveRows, Life!Remove
  <2>3. QED
    BY <2>1, <2>2 DEF Life!LifeNext
<1>4. ASSUME NEW w \in Workers, Recover(w) PROVE [Life!LifeNext]_(Life!lifeVars)
  <2>1. /\ UNCHANGED attempts
        /\ jstatus' = [j \in JobIds |-> IF j \in Poisoned THEN "failed"
                                        ELSE IF jstatus[j] = "running" THEN "queued"
                                        ELSE jstatus[j]]
    BY <1>4 DEF Recover
  <2>2. CASE \A j \in JobIds : jstatus[j] # "running"
    <3>1. jstatus' = jstatus
      BY <2>1, <2>2 DEF Poisoned, Serial, TypeOK
    <3>2. QED
      BY <2>1, <3>1
  <2>3. ASSUME NEW k \in JobIds, jstatus[k] = "running" PROVE Life!LifeNext
    <3>1. \A j \in JobIds \ {k} : jstatus[j] # "running" /\ j \notin Poisoned
      BY <2>3 DEF Serial, Sole, Poisoned
    <3>2. CASE k \in Poisoned
      <4>1. jstatus' = [jstatus EXCEPT ![k] = "failed"]
        BY <2>1, <3>1, <3>2 DEF Serial, TypeOK
      <4>2. QED
        BY <2>1, <2>3, <4>1 DEF Life!LifeNext, Life!Settle
    <3>3. CASE k \notin Poisoned
      <4>1. jstatus' = [jstatus EXCEPT ![k] = "queued"]
        BY <2>1, <2>3, <3>1, <3>3 DEF Serial, TypeOK
      <4>2. attempts[k] < MaxAttempts
        BY <2>3, <3>3, NumbersAssumption DEF Poisoned, Serial, TypeOK
      <4>3. QED
        BY <2>1, <2>3, <4>1, <4>2 DEF Life!LifeNext, Life!PutBack
    <3>4. QED
      BY <3>2, <3>3
  <2>4. QED
    BY <2>2, <2>3
<1>5. ASSUME NEW w \in Workers, ClaimJob(w) PROVE [Life!LifeNext]_(Life!lifeVars)
  <2>1. /\ wjob[w] \in JobIds
        /\ \A j \in JobIds : jstatus[j] # "running"
    BY <1>5, ClaimEffect, NobodyRuns DEF Serial
  <2>2. jstatus[wjob[w]] = "queued" => attempts[wjob[w]] < MaxAttempts
    BY <2>1 DEF Serial, AttemptsBounded
  <2>3. CASE UNCHANGED <<jstatus, attempts>>
    BY <2>3
  <2>4. CASE /\ jstatus[wjob[w]] = "queued"
             /\ jstatus' = [jstatus EXCEPT ![wjob[w]] = "running"]
             /\ attempts' = [attempts EXCEPT ![wjob[w]] = @ + 1]
    BY <2>1, <2>2, <2>4 DEF Life!LifeNext, Life!Take
  <2>5. QED
    BY <1>5, <2>3, <2>4, ClaimEffect DEF Serial
<1>6. ASSUME NEW w \in Workers, FinishJob(w) \/ FailJob(w) PROVE [Life!LifeNext]_(Life!lifeVars)
  <2>1. /\ wjob[w] \in JobIds /\ jstatus[wjob[w]] \in {"running", "removed"}
        /\ UNCHANGED attempts
    BY <1>6, ReportEffect DEF Serial, Sole
  <2>2. CASE UNCHANGED jstatus
    BY <2>1, <2>2
  <2>3. CASE /\ jstatus[wjob[w]] # "removed"
             /\ \E outcome \in {"failed", "done"} :
                  jstatus' = [jstatus EXCEPT ![wjob[w]] = outcome]
    BY <2>1, <2>3 DEF Life!LifeNext, Life!Settle
  <2>4. QED
    BY <1>6, <2>2, <2>3, ReportEffect DEF Serial
<1>7. ASSUME NEW w \in Workers,
             Start(w) \/ Crash(w) \/ SelectJob(w) \/ ClaimLost(w) \/ MarkProcessing(w)
               \/ Pipeline(w) \/ FailMeeting(w)
      PROVE  [Life!LifeNext]_(Life!lifeVars)
  BY <1>7, WorkerElse DEF Serial
<1>8. CASE UNCHANGED vars
  BY <1>8 DEF vars
<1>9. TypeOK
  BY DEF Serial
<1>10. QED
  BY <1>1, <1>2, <1>3, <1>4, <1>5, <1>6, <1>7, <1>8, <1>9, RequestKinds, SweepKinds
     DEF Next, WorkerNext, RunJob

(* With one worker the server implements the job life: one job at a time,   *)
(* each taken MaxAttempts times at most, an outcome kept until the row goes *)
(* with its meeting, whatever the requests, the sweep and the crashes do.   *)
THEOREM ImplementsJobLife ==
  ASSUME OneWorker
  PROVE  Spec => LifeSpec
<1>1. Serial /\ [Next]_vars => Serial'
  BY SerialStep
<1>2. Serial /\ [Next]_vars => [Life!LifeNext]_(Life!lifeVars)
  BY LifeStep
<1>3. QED
  BY InitSerial, InitLife, <1>1, <1>2, PTL DEF Spec, LifeSpec, Life!LifeSpec

-----------------------------------------------------------------------------
(* The status of a meeting and what is stored for it.  Tasks come from a    *)
(* transcript.  While the worker runs the pipeline on a meeting that is     *)
(* still there, its status is neither "review" nor "done", so that no       *)
(* decision can move it, and from the moment the old result is dropped the  *)
(* meeting has none.                                                        *)
AtWork == {"load", "transcribe", "store", "reread", "extract", "save"}

Empty(m) == ~ summary[m] /\ suggested[m] = {} /\ decided[m] = {}

Fresh(w, m) ==
    /\ status[m] \notin {"review", "done"}
    /\ wpc[w] \in {"extract", "save"} => (heard[w] => transcript[m]) /\ Empty(m)

WorkIsFresh == \A w \in Workers : wpc[w] \in AtWork /\ Exists(Held(w)) => Fresh(w, Held(w))

JobsHadMeetings == \A j \in JobIds : jstatus[j] # "none" => status[jmeeting[j]] # "absent"

TasksHaveSource == \A m \in Meetings : suggested[m] \cup decided[m] # {} => transcript[m]

Honest == ReviewIsHonest /\ WorkIsFresh /\ JobsHadMeetings /\ TasksHaveSource

LEMMA InitHonest == Init => Honest
  BY DEF Init, Honest, ReviewIsHonest, WorkIsFresh, JobsHadMeetings, TasksHaveSource, AtWork

(* Steps that only take a meeting out of review, queue it or fail it, and   *)
(* move workers without touching content.                                   *)
Aside ==
    /\ UNCHANGED content
    /\ \A m \in Meetings : \/ status'[m] = status[m]
                           \/ /\ status[m] # "gone"
                              /\ status'[m] \in {"recording", "recorded", "queued",
                                                 "processing", "failed"}
    /\ \A j \in JobIds : jstatus'[j] # "none" =>
         \/ jstatus[j] # "none" /\ jmeeting'[j] = jmeeting[j]
         \/ jmeeting'[j] \in Meetings /\ Exists(jmeeting'[j])
    /\ \A w \in Workers : wpc'[w] \in AtWork =>
         /\ wjob'[w] = wjob[w] /\ jmeeting'[wjob[w]] = jmeeting[wjob[w]]
         /\ \/ wpc[w] \in {wpc'[w], "extract"} /\ heard'[w] = heard[w]
            \/ wpc[w] \in AtWork /\ wpc'[w] \notin {"extract", "save"}
            \/ wpc[w] = "mark" /\ wpc'[w] = "load" /\ status'[Held(w)] \notin {"review", "done"}

(* The meeting a worker at work is on: there is one, and it was created.    *)
LEMMA HeldMeeting ==
  ASSUME TypeOK, Linked, JobsHadMeetings, NEW w \in Workers, wpc[w] \in AtWork \cup {"mark"}
  PROVE  wjob[w] \in JobIds /\ Held(w) \in Meetings /\ status[Held(w)] # "absent"
  BY DEF AtWork, Working, Linked, JobsHadMeetings, Held

LEMMA AsideIsHonest ==
  ASSUME TypeOK, Linked, Honest, Aside
  PROVE  Honest'
<1> USE DEF content
<1>1. ReviewIsHonest'
  BY DEF Aside, Honest, ReviewIsHonest
<1>2. TasksHaveSource'
  BY DEF Aside, Honest, TasksHaveSource
<1>3. JobsHadMeetings'
  BY DEF Aside, Honest, JobsHadMeetings, Linked, Exists
<1>4. WorkIsFresh'
  <2> SUFFICES ASSUME NEW w \in Workers, wpc'[w] \in AtWork, Exists(Held(w))'
               PROVE  Fresh(w, Held(w))'
    BY DEF WorkIsFresh
  <2>1. wpc[w] \in AtWork \cup {"mark"}
    BY DEF Aside, AtWork
  <2>2. PICK m \in Meetings : m = Held(w) /\ status[m] # "absent"
    BY <2>1, HeldMeeting DEF Honest
  <2>3. Held(w)' = m
    BY <2>2 DEF Aside, Held
  <2>4. status'[m] \notin {"absent", "gone"}
    BY <2>3 DEF Exists
  <2>5. wpc[w] \in AtWork => Fresh(w, m)
    BY <2>2, <2>4 DEF Aside, Exists, Honest, WorkIsFresh
  <2>6. status'[m] \notin {"review", "done"}
    BY <2>1, <2>2, <2>5 DEF Aside, Fresh, AtWork
  <2>7. wpc'[w] \in {"extract", "save"} => wpc[w] \in {"extract", "save"} /\ heard'[w] = heard[w]
    BY DEF Aside
  <2>8. wpc'[w] \in {"extract", "save"} =>
          /\ heard'[w] => transcript'[m]
          /\ ~ summary'[m] /\ suggested'[m] = {} /\ decided'[m] = {}
    BY <2>5, <2>7 DEF Aside, Fresh, Empty, AtWork
  <2>9. QED
    BY <2>3, <2>6, <2>8 DEF Fresh, Empty
<1>5. QED
  BY <1>1, <1>2, <1>3, <1>4 DEF Honest

LEMMA RequestAside ==
  ASSUME TypeOK, Linked, RequestNext
  PROVE  \/ Aside
         \/ \E m \in Meetings \cup {None} : Purges(m)
         \/ \E m \in Meetings, t \in Tasks, decide \in BOOLEAN : PatchTask(m, t, decide)
<1> USE DEF Aside, meetingVars, jobVars, workerVars
<1>1. ASSUME NEW r \in Requests, PurgeRows(r) PROVE \E m \in Meetings \cup {None} : Purges(m)
  <2>1. req[r].meeting \in Meetings \cup {None}
    BY DEF TypeOK, Request
  <2>2. QED
    BY <1>1, <2>1 DEF PurgeRows, Purges
<1>2. ASSUME NEW r \in Requests, Abandon(r) \/ UploadWrite(r) \/ EnqueueSelect(r) \/ PurgeFiles(r)
      PROVE Aside
  BY <1>2 DEF Abandon, UploadWrite, EnqueueSelect, PurgeFiles
<1>3. ASSUME NEW r \in Requests, FinishWrite(r) PROVE Aside
  <2>1. UNCHANGED <<content, jobVars, workerVars>>
    BY <1>3 DEF FinishWrite
  <2>2. \A m \in Meetings : status'[m] = status[m] \/ (status[m] # "gone" /\ status'[m] = "recorded")
    BY <1>3 DEF FinishWrite, TypeOK, Exists
  <2>3. QED
    BY <2>1, <2>2
<1>4. ASSUME NEW r \in Requests, EnqueueInsert(r) PROVE Aside
  <2>1. CASE UNCHANGED <<jobVars, workerVars, status, content>>
    BY <2>1
  <2>2. ASSUME NEW j \in JobIds, NEW m \in Meetings,
               /\ jstatus[j] = "none" /\ Exists(m)
               /\ jstatus' = [jstatus EXCEPT ![j] = "queued"]
               /\ jmeeting' = [jmeeting EXCEPT ![j] = m]
               /\ status' = [status EXCEPT ![m] = "queued"]
               /\ UNCHANGED <<attempts, content, workerVars>>
        PROVE  Aside
    <3>1. \A i \in JobIds \ {j} : jstatus'[i] = jstatus[i] /\ jmeeting'[i] = jmeeting[i]
      BY <2>2 DEF TypeOK
    <3>2. jmeeting'[j] = m /\ status'[m] = "queued" /\ status[m] # "gone"
      BY <2>2 DEF TypeOK, Exists
    <3>3. \A n \in Meetings : status'[n] = status[n] \/ (status[n] # "gone" /\ status'[n] = "queued")
      BY <2>2, <3>2 DEF TypeOK
    <3>4. \A w \in Workers : wpc[w] \in AtWork => wjob[w] \in JobIds \ {j}
      BY <2>2 DEF AtWork, Working, Linked
    <3>5. QED
      BY <2>2, <3>1, <3>2, <3>3, <3>4 DEF Exists
  <2>3. QED
    BY <1>4, <2>1, <2>2, InsertEffect
<1>5. ASSUME NEW r \in Requests, NEW m \in Meetings,
             \/ UploadRead(r, m) \/ FinishRead(r, m) \/ PurgeCheck(r, m)
             \/ \E kind \in Kinds : ProcessRead(r, m, kind)
      PROVE Aside
  BY <1>5 DEF UploadRead, FinishRead, PurgeCheck, ProcessRead
<1>6. ASSUME NEW m \in Meetings, SoftDelete(m) \/ Restore(m) \/ Age(m) PROVE Aside
  BY <1>6 DEF SoftDelete, Restore, Age
<1>7. ASSUME NEW m \in Meetings, CreateMeeting(m) PROVE Aside
  BY <1>7 DEF CreateMeeting, TypeOK
<1>8. QED
  BY <1>1, <1>2, <1>3, <1>4, <1>5, <1>6, <1>7 DEF RequestNext

LEMMA SweepAside ==
  ASSUME TypeOK, SweepStep
  PROVE  Aside \/ \E m \in Meetings \cup {None} : Purges(m)
<1>1. CASE SweepRows
  <2>1. sweep.on \in Meetings \cup {None}
    BY DEF TypeOK, Sweep
  <2>2. QED
    BY <1>1, <2>1 DEF SweepRows, Purges
<1>2. CASE SweepLoad \/ SweepFiles \/ SweepFails \/ \E m \in Meetings : SweepNext(m)
  BY <1>2 DEF Aside, SweepLoad, SweepFiles, SweepFails, SweepNext, meetingVars, jobVars, workerVars
<1>3. QED
  BY <1>1, <1>2 DEF SweepStep

LEMMA WorkerAside ==
  ASSUME TypeOK, Linked, PurgedStaysEmpty, NEW w \in Workers,
         \/ Start(w) \/ Crash(w) \/ Recover(w) \/ SelectJob(w) \/ ClaimJob(w)
         \/ ClaimLost(w) \/ MarkProcessing(w) \/ LoadMeeting(w) \/ Transcribe(w)
         \/ Extract(w) \/ SaveFails(w) \/ FinishJob(w) \/ FailJob(w) \/ FailMeeting(w)
  PROVE  Aside
<1> USE DEF Aside, meetingVars, jobVars, AtWork
<1>1. CASE Start(w) \/ Crash(w)
  BY <1>1 DEF Start, Crash, Goto, TypeOK
<1>2. CASE Recover(w)
  <2>1. UNCHANGED <<content, jmeeting, wjob, heard>> /\ wpc' = [wpc EXCEPT ![w] = "idle"]
    BY <1>2 DEF Recover, Goto
  <2>2. \A m \in Meetings : status'[m] = status[m] \/ (status[m] # "gone" /\ status'[m] = "failed")
    <3>1. \A m \in Meetings : (\E j \in Poisoned : jmeeting[j] = m) => status[m] # "gone"
      BY DEF PurgedStaysEmpty, Poisoned, JobsOf
    <3>2. QED
      BY <1>2, <3>1 DEF Recover
  <2>3. \A j \in JobIds : jstatus'[j] # "none" => jstatus[j] # "none"
    BY <1>2 DEF Recover, Poisoned, TypeOK
  <2>4. QED
    BY <2>1, <2>2, <2>3 DEF TypeOK
<1>3. CASE SelectJob(w)
  BY <1>3 DEF SelectJob, Goto, TypeOK
<1>4. CASE ClaimJob(w)
  BY <1>4, ClaimEffect DEF TypeOK
<1>5. CASE ClaimLost(w)
  BY <1>5 DEF ClaimLost, Goto, TypeOK
<1>6. CASE MarkProcessing(w)
  <2>1. /\ UNCHANGED <<content, jobVars, wjob, heard>>
        /\ wpc[w] = "mark" /\ wpc' = [wpc EXCEPT ![w] = "load"]
    BY <1>6 DEF MarkProcessing, Goto
  <2>2. \A m \in Meetings : status'[m] = status[m] \/ (status[m] # "gone" /\ status'[m] = "processing")
    BY <1>6 DEF MarkProcessing, TypeOK, Exists
  <2>3. Held(w) \in Meetings
    BY <2>1 DEF Linked, Held, Working
  <2>4. status'[Held(w)] \notin {"review", "done"}
    BY <1>6, <2>3 DEF MarkProcessing, TypeOK, Exists
  <2>5. QED
    BY <2>1, <2>2, <2>4 DEF TypeOK
<1>7. CASE LoadMeeting(w)
  BY <1>7 DEF LoadMeeting, Goto, TypeOK
<1>8. CASE Transcribe(w)
  <2>1. /\ UNCHANGED <<content, jobVars, wjob, status>>
        /\ wpc[w] = "transcribe"
        /\ \E point \in {"fail", "store"} : wpc' = [wpc EXCEPT ![w] = point]
        /\ \A v \in Workers \ {w} : heard'[v] = heard[v]
    BY <1>8 DEF Transcribe, Goto, TypeOK
  <2>2. QED
    BY <2>1 DEF TypeOK
<1>9. CASE Extract(w)
  BY <1>9 DEF Extract, Goto, TypeOK
<1>10. CASE SaveFails(w)
  BY <1>10 DEF SaveFails, Goto, TypeOK
<1>11. CASE FinishJob(w) \/ FailJob(w)
  <2>1. \A v \in Workers \ {w} : wpc'[v] = wpc[v] /\ wjob'[v] = wjob[v] /\ heard'[v] = heard[v]
    BY <1>11 DEF FinishJob, FailJob, LetGo, Goto, TypeOK
  <2>2. wpc'[w] \notin AtWork
    BY <1>11, ReportEffect DEF TypeOK
  <2>3. \A j \in JobIds : jstatus'[j] # "none" => jstatus[j] # "none"
    BY <1>11, ReportEffect DEF TypeOK, Linked, Working
  <2>4. UNCHANGED <<jmeeting, meetingVars>>
    BY <1>11, ReportEffect
  <2>5. QED
    BY <2>1, <2>2, <2>3, <2>4
<1>12. CASE FailMeeting(w)
  <2>1. /\ UNCHANGED <<content, jobVars>>
        /\ \A v \in Workers \ {w} : wpc'[v] = wpc[v] /\ wjob'[v] = wjob[v] /\ heard'[v] = heard[v]
        /\ wpc'[w] \notin AtWork
    BY <1>12 DEF FailMeeting, LetGo, Goto, TypeOK
  <2>2. \A m \in Meetings : status'[m] = status[m] \/ (status[m] # "gone" /\ status'[m] = "failed")
    BY <1>12 DEF FailMeeting, TypeOK, Exists
  <2>3. QED
    BY <2>1, <2>2
<1>13. QED
  BY <1>1, <1>2, <1>3, <1>4, <1>5, <1>6, <1>7, <1>8, <1>9, <1>10, <1>11, <1>12

LEMMA PurgeIsHonest ==
  ASSUME TypeOK, Linked, Honest, NEW x \in Meetings \cup {None}, Purges(x)
  PROVE  Honest'
<1>1. /\ UNCHANGED <<jmeeting, wpc, wjob, heard>>
      /\ \A j \in JobIds : jstatus'[j] # "none" => jstatus[j] # "none"
  BY DEF Purges, RemoveRows, JobsOf, workerVars, TypeOK
<1>2. \A m \in Meetings \ {x} :
        /\ status'[m] = status[m] /\ transcript'[m] = transcript[m] /\ summary'[m] = summary[m]
        /\ suggested'[m] = suggested[m] /\ decided'[m] = decided[m]
  BY DEF Purges, RemoveRows, TypeOK
<1>3. x \in Meetings => status'[x] = "gone" /\ suggested'[x] = {} /\ decided'[x] = {}
  BY DEF Purges, RemoveRows, TypeOK
<1>4. ReviewIsHonest'
  BY <1>2, <1>3 DEF Honest, ReviewIsHonest
<1>5. TasksHaveSource'
  BY <1>2, <1>3 DEF Honest, TasksHaveSource
<1>6. JobsHadMeetings'
  BY <1>1, <1>2, <1>3 DEF Honest, JobsHadMeetings, Linked
<1>7. WorkIsFresh'
  <2> SUFFICES ASSUME NEW w \in Workers, wpc'[w] \in AtWork, Exists(Held(w))'
               PROVE  Fresh(w, Held(w))'
    BY DEF WorkIsFresh
  <2>1. PICK m \in Meetings : m = Held(w)
    BY <1>1, HeldMeeting DEF Honest
  <2>2. Held(w)' = m
    BY <1>1, <2>1 DEF Held
  <2>3. m # x
    BY <1>3, <2>2 DEF Exists
  <2>4. Fresh(w, m)
    BY <1>1, <1>2, <2>1, <2>2, <2>3 DEF Exists, Honest, WorkIsFresh
  <2>5. QED
    BY <1>1, <1>2, <2>2, <2>3, <2>4 DEF Fresh, Empty
<1>8. QED
  BY <1>4, <1>5, <1>6, <1>7 DEF Honest

(* A decision comes only when there are tasks: not on a meeting whose       *)
(* result the worker has dropped, and a status moves only in the review.    *)
LEMMA PatchIsHonest ==
  ASSUME TypeOK, Linked, Honest, NEW x \in Meetings, NEW t \in Tasks, NEW decide \in BOOLEAN,
         PatchTask(x, t, decide)
  PROVE  Honest'
<1> DEFINE pending == IF decide THEN suggested[x] \ {t} ELSE suggested[x] \cup {t}
           moved == status[x] \in {"review", "done"}
<1>1. UNCHANGED <<jobVars, workerVars, transcript, summary>>
  BY DEF PatchTask
<1>2. \A m \in Meetings \ {x} :
        status'[m] = status[m] /\ suggested'[m] = suggested[m] /\ decided'[m] = decided[m]
  BY DEF PatchTask, TypeOK
<1>3. suggested'[x] = pending
  BY DEF PatchTask, TypeOK
<1>4. status'[x] = IF moved THEN (IF pending = {} THEN "done" ELSE "review") ELSE status[x]
  BY DEF PatchTask, TypeOK
<1>5. Exists(x) /\ t \in suggested[x] \cup decided[x]
  BY DEF PatchTask, Visible
<1>6. transcript[x]
  BY <1>5 DEF Honest, TasksHaveSource
<1>7. ReviewIsHonest'
  <2>1. \A m \in Meetings \ {x} :
          /\ status'[m] = "review" => transcript'[m] /\ (suggested'[m] # {} \/ ~ summary'[m])
          /\ status'[m] = "done" => suggested'[m] = {}
    BY <1>1, <1>2 DEF Honest, ReviewIsHonest
  <2>2. status'[x] = "review" => suggested'[x] # {}
    BY <1>3, <1>4
  <2>3. status'[x] = "done" => suggested'[x] = {}
    BY <1>3, <1>4
  <2>4. transcript'[x]
    BY <1>1, <1>6
  <2>5. QED
    BY <2>1, <2>2, <2>3, <2>4 DEF ReviewIsHonest
<1>8. TasksHaveSource'
  BY <1>1, <1>2, <1>6 DEF Honest, TasksHaveSource
<1>9. JobsHadMeetings'
  BY <1>1, <1>2, <1>4 DEF jobVars, Honest, JobsHadMeetings, Linked
<1>10. WorkIsFresh'
  <2> SUFFICES ASSUME NEW w \in Workers, wpc'[w] \in AtWork, Exists(Held(w))'
               PROVE  Fresh(w, Held(w))'
    BY DEF WorkIsFresh
  <2>1. UNCHANGED <<wpc, wjob, heard, jmeeting>>
    BY <1>1 DEF jobVars, workerVars
  <2>2. PICK m \in Meetings : m = Held(w)
    BY <2>1, HeldMeeting DEF Honest
  <2>3. Held(w)' = m
    BY <2>1, <2>2 DEF Held
  <2>4. Exists(m)
    BY <1>2, <1>5, <2>3 DEF Exists
  <2>5. Fresh(w, m)
    BY <2>1, <2>2, <2>4 DEF Honest, WorkIsFresh
  <2>6. CASE m = x
    <3>1. status'[m] \notin {"review", "done"}
      BY <1>4, <2>5, <2>6 DEF Fresh
    <3>2. wpc'[w] \notin {"extract", "save"}
      BY <1>5, <2>1, <2>5, <2>6 DEF Fresh, Empty
    <3>3. QED
      BY <2>3, <3>1, <3>2 DEF Fresh
  <2>7. CASE m # x
    BY <1>1, <1>2, <2>1, <2>3, <2>5, <2>7 DEF Fresh, Empty
  <2>8. QED
    BY <2>6, <2>7
<1>11. QED
  BY <1>7, <1>8, <1>9, <1>10 DEF Honest

(* The steps of the pipeline that write content change one meeting, the one *)
(* the only worker is on.                                                   *)
Writes(w, x) ==
    /\ wpc[w] \in AtWork /\ x = Held(w) /\ x \in Meetings
    /\ UNCHANGED jobVars /\ UNCHANGED wjob
    /\ \A m \in Meetings \ {x} :
         /\ status'[m] = status[m] /\ transcript'[m] = transcript[m] /\ summary'[m] = summary[m]
         /\ suggested'[m] = suggested[m] /\ decided'[m] = decided[m]

LEMMA WritesAreHonest ==
  ASSUME OneWorker, TypeOK, Linked, Honest, NEW w \in Workers, NEW x \in Meetings, Writes(w, x),
         status'[x] # "absent",
         status'[x] = "review" => transcript'[x] /\ (suggested'[x] # {} \/ ~ summary'[x]),
         status'[x] = "done" => suggested'[x] = {},
         suggested'[x] \cup decided'[x] # {} => transcript'[x],
         wpc'[w] \in AtWork /\ status'[x] \notin {"absent", "gone"} =>
           /\ status'[x] \notin {"review", "done"}
           /\ heard'[w] => transcript'[x]
           /\ ~ summary'[x] /\ suggested'[x] = {} /\ decided'[x] = {}
  PROVE  Honest'
<1>1. ReviewIsHonest'
  BY DEF Writes, Honest, ReviewIsHonest
<1>2. TasksHaveSource'
  BY DEF Writes, Honest, TasksHaveSource
<1>3. JobsHadMeetings'
  BY DEF Writes, jobVars, Honest, JobsHadMeetings, Linked
<1>4. WorkIsFresh'
  <2>1. \A v \in Workers : v = w
    BY DEF OneWorker
  <2>2. Held(w)' = x
    BY DEF Writes, jobVars, Held
  <2>3. wpc'[w] \in AtWork /\ Exists(Held(w))' => Fresh(w, Held(w))'
    BY <2>2 DEF Fresh, Empty, Exists
  <2>4. QED
    BY <2>1, <2>3 DEF WorkIsFresh
<1>5. QED
  BY <1>1, <1>2, <1>3, <1>4 DEF Honest

LEMMA StoreIsHonest ==
  ASSUME OneWorker, TypeOK, Linked, Honest, NEW w \in Workers,
         StoreTranscript(w) \/ RereadTranscript(w)
  PROVE  Honest'
<1>1. wpc[w] \in {"store", "reread"} /\ UNCHANGED <<status, jobVars, wjob>>
  BY DEF StoreTranscript, RereadTranscript
<1>2. PICK x \in Meetings : x = Held(w) /\ status[x] # "absent"
  BY <1>1, HeldMeeting DEF AtWork, Honest
<1>3. status[x] # "gone" => status[x] \notin {"review", "done"}
  BY <1>1, <1>2 DEF Honest, WorkIsFresh, Fresh, AtWork, Exists
<1>4. CASE StoreTranscript(w) /\ status[x] # "gone"
  <2>1. /\ transcript' = [transcript EXCEPT ![x] = heard[w]]
        /\ summary' = [summary EXCEPT ![x] = FALSE]
        /\ suggested' = [suggested EXCEPT ![x] = {}]
        /\ decided' = [decided EXCEPT ![x] = {}]
        /\ UNCHANGED heard
    BY <1>2, <1>4 DEF StoreTranscript, Exists
  <2>2. /\ heard'[w] => transcript'[x]
        /\ ~ summary'[x] /\ suggested'[x] = {} /\ decided'[x] = {}
    BY <2>1 DEF TypeOK
  <2>3. Writes(w, x)
    BY <1>1, <1>2, <2>1 DEF Writes, AtWork, TypeOK
  <2>4. QED
    BY <1>1, <1>2, <1>3, <1>4, <2>2, <2>3, WritesAreHonest
<1>5. CASE StoreTranscript(w) /\ status[x] = "gone"
  <2>1. UNCHANGED content
    BY <1>2, <1>5 DEF StoreTranscript, Exists
  <2>2. Writes(w, x)
    BY <1>1, <1>2, <2>1 DEF Writes, AtWork, content
  <2>3. suggested'[x] \cup decided'[x] # {} => transcript'[x]
    BY <2>1 DEF content, Honest, TasksHaveSource
  <2>4. QED
    BY <1>1, <1>5, <2>2, <2>3, WritesAreHonest
<1>6. CASE RereadTranscript(w)
  <2>1. /\ UNCHANGED transcript
        /\ summary' = [summary EXCEPT ![x] = FALSE]
        /\ suggested' = [suggested EXCEPT ![x] = {}]
        /\ decided' = [decided EXCEPT ![x] = {}]
        /\ heard' = [heard EXCEPT ![w] = transcript[x]]
    BY <1>2, <1>6 DEF RereadTranscript
  <2>2. /\ heard'[w] => transcript'[x]
        /\ ~ summary'[x] /\ suggested'[x] = {} /\ decided'[x] = {}
    BY <2>1 DEF TypeOK
  <2>3. Writes(w, x)
    BY <1>1, <1>2, <2>1 DEF Writes, AtWork, TypeOK
  <2>4. QED
    BY <1>1, <1>2, <1>3, <2>2, <2>3, WritesAreHonest
<1>7. QED
  BY <1>4, <1>5, <1>6

LEMMA SaveIsHonest ==
  ASSUME OneWorker, TypeOK, Linked, Honest, NEW w \in Workers,
         SaveNothing(w) \/ SaveSummary(w)
  PROVE  Honest'
<1>1. /\ wpc[w] = "save" /\ wpc' = [wpc EXCEPT ![w] = "finish"]
      /\ Exists(Held(w)) /\ UNCHANGED <<transcript, decided, jobVars, wjob, heard>>
  BY DEF SaveNothing, SaveSummary, content, Goto
<1>2. PICK x \in Meetings : x = Held(w)
  BY <1>1, HeldMeeting DEF AtWork, Honest
<1>3. (heard[w] => transcript[x]) /\ ~ summary[x] /\ suggested[x] = {} /\ decided[x] = {}
  BY <1>1, <1>2 DEF Honest, WorkIsFresh, Fresh, Empty, AtWork
<1>4. wpc'[w] \notin AtWork
  BY <1>1 DEF AtWork, TypeOK
<1>5. CASE SaveNothing(w)
  <2>1. UNCHANGED content /\ status' = [status EXCEPT ![x] = IF heard[w] THEN "review" ELSE "done"]
    BY <1>2, <1>5 DEF SaveNothing
  <2>2. status'[x] = IF heard[w] THEN "review" ELSE "done"
    BY <2>1 DEF TypeOK
  <2>3. Writes(w, x)
    BY <1>1, <1>2, <2>1 DEF Writes, AtWork, content, TypeOK
  <2>4. transcript'[x] = transcript[x] /\ summary'[x] = summary[x]
          /\ suggested'[x] = suggested[x] /\ decided'[x] = decided[x]
    BY <2>1 DEF content
  <2>5. status'[x] = "review" => transcript'[x] /\ (suggested'[x] # {} \/ ~ summary'[x])
    BY <1>3, <2>2, <2>4
  <2>6. status'[x] \in {"review", "done"} /\ suggested'[x] \cup decided'[x] = {}
    BY <1>3, <2>2, <2>4
  <2>7. QED
    BY <1>4, <2>3, <2>5, <2>6, WritesAreHonest
<1>6. CASE SaveSummary(w)
  <2>1. PICK new \in SUBSET Tasks :
          /\ summary' = [summary EXCEPT ![x] = TRUE]
          /\ suggested' = [suggested EXCEPT ![x] = @ \cup new]
          /\ status' = [status EXCEPT ![x] = IF new = {} THEN "done" ELSE "review"]
    BY <1>2, <1>6 DEF SaveSummary
  <2>2. suggested'[x] = new /\ status'[x] = IF new = {} THEN "done" ELSE "review"
    BY <1>3, <2>1 DEF TypeOK
  <2>3. heard[w]
    BY <1>6 DEF SaveSummary
  <2>4. transcript'[x]
    BY <1>1, <1>3, <2>3
  <2>5. Writes(w, x)
    BY <1>1, <1>2, <2>1 DEF Writes, AtWork, TypeOK
  <2>6. QED
    BY <1>4, <2>2, <2>4, <2>5, WritesAreHonest
<1>7. QED
  BY <1>5, <1>6

LEMMA HonestStep ==
  ASSUME OneWorker, TypeOK, Linked, PurgedStaysEmpty, Honest, [Next]_vars
  PROVE  Honest'
<1>1. CASE Aside
  BY <1>1, AsideIsHonest
<1>2. ASSUME NEW x \in Meetings \cup {None}, Purges(x) PROVE Honest'
  BY <1>2, PurgeIsHonest
<1>3. ASSUME NEW x \in Meetings, NEW t \in Tasks, NEW decide \in BOOLEAN, PatchTask(x, t, decide)
      PROVE  Honest'
  BY <1>3, PatchIsHonest
<1>4. ASSUME NEW w \in Workers, StoreTranscript(w) \/ RereadTranscript(w) PROVE Honest'
  BY <1>4, StoreIsHonest
<1>5. ASSUME NEW w \in Workers, SaveNothing(w) \/ SaveSummary(w) PROVE Honest'
  BY <1>5, SaveIsHonest
<1>6. CASE UNCHANGED vars
  BY <1>6, AsideIsHonest DEF Aside, vars, meetingVars, jobVars, workerVars
<1>7. CASE RequestNext \/ SweepStep
  BY <1>1, <1>2, <1>3, <1>7, RequestAside, SweepAside
<1>8. CASE WorkerNext
  BY <1>1, <1>4, <1>5, <1>8, WorkerAside DEF WorkerNext, RunJob, Pipeline
<1>9. QED
  BY <1>6, <1>7, <1>8 DEF Next

(* "review" promises a task to decide or a summary to retry, "done" that    *)
(* nothing is left: true at every moment with one worker, however decisions, *)
(* new jobs, purges and crashes fall between the pipeline's transactions.   *)
THEOREM ReviewTheorem ==
  ASSUME OneWorker
  PROVE  Spec => []ReviewIsHonest
<1>1. TypeOK /\ Linked /\ PurgedStaysEmpty /\ Honest /\ [Next]_vars => Honest'
  BY HonestStep
<1>2. Honest => ReviewIsHonest
  BY DEF Honest
<1>3. QED
  BY TypeCorrect, PurgeIsFinal, InitHonest, <1>1, <1>2, PTL DEF Spec

=============================================================================

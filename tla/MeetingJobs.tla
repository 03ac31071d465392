----------------------------- MODULE MeetingJobs -----------------------------
(***************************************************************************)
(* The life of a meeting on the server: the HTTP handlers that create,     *)
(* finish, process, trash, restore and purge it (api.py), the job table    *)
(* (jobs.py), the worker loop (worker.py) with the processing pipeline     *)
(* (pipeline.py), and the trash sweep (trash.py).                          *)
(*                                                                         *)
(* One action is one database transaction, or the code between two awaits  *)
(* of a handler: everything else may run in between.  Several requests are *)
(* in flight at once, each suspended at the await its record names.        *)
(***************************************************************************)
EXTENDS Naturals, FiniteSets

CONSTANTS
    Meetings,      \* meeting ids
    Tasks,         \* task ids one extraction can produce
    Workers,       \* worker processes
    Requests,      \* slots for HTTP requests in flight
    None,          \* no meeting
    MaxJobs,       \* bound: job rows ever created
    MaxAttempts,   \* jobs.MAX_ATTEMPTS
    TrashDays      \* Settings.trash_days: retention in the trash, 0 for no sweep

JobIds == 1..MaxJobs     \* in creation order, which is what created_at sorts by

ASSUME NoneAssumption == None \notin Meetings
ASSUME NumbersAssumption == MaxJobs \in Nat /\ MaxAttempts \in Nat \ {0} /\ TrashDays \in Nat

VARIABLES
    \* meetings: the row, its content, and its audio files
    status,        \* "absent" before creation, "gone" after a purge
    trash,         \* deleted_at: "no", "trash", or "old" (past the retention cutoff)
    transcript,    \* segments are stored
    summary,       \* a summary row is stored
    suggested,     \* tasks nobody has decided yet
    decided,       \* tasks the user confirmed or rejected
    audio,         \* the storage holds a file
    \* jobs
    jstatus, jmeeting, jkind, attempts,
    \* workers: where run_forever/run_once is, the job it holds, whether rows is non-empty
    wpc, wjob, heard,
    \* requests in flight, and the sweep
    req, sweep

content == <<transcript, summary, suggested, decided>>
meetingVars == <<status, trash, content, audio>>
jobVars == <<jstatus, jmeeting, jkind, attempts>>
workerVars == <<wpc, wjob, heard>>
vars == <<meetingVars, jobVars, workerVars, req, sweep>>

-----------------------------------------------------------------------------
MeetingStates == {"absent", "recording", "recorded", "queued", "processing",
                  "review", "done", "failed", "gone"}
JobStates == {"none", "queued", "running", "done", "failed", "removed"}
Kinds == {"process", "extract"}

(* Where a worker can be.  Working: it holds a claimed job that it has not  *)
(* reported on yet.                                                         *)
Working == {"mark", "load", "transcribe", "store", "reread", "extract", "save",
            "finish", "fail"}
WorkerPoints == Working \cup {"down", "boot", "idle", "claim", "blame"}

RequestPoints == {"idle", "finish", "upload", "select", "insert", "files", "rows"}
Request == [at : RequestPoints, meeting : Meetings \cup {None}, kind : Kinds]
NoRequest == [at |-> "idle", meeting |-> None, kind |-> "process"]

Sweep == [at : {"idle", "next", "files", "rows"}, todo : SUBSET Meetings,
          on : Meetings \cup {None}]
NoSweep == [at |-> "idle", todo |-> {}, on |-> None]

Exists(m) == status[m] \notin {"absent", "gone"}
Visible(m) == Exists(m) /\ trash[m] = "no"      \* what _meeting() returns

Active(j) == jstatus[j] \in {"queued", "running"}
JobsOf(m) == {j \in JobIds : jstatus[j] # "none" /\ jmeeting[j] = m}
Running(m) == \E j \in JobsOf(m) : jstatus[j] = "running"

Init ==
    /\ status = [m \in Meetings |-> "absent"]
    /\ trash = [m \in Meetings |-> "no"]
    /\ transcript = [m \in Meetings |-> FALSE]
    /\ summary = [m \in Meetings |-> FALSE]
    /\ suggested = [m \in Meetings |-> {}]
    /\ decided = [m \in Meetings |-> {}]
    /\ audio = [m \in Meetings |-> FALSE]
    /\ jstatus = [j \in JobIds |-> "none"]
    /\ jmeeting = [j \in JobIds |-> None]
    /\ jkind = [j \in JobIds |-> "process"]
    /\ attempts = [j \in JobIds |-> 0]
    /\ wpc = [w \in Workers |-> "down"]
    /\ wjob = [w \in Workers |-> 0]
    /\ heard = [w \in Workers |-> FALSE]
    /\ req = [r \in Requests |-> NoRequest]
    /\ sweep = NoSweep

-----------------------------------------------------------------------------
(* Requests *)

Suspend(r, point, m, kind) ==
    /\ req[r].at = "idle"
    /\ req' = [req EXCEPT ![r] = [at |-> point, meeting |-> m, kind |-> kind]]

Reply(r) == req' = [req EXCEPT ![r] = NoRequest]

(* The client goes away, or the API process does: what is not committed is lost. *)
Abandon(r) ==
    /\ req[r].at # "idle"
    /\ Reply(r)
    /\ UNCHANGED <<meetingVars, jobVars, workerVars, sweep>>

CreateMeeting(m) ==
    /\ status[m] = "absent"
    /\ status' = [status EXCEPT ![m] = "recording"]
    /\ UNCHANGED <<trash, content, audio, jobVars, workerVars, req, sweep>>

UploadRead(r, m) ==
    /\ Visible(m)
    /\ Suspend(r, "upload", m, "process")
    /\ UNCHANGED <<meetingVars, jobVars, workerVars, sweep>>

UploadWrite(r) ==
    /\ req[r].at = "upload"
    /\ audio' = [audio EXCEPT ![req[r].meeting] = TRUE]
    /\ Reply(r)
    /\ UNCHANGED <<status, trash, content, jobVars, workerVars, sweep>>

FinishRead(r, m) ==
    /\ Visible(m)
    /\ status[m] = "recording"
    /\ Suspend(r, "finish", m, "process")
    /\ UNCHANGED <<meetingVars, jobVars, workerVars, sweep>>

(* The UPDATE names the row alone; a row purged meanwhile makes it fail. *)
FinishWrite(r) ==
    /\ req[r].at = "finish"
    /\ LET m == req[r].meeting IN
       status' = [status EXCEPT ![m] = IF Exists(m) THEN "recorded" ELSE @]
    /\ Reply(r)
    /\ UNCHANGED <<trash, content, audio, jobVars, workerVars, sweep>>

ProcessRead(r, m, kind) ==
    /\ Visible(m)
    /\ status[m] # "recording"
    /\ kind = "extract" => transcript[m]
    /\ Suspend(r, "select", m, kind)
    /\ UNCHANGED <<meetingVars, jobVars, workerVars, sweep>>

EnqueueSelect(r) ==
    /\ req[r].at = "select"
    /\ IF \E j \in JobsOf(req[r].meeting) : Active(j)
         THEN Reply(r)
         ELSE req' = [req EXCEPT ![r].at = "insert"]
    /\ UNCHANGED <<meetingVars, jobVars, workerVars, sweep>>

(* The row lands wherever the queue ends now; the SELECT is not repeated. *)
EnqueueInsert(r) ==
    /\ req[r].at = "insert"
    /\ LET m == req[r].meeting IN
       IF Exists(m)
         THEN \E j \in JobIds :
                /\ jstatus[j] = "none"
                /\ \A i \in JobIds : i < j => jstatus[i] # "none"
                /\ jstatus' = [jstatus EXCEPT ![j] = "queued"]
                /\ jmeeting' = [jmeeting EXCEPT ![j] = m]
                /\ jkind' = [jkind EXCEPT ![j] = req[r].kind]
                /\ status' = [status EXCEPT ![m] = "queued"]
         ELSE UNCHANGED <<jstatus, jmeeting, jkind, status>>   \* foreign key error
    /\ Reply(r)
    /\ UNCHANGED <<trash, content, audio, attempts, workerVars, sweep>>

SoftDelete(m) ==
    /\ Visible(m)
    /\ trash' = [trash EXCEPT ![m] = "trash"]
    /\ UNCHANGED <<status, content, audio, jobVars, workerVars, req, sweep>>

Restore(m) ==
    /\ Exists(m)
    /\ trash[m] # "no"
    /\ trash' = [trash EXCEPT ![m] = "no"]
    /\ UNCHANGED <<status, content, audio, jobVars, workerVars, req, sweep>>

(* The retention period passes. *)
Age(m) ==
    /\ TrashDays > 0
    /\ Exists(m)
    /\ trash[m] = "trash"
    /\ trash' = [trash EXCEPT ![m] = "old"]
    /\ UNCHANGED <<status, content, audio, jobVars, workerVars, req, sweep>>

(* Variant: taking a decision back does not re-open the review.              *)
PatchTaskNeverReopens(m, t, decide) ==
    /\ Visible(m)
    /\ t \in suggested[m] \cup decided[m]
    /\ LET pending == IF decide THEN suggested[m] \ {t} ELSE suggested[m] \cup {t} IN
       /\ suggested' = [suggested EXCEPT ![m] = pending]
       /\ decided' = [decided EXCEPT ![m] = IF decide THEN @ \cup {t} ELSE @ \ {t}]
       /\ status' = [status EXCEPT ![m] = IF @ = "review" /\ pending = {} THEN "done" ELSE @]
    /\ UNCHANGED <<trash, transcript, summary, audio, jobVars, workerVars, req, sweep>>

(* A decision on one task, or an edit that leaves its decision as it is. *)
PatchTask(m, t, decide) ==
    /\ Visible(m)
    /\ t \in suggested[m] \cup decided[m]
    /\ LET pending == IF decide THEN suggested[m] \ {t} ELSE suggested[m] \cup {t} IN
       /\ suggested' = [suggested EXCEPT ![m] = pending]
       /\ decided' = [decided EXCEPT ![m] = IF decide THEN @ \cup {t} ELSE @ \ {t}]
       /\ status' = [status EXCEPT ![m] =
                       IF @ \in {"review", "done"}
                         THEN IF pending = {} THEN "done" ELSE "review"
                         ELSE @]
    /\ UNCHANGED <<trash, transcript, summary, audio, jobVars, workerVars, req, sweep>>

-----------------------------------------------------------------------------
(* Purge: on request, and by the sweep *)

RemoveRows(m) ==
    /\ status' = [status EXCEPT ![m] = "gone"]
    /\ trash' = [trash EXCEPT ![m] = "no"]
    /\ transcript' = [transcript EXCEPT ![m] = FALSE]
    /\ summary' = [summary EXCEPT ![m] = FALSE]
    /\ suggested' = [suggested EXCEPT ![m] = {}]
    /\ decided' = [decided EXCEPT ![m] = {}]
    /\ jstatus' = [j \in JobIds |-> IF j \in JobsOf(m) THEN "removed" ELSE jstatus[j]]
    /\ UNCHANGED <<audio, jmeeting, jkind, attempts>>

PurgeCheck(r, m) ==
    /\ Exists(m)
    /\ ~ Running(m)         \* else Busy
    /\ Suspend(r, "files", m, "process")
    /\ UNCHANGED <<meetingVars, jobVars, workerVars, sweep>>

PurgeFiles(r) ==
    /\ req[r].at = "files"
    /\ audio' = [audio EXCEPT ![req[r].meeting] = FALSE]
    /\ req' = [req EXCEPT ![r].at = "rows"]
    /\ UNCHANGED <<status, trash, content, jobVars, workerVars, sweep>>

PurgeRows(r) ==
    /\ req[r].at = "rows"
    /\ RemoveRows(req[r].meeting)
    /\ Reply(r)
    /\ UNCHANGED <<workerVars, sweep>>

SweepAfter(todo) ==
    IF todo = {} THEN NoSweep ELSE [at |-> "next", todo |-> todo, on |-> None]

SweepLoad ==
    /\ TrashDays > 0
    /\ sweep.at = "idle"
    /\ sweep' = SweepAfter({m \in Meetings : Exists(m) /\ trash[m] = "old"})
    /\ UNCHANGED <<meetingVars, jobVars, workerVars, req>>

SweepNext(m) ==
    /\ sweep.at = "next"
    /\ m \in sweep.todo
    /\ sweep' = IF Running(m)
                  THEN SweepAfter(sweep.todo \ {m})      \* Busy: next sweep
                  ELSE [at |-> "files", todo |-> sweep.todo \ {m}, on |-> m]
    /\ UNCHANGED <<meetingVars, jobVars, workerVars, req>>

SweepFiles ==
    /\ sweep.at = "files"
    /\ audio' = [audio EXCEPT ![sweep.on] = FALSE]
    /\ sweep' = [sweep EXCEPT !.at = "rows"]
    /\ UNCHANGED <<status, trash, content, jobVars, workerVars, req>>

SweepRows ==
    /\ sweep.at = "rows"
    /\ RemoveRows(sweep.on)
    /\ sweep' = SweepAfter(sweep.todo)
    /\ UNCHANGED <<workerVars, req>>

(* The storage fails, or the process dies.  The rollback expires every row  *)
(* the sweep had loaded, so the rest of its list is given up as well.       *)
SweepFails ==
    /\ sweep.at # "idle"
    /\ sweep' = NoSweep
    /\ UNCHANGED <<meetingVars, jobVars, workerVars, req>>

-----------------------------------------------------------------------------
(* Worker *)

Goto(w, point) == wpc' = [wpc EXCEPT ![w] = point]
Held(w) == jmeeting[wjob[w]]     \* the meeting of the job w holds

SetJob(w, outcome) ==            \* an UPDATE by job id: a removed row stays removed
    jstatus' = [jstatus EXCEPT ![wjob[w]] = IF @ = "removed" THEN @ ELSE outcome]

Start(w) ==
    /\ wpc[w] = "down"
    /\ Goto(w, "boot")
    /\ UNCHANGED <<meetingVars, jobVars, wjob, heard, req, sweep>>

(* The process dies, at any point: native crash, out of memory, shutdown. *)
Crash(w) ==
    /\ wpc[w] # "down"
    /\ Goto(w, "down")
    /\ wjob' = [wjob EXCEPT ![w] = 0]
    /\ heard' = [heard EXCEPT ![w] = FALSE]
    /\ UNCHANGED <<meetingVars, jobVars, req, sweep>>

(* Variant: one attempt too many.                                            *)
PoisonedLate == {j \in JobIds : jstatus[j] = "running" /\ attempts[j] > MaxAttempts}

Poisoned == {j \in JobIds : jstatus[j] = "running" /\ attempts[j] >= MaxAttempts}

(* Variant: fails what is poisoned and forgets to requeue the rest.          *)
RecoverPoisonedOnly(w) ==
    /\ wpc[w] = "boot"
    /\ jstatus' = [j \in JobIds |-> IF j \in Poisoned THEN "failed" ELSE jstatus[j]]
    /\ status' = [m \in Meetings |->
                    IF \E j \in Poisoned : jmeeting[j] = m THEN "failed" ELSE status[m]]
    /\ Goto(w, "idle")
    /\ UNCHANGED <<trash, content, audio, jmeeting, jkind, attempts, wjob, heard, req, sweep>>

(* Variant: the poisoned job is failed, its meeting is not told.             *)
RecoverJobsOnly(w) ==
    /\ wpc[w] = "boot"
    /\ jstatus' = [j \in JobIds |->
                     IF j \in Poisoned THEN "failed"
                     ELSE IF jstatus[j] = "running" THEN "queued"
                     ELSE jstatus[j]]
    /\ Goto(w, "idle")
    /\ UNCHANGED <<meetingVars, jmeeting, jkind, attempts, wjob, heard, req, sweep>>

Recover(w) ==
    /\ wpc[w] = "boot"
    /\ jstatus' = [j \in JobIds |->
                     IF j \in Poisoned THEN "failed"
                     ELSE IF jstatus[j] = "running" THEN "queued"
                     ELSE jstatus[j]]
    /\ status' = [m \in Meetings |->
                    IF \E j \in Poisoned : jmeeting[j] = m THEN "failed" ELSE status[m]]
    /\ Goto(w, "idle")
    /\ UNCHANGED <<trash, content, audio, jmeeting, jkind, attempts, wjob, heard, req, sweep>>

SelectJob(w) ==
    /\ wpc[w] = "idle"
    /\ \E j \in JobIds :
         /\ jstatus[j] = "queued"
         /\ \A i \in JobIds : jstatus[i] = "queued" => j <= i
         /\ wjob' = [wjob EXCEPT ![w] = j]
    /\ Goto(w, "claim")
    /\ UNCHANGED <<meetingVars, jobVars, heard, req, sweep>>

(* Variant: the UPDATE does not repeat the condition of the SELECT.          *)
ClaimJobUnchecked(w) ==
    /\ wpc[w] = "claim"
    /\ jstatus' = [jstatus EXCEPT ![wjob[w]] = "running"]
    /\ attempts' = [attempts EXCEPT ![wjob[w]] = @ + 1]
    /\ Goto(w, "mark")
    /\ UNCHANGED <<meetingVars, jmeeting, jkind, wjob, heard, req, sweep>>

(* Variant: the word that the meeting's row gets goes into the job's row, too. *)
ClaimJobProcessing(w) ==
    /\ wpc[w] = "claim"
    /\ LET j == wjob[w] IN
       IF jstatus[j] = "queued"
         THEN /\ jstatus' = [jstatus EXCEPT ![j] = "processing"]
              /\ attempts' = [attempts EXCEPT ![j] = @ + 1]
              /\ Goto(w, "mark")
              /\ UNCHANGED wjob
         ELSE /\ Goto(w, "idle")
              /\ wjob' = [wjob EXCEPT ![w] = 0]
              /\ UNCHANGED <<jstatus, attempts>>
    /\ UNCHANGED <<meetingVars, jmeeting, jkind, heard, req, sweep>>

(* Variant: the attempt is not counted.                                      *)
ClaimJobUncounted(w) ==
    /\ wpc[w] = "claim"
    /\ LET j == wjob[w] IN
       IF jstatus[j] = "queued"
         THEN /\ jstatus' = [jstatus EXCEPT ![j] = "running"]
              /\ Goto(w, "mark")
              /\ UNCHANGED wjob
         ELSE /\ Goto(w, "idle")
              /\ wjob' = [wjob EXCEPT ![w] = 0]
              /\ UNCHANGED jstatus
    /\ UNCHANGED <<meetingVars, jmeeting, jkind, attempts, heard, req, sweep>>

(* The conditional UPDATE: rowcount 1, or another round. *)
ClaimJob(w) ==
    /\ wpc[w] = "claim"
    /\ LET j == wjob[w] IN
       IF jstatus[j] = "queued"
         THEN /\ jstatus' = [jstatus EXCEPT ![j] = "running"]
              /\ attempts' = [attempts EXCEPT ![j] = @ + 1]
              /\ Goto(w, "mark")
              /\ UNCHANGED wjob
         ELSE /\ Goto(w, "idle")
              /\ wjob' = [wjob EXCEPT ![w] = 0]
              /\ UNCHANGED <<jstatus, attempts>>
    /\ UNCHANGED <<meetingVars, jmeeting, jkind, heard, req, sweep>>

(* The row was purged between the UPDATE and the s.get that returns it. *)
ClaimLost(w) ==
    /\ wpc[w] = "mark"
    /\ jstatus[wjob[w]] = "removed"
    /\ Goto(w, "idle")
    /\ wjob' = [wjob EXCEPT ![w] = 0]
    /\ UNCHANGED <<meetingVars, jobVars, heard, req, sweep>>

(* The row is read, then written.  A purge between the two makes the commit *)
(* raise outside the try (no row matched), which ends the worker's task:    *)
(* that is Crash, from which only a new start of the process recovers.      *)
MarkProcessing(w) ==
    /\ wpc[w] = "mark"
    /\ status' = [status EXCEPT ![Held(w)] = IF Exists(Held(w)) THEN "processing" ELSE @]
    /\ Goto(w, "load")
    /\ UNCHANGED <<trash, content, audio, jobVars, wjob, heard, req, sweep>>

LoadMeeting(w) ==
    /\ wpc[w] = "load"
    /\ Goto(w, IF ~ Exists(Held(w)) THEN "fail"
               ELSE IF jkind[wjob[w]] = "extract" THEN "reread" ELSE "transcribe")
    /\ UNCHANGED <<meetingVars, jobVars, wjob, heard, req, sweep>>

(* No audio, or an engine raises; otherwise something was heard or nothing was. *)
Transcribe(w) ==
    /\ wpc[w] = "transcribe"
    /\ \/ /\ Goto(w, "fail")
          /\ UNCHANGED heard
       \/ /\ audio[Held(w)]
          /\ Goto(w, "store")
          /\ \E some \in BOOLEAN : heard' = [heard EXCEPT ![w] = some]
    /\ UNCHANGED <<meetingVars, jobVars, wjob, req, sweep>>

(* Variant: rows are written whether or not their meeting is still there    *)
(* (foreign keys not enforced).                                             *)
StoreTranscriptUnkeyed(w) ==
    /\ wpc[w] = "store"
    /\ transcript' = [transcript EXCEPT ![Held(w)] = heard[w]]
    /\ summary' = [summary EXCEPT ![Held(w)] = FALSE]
    /\ suggested' = [suggested EXCEPT ![Held(w)] = {}]
    /\ decided' = [decided EXCEPT ![Held(w)] = {}]
    /\ Goto(w, "extract")
    /\ UNCHANGED <<status, trash, audio, jobVars, wjob, heard, req, sweep>>

(* Replaces the transcript and drops what was derived from the old one. *)
StoreTranscript(w) ==
    /\ wpc[w] = "store"
    /\ LET m == Held(w) IN
       IF Exists(m)
         THEN /\ transcript' = [transcript EXCEPT ![m] = heard[w]]
              /\ summary' = [summary EXCEPT ![m] = FALSE]
              /\ suggested' = [suggested EXCEPT ![m] = {}]
              /\ decided' = [decided EXCEPT ![m] = {}]
              /\ Goto(w, "extract")
         ELSE /\ Goto(w, IF heard[w] THEN "fail" ELSE "extract")   \* foreign key error
              /\ UNCHANGED content
    /\ UNCHANGED <<status, trash, audio, jobVars, wjob, heard, req, sweep>>

(* A summary-only job keeps the transcript. *)
RereadTranscript(w) ==
    /\ wpc[w] = "reread"
    /\ LET m == Held(w) IN
       /\ summary' = [summary EXCEPT ![m] = FALSE]
       /\ suggested' = [suggested EXCEPT ![m] = {}]
       /\ decided' = [decided EXCEPT ![m] = {}]
       /\ heard' = [heard EXCEPT ![w] = transcript[m]]
       /\ Goto(w, IF transcript[m] THEN "extract" ELSE "fail")
    /\ UNCHANGED <<status, trash, transcript, audio, jobVars, wjob, req, sweep>>

(* With nothing heard no model is called; an LlmError is an outcome of SaveResult. *)
Extract(w) ==
    /\ wpc[w] = "extract"
    /\ \E point \in {"save"} \cup (IF heard[w] THEN {"fail"} ELSE {}) : Goto(w, point)
    /\ UNCHANGED <<meetingVars, jobVars, wjob, heard, req, sweep>>

(* The meeting row is gone, or its summary was stored by another run. *)
SaveFails(w) ==
    /\ wpc[w] = "save"
    /\ ~ Exists(Held(w)) \/ (heard[w] /\ summary[Held(w)])
    /\ Goto(w, "fail")
    /\ UNCHANGED <<meetingVars, jobVars, wjob, heard, req, sweep>>

(* result is None: nothing was heard, or the LLM failed and the retry stays open. *)
SaveNothing(w) ==
    /\ wpc[w] = "save"
    /\ Exists(Held(w))
    /\ status' = [status EXCEPT ![Held(w)] = IF heard[w] THEN "review" ELSE "done"]
    /\ Goto(w, "finish")
    /\ UNCHANGED <<trash, content, audio, jobVars, wjob, heard, req, sweep>>

SaveSummary(w) ==
    /\ wpc[w] = "save"
    /\ heard[w]
    /\ Exists(Held(w))
    /\ ~ summary[Held(w)]
    /\ LET m == Held(w) IN
       \E new \in SUBSET (Tasks \ (suggested[m] \cup decided[m])) :
         /\ summary' = [summary EXCEPT ![m] = TRUE]
         /\ suggested' = [suggested EXCEPT ![m] = @ \cup new]
         /\ status' = [status EXCEPT ![m] = IF new = {} THEN "done" ELSE "review"]
    /\ Goto(w, "finish")
    /\ UNCHANGED <<trash, transcript, decided, audio, jobVars, wjob, heard, req, sweep>>

LetGo(w, point) ==
    /\ Goto(w, point)
    /\ wjob' = [wjob EXCEPT ![w] = IF point = "idle" THEN 0 ELSE @]
    /\ heard' = [heard EXCEPT ![w] = FALSE]

FinishJob(w) ==
    /\ wpc[w] = "finish"
    /\ SetJob(w, "done")
    /\ LetGo(w, "idle")
    /\ UNCHANGED <<meetingVars, jmeeting, jkind, attempts, req, sweep>>

(* finish() tells failure by a non-empty error: an exception without a      *)
(* message (a bare MemoryError or TimeoutError) is recorded as "done".      *)
FailJob(w) ==
    /\ wpc[w] = "fail"
    /\ \E outcome \in {"failed", "done"} : SetJob(w, outcome)
    /\ LetGo(w, "blame")
    /\ UNCHANGED <<meetingVars, jmeeting, jkind, attempts, req, sweep>>

(* The meeting is told in a transaction of its own; a purge between its      *)
(* read and its commit is Crash, as in MarkProcessing.                      *)
FailMeeting(w) ==
    /\ wpc[w] = "blame"
    /\ status' = [status EXCEPT ![Held(w)] = IF Exists(Held(w)) THEN "failed" ELSE @]
    /\ LetGo(w, "idle")
    /\ UNCHANGED <<trash, content, audio, jobVars, req, sweep>>

Pipeline(w) ==
    \/ LoadMeeting(w) \/ Transcribe(w) \/ StoreTranscript(w) \/ RereadTranscript(w)
    \/ Extract(w) \/ SaveFails(w) \/ SaveNothing(w) \/ SaveSummary(w)

RunJob(w) ==
    \/ ClaimLost(w) \/ MarkProcessing(w) \/ Pipeline(w)
    \/ FinishJob(w) \/ FailJob(w) \/ FailMeeting(w)

-----------------------------------------------------------------------------
RequestNext ==
    \/ \E r \in Requests :
         \/ Abandon(r) \/ UploadWrite(r) \/ FinishWrite(r)
         \/ EnqueueSelect(r) \/ EnqueueInsert(r) \/ PurgeFiles(r) \/ PurgeRows(r)
         \/ \E m \in Meetings :
              \/ UploadRead(r, m) \/ FinishRead(r, m) \/ PurgeCheck(r, m)
              \/ \E kind \in Kinds : ProcessRead(r, m, kind)
    \/ \E m \in Meetings :
         \/ CreateMeeting(m) \/ SoftDelete(m) \/ Restore(m) \/ Age(m)
         \/ \E t \in Tasks, decide \in BOOLEAN : PatchTask(m, t, decide)

SweepStep ==
    \/ SweepLoad \/ SweepFiles \/ SweepRows \/ SweepFails
    \/ \E m \in Meetings : SweepNext(m)

WorkerNext ==
    \E w \in Workers :
      Start(w) \/ Crash(w) \/ Recover(w) \/ SelectJob(w) \/ ClaimJob(w) \/ RunJob(w)

Next == RequestNext \/ SweepStep \/ WorkerNext

Spec == Init /\ [][Next]_vars

(* A worker that is down is started again (service manager, desktop app),   *)
(* and one that runs keeps running its job.  Crashes come at any time and   *)
(* without limit: strong fairness says only that a worker started over and  *)
(* over gets past its first three statements some time.  Clients, users,    *)
(* the clock and the sweep owe nothing.                                     *)
WorkerFairness(w) ==
    /\ WF_vars(Start(w)) /\ WF_vars(RunJob(w))
    /\ SF_vars(Recover(w)) /\ SF_vars(SelectJob(w)) /\ SF_vars(ClaimJob(w))

FairSpec == Spec /\ \A w \in Workers : WorkerFairness(w)

-----------------------------------------------------------------------------
(* The types; a job's row holds the words of models.py:217 and none of a     *)
(* meeting's (both columns take any string); a task is in one set, the two   *)
(* standing for its one status column.                                       *)
TypeOK ==
    /\ status \in [Meetings -> MeetingStates]
    /\ trash \in [Meetings -> {"no", "trash", "old"}]
    /\ transcript \in [Meetings -> BOOLEAN]
    /\ summary \in [Meetings -> BOOLEAN]
    /\ suggested \in [Meetings -> SUBSET Tasks]
    /\ decided \in [Meetings -> SUBSET Tasks]
    /\ \A m \in Meetings : suggested[m] \cap decided[m] = {}
    /\ audio \in [Meetings -> BOOLEAN]
    /\ jstatus \in [JobIds -> JobStates]
    /\ jmeeting \in [JobIds -> Meetings \cup {None}]
    /\ jkind \in [JobIds -> Kinds]
    /\ attempts \in [JobIds -> Nat]
    /\ wpc \in [Workers -> WorkerPoints]
    /\ wjob \in [Workers -> JobIds \cup {0}]
    /\ heard \in [Workers -> BOOLEAN]
    /\ req \in [Requests -> Request]
    /\ sweep \in Sweep

(* References hold: a job row names a meeting, a worker with a job to work  *)
(* on or to report on names a row, a request under way names a meeting.     *)
(* With TypeOK it carries every inductive proof of MeetingJobsProofs.       *)
Linked ==
    /\ \A j \in JobIds : jstatus[j] # "none" => jmeeting[j] \in Meetings
    /\ \A w \in Workers : wpc[w] \in Working \cup {"claim", "blame"} =>
         wjob[w] \in JobIds /\ jstatus[wjob[w]] # "none"
    /\ \A r \in Requests : req[r].at # "idle" => req[r].meeting \in Meetings

(* No job is left "running" with nobody to finish it: a worker is at work   *)
(* on it, or some worker has yet to start and will put it back              *)
(* (recover_abandoned), however claims, crashes and purges interleave.      *)
RunningJobHasWorker ==
    \A j \in JobIds : jstatus[j] = "running" =>
      \E w \in Workers : \/ wpc[w] \in Working /\ wjob[w] = j
                         \/ wpc[w] \in {"down", "boot"}

(* A job that kills its process is run MAX_ATTEMPTS times at most: it is    *)
(* never queued for one attempt more (claim_next, recover_abandoned).       *)
AttemptsBounded ==
    \A j \in JobIds : /\ attempts[j] <= MaxAttempts
                      /\ jstatus[j] = "queued" => attempts[j] < MaxAttempts

(* A meeting shown as waiting in the queue has a job that will move it on:  *)
(* enqueue, the worker and recover_abandoned write the two tables in        *)
(* separate statements, and two requests may enqueue at once.               *)
QueuedMeetingHasJob ==
    \A m \in Meetings : status[m] = "queued" => \E j \in JobsOf(m) : Active(j)

(* "review" means there is something left to do, a task to decide or a      *)
(* summary to retry from the stored transcript, and "done" that nothing is: *)
(* the pipeline's last transaction and patch_task agree on it.              *)
ReviewIsHonest ==
    \A m \in Meetings :
      /\ status[m] = "review" => transcript[m] /\ (suggested[m] # {} \/ ~ summary[m])
      /\ status[m] = "done" => suggested[m] = {}

(* A purge is final: whatever the worker, the sweep and the requests had     *)
(* under way for the meeting, none of them brings a row of it back.          *)
PurgedStaysEmpty ==
    \A m \in Meetings : status[m] = "gone" =>
      /\ ~ transcript[m] /\ ~ summary[m]
      /\ suggested[m] = {} /\ decided[m] = {}
      /\ \A j \in JobsOf(m) : jstatus[j] = "removed"

(* What the safety properties above need to be inductive.  A row that does  *)
(* not exist yet was never taken.  A meeting in the queue has a job whose   *)
(* holders, if any, have not come further than claiming it: their next      *)
(* statement takes the meeting out of the queue.                            *)
JobInvariant ==
    /\ Linked
    /\ \A j \in JobIds : jstatus[j] = "none" => attempts[j] = 0
    /\ \A m \in Meetings : status[m] = "queued" =>
         \E j \in JobsOf(m) :
           /\ Active(j)
           /\ \A w \in Workers : wpc[w] \in Working \cup {"blame"} /\ wjob[w] = j
                                  => wpc[w] = "mark"

Life == INSTANCE JobLife WITH Jobs <- JobIds, life <- jstatus, tries <- attempts

(* With one worker the job table behaves as JobLife says: one job at a      *)
(* time, outcomes that stay, attempts that are counted.                     *)
LifeSpec == Life!LifeSpec

(* Every job that is queued ends, or is purged with its meeting, however    *)
(* often the worker crashes.                                                *)
EveryJobEnds ==
    \A j \in JobIds : Active(j) ~> ~ Active(j)

(* No meeting waits in the queue for ever.                                  *)
QueuedMeetingMoves ==
    \A m \in Meetings : (status[m] = "queued") ~> (status[m] # "queued")

(* Refuted.  enqueue's docstring: a double click returns the job in flight, *)
(* two jobs on one meeting would corrupt it (jobs.py:12).                    *)
OneActiveJob ==
    \A m \in Meetings : \A i, j \in JobsOf(m) : Active(i) /\ Active(j) => i = j

=============================================================================

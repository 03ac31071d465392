# Rekamind: specifications

TLA+ specifications of Rekamind, the meeting recorder with its processing server: what the parts
of the program promise each other when requests, worker, sweeps and crashes interleave. Paths
below are relative to the repository (`src/`); `jobs.py` and the like are in
`src/server/rekamind_server/`.

Contents: [the system](#the-system), [modules](#modules), [how the model corresponds to the
code](#how-the-model-corresponds-to-the-code), [runs](#runs), [proofs](#proofs), [disagreements
found](#disagreements-found), [not modelled](#not-modelled), [plan](#plan).

## The system

A desktop application (Tauri shell, Rust recorder) records a meeting into two WAV files, uploads
them to a server and asks it to process them. The server (FastAPI, SQLAlchemy; SQLite by default,
Postgres in a team installation) keeps meetings, queues jobs, and runs them one after the other in
a worker: speech recognition, speaker separation, and one or more LLM calls that produce a summary
and tasks. A person then confirms or rejects the tasks in the web client and may push the
confirmed ones to a webhook, GitHub or GitLab.

| Component | State | Operations | Hard because | Correct when |
| --- | --- | --- | --- | --- |
| Job queue, `jobs.py` | `jobs` rows: status, kind, attempts | enqueue, claim_next, finish, recover_abandoned | SELECT and UPDATE are apart; crashes leave rows behind | one outcome per job, attempts bounded, no job or meeting forgotten |
| Worker, `worker.py` | the job in hand | run_forever, run_once | may die at every await; reports in two transactions | every queued job ends |
| Pipeline, `pipeline.py` | transcript, summary, tasks of a meeting | run_process_job and its stages | minutes pass between its transactions | status says what is left to do; nothing is written for a purged meeting |
| Trash, `trash.py` | `deleted_at`, audio | soft delete, restore, purge, sweep | check, file deletion and row deletion are apart | a purge is final and spares running jobs |
| Meeting API, `api.py` | meeting status, tasks | create, upload, finish, process, patch_task | many requests at once | see above |
| Audio storage, `storage.py` | files or S3 objects, local cache | save, path, release, delete | shared temporary file, cache dropped under a reader | a reader gets a whole file |
| Task push, `integrations.py` | `task_links` rows, the remote issues | push_tasks, update, create | remote call and link row cannot be one transaction | a task is sent once |
| Accounts and sign-in, `auth/` | users, sessions, flows, codes | login, callback, redeem, patch_user | single use, check-then-act on the last administrator | a code works once; an administrator remains |
| Desktop controller, `recorder/src/controller.rs` | recording, upload, local backend | start, stop, retry, discard, ensure_backend | commands from several threads | nothing heavy runs during a recording; no recording is lost |
| Local backend, `recorder/src/local_backend.rs` | child process, idle clock | ensure, stop, stop_if_idle, idle_tick | health answers age while acted on | a busy backend is not killed |
| Uploader, `recorder/src/uploader.rs` | none | upload_meeting | lost answers, retries | one recording, one meeting |
| Recording session, `session.rs`, `sink.rs`, `wav.rs` | WAV header and samples | push, set_state, close, recover | a kill between two writes | what was recorded can be read back |
| LLM client, `engines/llm.py` | nothing between calls; within one the chunks, retries, parts | extract | the service refuses, truncates, is busy, answers nonsense | no line is dropped silently; it ends |
| Speech engines, `engines/` | a loaded model | transcribe, release, prepare_model | memory runs out at any time; models are files that other processes write | a recording is transcribed or fails; what is loaded is whole |
| Engine installation, `enginepack.py`, `engine_assets.py` | files, `installed.json` | install, warmup, download | several processes share the folder and stop anywhere | what is found is complete |
| Speaker labels, `pipeline.py`; deadlines, `deadlines.py` | none | label_segments, speaker_at, resolve_deadline | tolerances, rounding, ends of months | a cut is a real turn; a date is the one meant |

The parts meet in few places. The API and the worker share the database and the storage only:
`enqueue` puts a row in the queue and marks the meeting, the worker takes the row and writes to
the meeting, `patch_task` and the purge write to the same meeting from requests. The desktop
application talks to the server over HTTP and starts or stops a server process of its own (the
local backend) on one machine.

`PROJECT.json` lists every component with its status, and the hazards: what can go wrong in this
code and is hard to reach with a test, each with its line and the properties that cover it.

## Modules

| Module | What it is |
| --- | --- |
| `MeetingJobs` | The server side of a meeting's life: API handlers, job table, worker, pipeline, trash, sweep |
| `JobLife` | What the job queue promises, abstractly: submitted, taken one at a time and a bounded number of times, settled for good |
| `TaskPush` | Sending confirmed tasks to GitHub or GitLab: the request, the lock, link rows, the tracker, faults |
| `Accounts` | Sign-in from the login flow to the session, desktop codes, invitations, roles and deactivation |
| `AudioStorage` | The audio files of one meeting: uploads, the copy from an object store, readers, purge, crashes |
| `EnginePack` | Installing engines, downloading models and converting them, by processes that share a folder |
| `Desktop` | The desktop app: recording, uploading and the local backend under concurrent commands |
| `LlmClient` | The summary of one meeting: chunks, retries, corrections, the merge of the parts |
| `WhisperEngine` | The transcriber's model and the settings it falls back to |
| `Speakers`, `Deadlines` | Algorithms: who said what, and the date of a spoken deadline |
| `MCMeetingJobs`, `MCTaskPush`, `MCAccounts`, `MCAudioStorage`, `MCEnginePack`, `MCDesktop`, `MCSpeakers` | Model values, symmetry, inputs and start states for TLC |
| `MCLlmClient` | `LlmClient`, `WhisperEngine`, `Speakers` and `Deadlines` side by side for one run |
| `MeetingJobsProofs`, `TaskPushProofs`, `AudioStorageProofs`, `AccountsProofs`, `DesktopProofs`, `EnginePackProofs` | Theorems about those modules, and their proofs |
| `OneWorkerProofs` | What holds of `MeetingJobs` with one worker: it implements `JobLife` |
| `TextProofs` | Theorems about `LlmClient`, `WhisperEngine`, `Speakers` and `Deadlines` |

The components in `MeetingJobs` are one module because none of their promises can be stated for
one alone: a purge is about what the worker had under way, "queued" is written by `enqueue`, the
worker, and `recover_abandoned`. The other modules stand alone where the parts do: each takes from
the rest only what may happen to it. `AudioStorage` details what `MeetingJobs` keeps as the flag
`audio`, `LlmClient` and `WhisperEngine` what it keeps as the outcome of `Extract` and
`Transcribe`.

### How the model corresponds to the code

**Atomicity.** One action is one database transaction, or the code between two awaits. A handler
that awaits between reading and writing is split there and suspended in a request slot:

| Handler | Actions |
| --- | --- |
| `upload_audio` | `UploadRead`, `UploadWrite` |
| `finish_meeting` | `FinishRead`, `FinishWrite` |
| `process_meeting`, `jobs.enqueue` | `ProcessRead`, `EnqueueSelect`, `EnqueueInsert` |
| `delete_meeting(permanent)`, `trash.purge_meeting` | `PurgeCheck`, `PurgeFiles`, `PurgeRows` |
| `trash.purge_expired` | `SweepLoad`, `SweepNext`, `SweepFiles`, `SweepRows`, `SweepFails` |
| `jobs.claim_next` | `SelectJob`, `ClaimJob` |
| `Worker.run_once` | `ClaimLost`, `MarkProcessing`, the pipeline, `FinishJob`, `FailJob`, `FailMeeting` |
| `run_process_job` | `LoadMeeting`, `Transcribe`, `StoreTranscript` or `RereadTranscript`, `Extract`, `SaveNothing` / `SaveSummary` / `SaveFails` |

`create_meeting`, soft delete, restore and `patch_task` are one action each. `Abandon` is a
request given up (client gone, process stopped), `Crash` and `Start` a worker process killed at
any point and started again, `Age` the retention period passing.

**Database.** A transaction is atomic, and an UPDATE by primary key does nothing when the row is
gone. Foreign keys are enforced (`db.py:24-30`, and by Postgres), so an insert for a purged
meeting fails: `EnqueueInsert`, `StoreTranscript`, `SaveFails`. `patch_task` counts the undecided
tasks and writes the status in one transaction: on SQLite, the default, writers are serialised and
this is one action. On Postgres two such transactions can read before either writes; that write
skew is not in the model. The database itself does not fail.

`MarkProcessing` and `FailMeeting` are each one action, though the code reads the meeting and
commits in two statements (`worker.py:27-31`, `38-42`). A purge between the two makes the commit
raise `StaleDataError` outside the `try`, and the worker's task ends while the process stays up.
What that leaves in the tables is what `Crash` at that point leaves, which the model has; but the
worker comes back only when the process is started again, and the liveness properties assume that
it is.

**Data.** A transcript or a summary is there or is not. A task is a model value and either
suggested or decided (confirmed and rejected are the same to the server's own logic). The result
of an engine is a choice: failure, nothing heard, something heard; that of the LLM: nothing
(`LlmError`), a summary with any set of new tasks, another exception. A job may end as "done"
although the pipeline raised: `finish` takes an empty error text for success (`jobs.py:59`), and
`str(exc)` is empty for an exception without a message. Job ids are in creation order, which is
what `created_at` sorts by. `set_progress`, titles, participants, error texts and exports are left
out: no property depends on them.

**State names.** `status`, `trash` (`deleted_at`), `transcript`, `summary`, `suggested`, `decided`
and `audio` are the columns, rows and files of a meeting; `jstatus`, `jmeeting`, `jkind`,
`attempts` those of a job; `wpc`, `wjob`, `heard` the position of a worker, the job it holds and
whether its `rows` list is non-empty; `req` and `sweep` the suspended requests and the sweep.
"absent", "none" stand for a row that does not exist yet, "gone", "removed" for a deleted one.

Definitions called *Variant* (`PoisonedLate`, `ClaimJobUncounted`, `PickTaskBySuccess` and so on)
are not part of the specification. Each is an action as a plausible mistake would have it, and the
property it is meant to break does break when it takes the place of the real one. That shows that
the property notices.

### TaskPush

`TaskPush` shares only task rows with the rest, and they appear in it as what other requests and
the pipeline do to them (`EditTask`, `DecideTask`, `RemoveTask`), so it is a module of its own. It
has one integration and one server process, which is what the lock of `push_meeting_tasks` is
about.

| Code | Actions |
| --- | --- |
| `push_meeting_tasks` | `ReadTasks` (the tasks, before the lock), `LineUp` or `NotFound`, `Begin` or `Refuse` (`check_destination`) |
| loop of `push_tasks` | `SkipTask`, `PickTask`, the calls, `Save` or `SaveFailure`, `EndPush` |
| `create`, `update`, `_estimate` | `Created`, `Patched`, `PatchMissing`, `Estimated` |
| `_send` | `Busy`, `Denied`, `Unreached`, `LostAnswer`, with `RetryCall` and `NoAnswer` for its loop |

`at`, `todo`, `seen`, `cur`, `ref`, `tries` are the locals of the handler; `queue` the waiters of
the `asyncio.Lock`, which serves them in order. `version` is the content of a task (what
`payload_hash` tells apart), `issues` the remote tracker. A time estimate is there or not
(`Created`, `Patched` choose), which also covers GitHub, where there is none. `Commit` is the
commit at the end of an iteration. If the task or the integration is gone, the insert of a link
breaks a foreign key and an update finds no row; the first ends in `rollback()`, which expires the
tasks the loop goes on to read, the second in an exception at once. Both leave the loop and the
lock.

`faults` is chosen at the start and says which faults a behaviour contains: a connection that
fails, an answer that is lost, a 404 for an issue that exists, a crash. Properties name the faults
they must be spared. Refusals, 429, edits, deletions here and in the tracker are no faults and may
always happen.

### Accounts

A request is a coroutine that gives way at every statement it sends to the database and every call
to the identity provider; one action is what runs between two of them. `at` is where a request is,
`ident`, `mine` and `pend` what it has read: the identity the provider vouched for, the row it
loaded, and the columns it will write. A flush writes only the columns that changed (the ORM's
unit of work), which is why a request may write to a row that another has changed since.

| Code | Actions |
| --- | --- |
| `login`, `start_flow` | `StartFlow`, `ExpireFlow` |
| callback: `consume_flow`, the provider, `login_user` | `ConsumeFlow`, `Verified` or `NotVerified`, `LookBySub`, `KnownAccount` / `ClaimInvitation` / `NewAccount`, `Flush` |
| `create_session`, `create_login_code`, `redeem_login_code` | `MintSession`, `MintCode`, `RedeemCode`, `CheckAccount`, `ExpireCode` |
| `require_superadmin`, `patch_user`, `invite_user` | `Authorize`, `PatchRead`, `CountAdmins`, `PatchWrite`; `InviteRead`, `InviteWrite` |
| logout, a session past its time | `EndSession` |
| external: the provider gives an address to somebody else | `Recycle` |

`Init` is a server in use: any rows that sign-ins and invitations could have left. `Recycle` does
not take an address from a person who is signing in with it at that moment; without that
assumption the answer of the provider itself would be wrong. `raced` is a history variable: two
patches overlapped on what they had read, which `AdminRemains` excludes and [disagreement
7](#disagreements-found) is about.

### AudioStorage

The files of one meeting: `object` in the object store, `wav` and `part` the names `<source>.wav`
and `<source>.part` of the local folder, each a version and whether it is whole. The server is one
event loop; the copy of an upload (`_spool`) never gives it back (`loop`), calls to the object
store run in threads.

| Code | Actions |
| --- | --- |
| `upload_audio`, `save_audio`, `_spool` | `UploadStart`, `UploadRefused`, `SpoolStart`, `SpoolEnd`, `SpoolFails` |
| `S3Storage.save_audio` | `Send`, `SendFails`, `Sent` |
| `audio_path` | `Ask`, `Fetch`, `FetchRefused`, `Fetched`, `Place`, `Listened` |
| `release_local` at the end of a job | `JobEnds` |
| `purge_meeting`, `delete_audio` | `PurgeStart`, `DeleteObject`, `PurgeFiles`, `PurgeFails`, `PurgeRows` |
| the process stops and starts again (which drops the cache of an object store) | `Crash` |

`SpoolFails` is a write that fails, the disk being full: half a file stays under the name of the
part file, and the loop goes on. External: boto3's `download_file` writes to a name of its own and
renames it, `upload_file` reads the file once, the last object put wins, `rmtree` is one step.
`shared` records sources where an upload met another transfer of the same source, `late` that an
upload was under way while the meeting was purged: there the code promises nothing, and audio may
be left behind. `torn` records the uploads that failed so while a reader that had downloaded
waited to rename the same part file, which `FinishedIsWhole` exempts ([disagreement
11](#disagreements-found)); `Copy` is what a rename or a download makes of a version.

### EnginePack

The command line, the desktop application and the worker are processes that share one folder
without a lock, and any may stop at any point. A name refers to contents (an inode), so a process
goes on writing into a file that another has renamed or unlinked.

| Code | Actions |
| --- | --- |
| `download` | `Open`, `Read`, `Broken`, `Verify`, `Replace`, `Cleanup` (its `finally`) |
| `install_program`, `safe_extract` | `Rmtree`, `OpenZip`, `Extract`, `ExtractFails`, `Extracted` |
| `_run_pip`, the end of `install` | `Pip`, `PipFails`, `Mark`, `Written` |
| `prepare_model` and `_load` of OpenVINO | `Export`, `SaveProcessor`, `ConvertFails`, `Load` |
| `existing_model`, `_kind`, `status`, the engine's choice | the operators `ModelExists`, `Kind`, `Asr`, `Chosen` |

POSIX file names are assumed (on Windows an open file cannot be renamed over), and answers with a
Content-Length. The fallback model variant is not modelled. `crowded` and `damaged` record that
two processes did the same work at once, and what was cut short and not repeated: the exemptions
of the properties, and [disagreements 8 and 9](#disagreements-found).

### Desktop

`start` and `stop` run on threads of their own (`lib.rs:255-265`); `retry_upload` and `discard`
are synchronous commands, which the shell hands over one at a time (`lib.rs:267-277`), but nothing
in the controller relies on that and the model lets any number of retries (`Clicks`) be under way.
`inner` is the mutex of the controller (`start` holds it throughout: `opening`, and `Unlocked` is
the guard of the others), `lock` the mutex of uploads. One `stop` closes its files at a time, and
a folder, which the code names after the second the recording begins in, has a name of its own.

| Code | Actions |
| --- | --- |
| `start` | `StartAsk`, `StartGo` |
| `stop`, `after_recording` | `StopTake`, `StopClose` |
| `retry_upload`, `spawn_upload`, `discard` | `Retry`, `Recover`, `SpawnSlot`, `SpawnCount`, `Discard` |
| the thread of an upload | `Lock`, `Gate`, `Ensure`, `Ready` / `NotReady`, `Recheck`, `Yield`, `Send`, `Finish`, `Process`, `Fails`, `Mark`, `Subtract`, `Clear` |
| `ensure_backend` | `UiCheck`, `UiEnsure`, `UiReady` |
| `idle_tick`, `stop_if_idle` | `WatchAsk`, `WatchStop` |
| the backend, jobs, the application's end | `ChildUp`, `ChildDies`, `Request`, `JobsEnd`, `Quit`, `Kill` |

`disk` is the audio of a folder: "bare" when it holds none, as after a start that failed or a
recording in which nothing was heard, and such a folder is uploaded without complaint. `landed`
are the folders whose whole audio a finished meeting holds. A retry takes any folder there is:
`early` are those that were retried while they were still written, the recorded one included
([disagreement 12](#disagreements-found)). `excused` records why the backend may run beside a
recording: it had jobs or gave no answer when `start`, or an upload, asked it to stop, or the list
of meetings asked for it before the recording began ([disagreement 10](#disagreements-found)). The
server is external: jobs take any time. Not in the module: headers of WAV files, ids of meetings,
and a change of the settings.

### LlmClient, WhisperEngine, Speakers, Deadlines

`LlmClient` is `extract` of `OpenAiCompatExtractor`. A text is an interval of lines; `work` holds
the texts still to extract, `parts` what came back. Each action is one answer of the service:
`NoAnswer`, `Busy`, `Refused`, `SchemaRefused`, `TooLarge`, `NoMessage`, `Unusable`, `Extracted`,
`Merged`. The service finds a request too large above a size of its own (`limit`), so its answer
is consistent from call to call. `Chunks` is the loop of `chunk_transcript` as a function of the
number of lines taken. `SizesAssumption` says of the sizes what the constants of the code satisfy
(`MIN_CHUNK_CHARS` 1500, the 200 characters added to a half, `CHUNK_CHARS` 12000). Of an answer
the decisions and the topics are kept; the other fields are concatenated or picked in the same
way. The code asks for a merge when there are two of the key points, decisions or topics
(`llm.py:258`), so that the model may ask with fewer of the two it keeps.

`_join_topics` goes through the groups and takes the numbers that no earlier group took. The model
says the same of each number: `Place` is the first group that has it, or a place after all groups.
The topics of one place are an `Entry` with the place and its time, and `InOrder` is the stable
sort of the entries. The plain lists (`PlainTopics`) are entries in the same sense, one per title,
in the order of their places. A topic of the result carries `members`, the numbers of the topics
it stands for, which the code does not keep; `TopicsKept` is stated with them. `AnswersAssumption`
and `MergesAssumption` say what the validation of an answer leaves possible: lists of topics with
a time or none, and groups that are lists of anything.

`WhisperEngine` is `transcribe` with `_load` and the ladder of lighter settings, and `release`
when the queue is empty; memory runs out whenever it likes.

`Speakers` (`assign_speaker`, `label_segments`, `match_participant`, `speaker_at`) and `Deadlines`
(`resolve_deadline`) are pure. Their inputs are variables that never change, so that TLC checks
the operators on every initial state. A phrase is its kind and its numbers; the patterns that
recognise Indonesian wording are left out. `DeadlineIsTheDay` compares with a search through the
calendar, day by day, which shares no arithmetic with the code. A month is a number that counts
from the first one; `Begin`, the day it begins, adds up the lengths of those before, and `MonthAt`
finds the month of a day. `DaysAssumption` keeps the meeting more than a year before the end of
the calendar, as 9999 is for the code.

`LabelSegment` returns the set of the pieces, each with its first and its last word: the order of
the rows the code appends is that of the first words. `UtterancesAssumption` says of a recognised
segment what the recognisers give: at least one word, and words whose starts and whose ends do not
go back in time.

## Runs

`tlc -config Jobs.cfg MCMeetingJobs.tla`, and so on for the others; `PROJECT.json` names the
module of each.

| Run | Instance | Shows |
| --- | --- | --- |
| `jobs` (`Jobs.cfg`) | 1 meeting, 1 task, 1 worker, 2 requests, 2 jobs, 2 attempts | `TypeOK`, `RunningJobHasWorker`, `AttemptsBounded`, `QueuedMeetingHasJob`, `JobInvariant`, `ReviewIsHonest`, and `LifeSpec`: with one worker the job table implements `JobLife` |
| `jobs_trash` (`JobsTrash.cfg`) | 1 meeting, 1 task, 1 worker, 1 request, 1 job, retention on | `PurgedStaysEmpty`: purge on request and by the sweep, restore, and the worker, interleaved |
| `jobs_live` (`JobsLive.cfg`) | 2 meetings, 2 jobs of either kind, 1 worker, fair | `EveryJobEnds`, `QueuedMeetingMoves`: the queue is worked off through crashes |
| `jobs_double_enqueue` | 2 requests | `OneActiveJob` is violated |
| `push` (`Push.cfg`) | 1 task with 2 contents, 2 pushes, 2 issues, any faults | `TypeOK`, `OneIssuePerTask`, `SyncedIsTrue`, `IssueInvariant` |
| `push_live` (`PushLive.cfg`) | the same with 1 content and 1 issue, fair | `EveryPushEnds` |
| `accounts` (`Accounts.cfg`) | 2 rows, 2 people, 2 addresses (one of a super admin), 2 requests, a browser and a desktop login, 2 sessions | `TypeOK`, `SingleUse`, `PersonKept`, `OffEndsSessions`, `AdminRemains` |
| `audio` (`Audio.cfg`) | 2 sources, 2 uploads, a listener, the worker, either storage, 1 crash | `TypeOK`, `FinishedIsWhole`, `CopyIsFresh`, `AckedIsStored`, `PurgeLeavesNothing` |
| `engines` (`Engines.cfg`) | 2 processes, files of 2 blocks, 3 commands, stops and full disks | `AcceptedModelIsWhole`, `MarkerTellsTheTruth`, `ConversionLoads` |
| `desktop` (`Desktop.cfg`) | 2 folders, 2 upload threads, 2 retries at once, local and remote, 2 retries, looks at the list, quits or kills in all | `TypeOK`, `UploadedIsWhole`, `RecordingIsLight`, `SlotIsFreed` |
| `llm` (`Llm.cfg`) | transcripts of up to 4 lines, 3 limits, any answers; 3 recordings; every pattern of 7 turns; four stretches of two years | `TypeOK`, `TranscriptCovered`, `SplitBeforeGivingUp`, `TopicsKept`, `ExtractionEnds`; `TranscriptionEnds`; `CutAtRealTurns`; `DeadlineIsTheDay` |
| `speakers_said_it` | 2 lines of 2 people, every length and pause in half seconds | `FirstPersonIsWhoSaidIt` is violated |

The comment above each property in its module says what it states and which line of the code
promises it.

**Bounds.** `MaxJobs` is the number of job rows ever created. Two let a second job be queued
before, during and after the first, on the same meeting, and let a summary-only job follow a full
one; jobs interact through the meeting and the queue order only. `MaxAttempts` is 3 in the code
and 2 here: two is the smallest value with a crash that requeues and one that fails the job. Two
requests are what a race between two handlers takes. With one meeting every interference is on
that meeting; `jobs_live` has two, so that one job can be in the way of another. One task is
enough for "something pending" and "nothing pending"; two give the same results in a run too long
to keep. `TrashDays` is a switch: 0 turns sweep and ageing off.

In `TaskPush`, two pushes are what a race for the lock takes, two contents what tells a stale link
from a true one, and two issues a duplicate; at `MaxIssues` the service refuses (`Denied`), so the
bound blocks nobody. `MaxAttempts` is 3 in the code and 2 here: the first and the last attempt
behave differently, those between like the first. One task is enough for the loop's own
interference; two were checked once (3 issues, 850,000 states) with the same results.

In `Accounts`, two requests are what a race for one flow, one code or one invitation takes, and
two people what it takes to mistake one for the other. Two flows, one of them of the desktop
application, and two sessions let a sign-in finish before, during and after a deactivation;
`MaxOffs` is 1, so a second deactivation of the same account is left to the theorem `OffIsOff`.
Sessions that end stay in the list, so `MaxSessions` bounds the sign-ins of a behaviour, not those
at one time. (1.9 million states, two minutes.)

In `AudioStorage` two versions tell an old copy from a new one; two uploads and a reader besides
the worker are the smallest number that meet on one `.part` file in every combination; a crash
loses everything but the files and objects, so a second one adds nothing that the first does not.

In `EnginePack` four inodes are enough: contents that nothing refers to are used again, and a
fifth inode gives the same states. Two blocks tell empty, partial and whole apart.

In `Desktop` two threads and two folders let one recording be uploaded while another begins or is
retried, and two retries pass the check of one slot together. `MaxTurns` bounds retries, looks at
the list, quits and kills together (two in the run; longer combinations, such as two retries and a
kill, are left to the theorems): it limits what the user does, not what the threads do in answer.
(1.5 million states.)

In `LlmClient` the sizes are scaled (`ChunkChars` 12, `MinChunk` 6, `Slack` 1, retries 2): a
transcript may fit one request, need several, need a chunk cut twice, or hold a line longer than a
request. In `Speakers` a tick is half a second and the constants of the code are expressed in
ticks. The days of `Deadlines` lie around the ends of January, of two Februaries, one in a leap
year, and of a year, on every weekday.


**Fairness** (`WorkerFairness` in `jobs_live`; `FairSpec` in `push_live`; `MCSpec` in `llm`). A
worker that is down is started again (service manager or desktop application), and one that runs
keeps running its job: weak fairness of `Start` and `RunJob`, which is what an event loop and
engines that return give. An engine that hangs for ever is not covered. Crashes have no bound and
may come at any time. Strong fairness of `Recover`, `SelectJob` and `ClaimJob` says that a worker
started over and over does not die in its first three statements each time; without it no code
could make progress, and it gives no job an attempt that ends well: a job that always kills its
worker ends by the attempts limit, which `ClaimJobUncounted` confirms. Users, clients, the clock
and the sweep owe nothing. In `push_live` each push in flight keeps going: every call is answered
or times out (`TIMEOUT`), and attempts are bounded. That a waiting push gets the lock is not
assumed but follows from the order of the queue.

In `llm` the client's calls are answered or time out, and the worker's thread goes on: weak
fairness of the steps of `LlmClient` and of an attempt to transcribe. Nothing is assumed about
what the answers are.

**Deadlock** is checked in every run of `MeetingJobs` (a worker can always crash or start) and of
`AudioStorage`. The others really may stop: once all tasks are gone there is nothing to send, a
summary is made, the bounded numbers of logins, commands and retries are used up and nobody does
anything more.

## Proofs

`tlapm MeetingJobsProofs.tla`. The theorems hold for any sets of meetings, tasks, workers and
requests and any bounds; the assumptions are `NoneAssumption` (None is no meeting) and
`NumbersAssumption` (the bounds are naturals, at least one attempt).

| Theorem | States |
| --- | --- |
| `TypeCorrect` | `Spec => [](TypeOK /\ Linked)` |
| `AttemptsAreBounded` | `Spec => []AttemptsBounded` |
| `RunningHasWorker` | `Spec => []RunningJobHasWorker` |
| `PurgeIsFinal` | `Spec => []PurgedStaysEmpty` |
| `JobInvariantHolds` | `Spec => []JobInvariant` |
| `QueuedHasJob` | `Spec => []QueuedMeetingHasJob` |
| `JobsRunOut` | `Spec` implies that `JobLeft` and `RunLeft` go down, see [progress](#progress) |

The argument. `TypeOK` alone is not inductive: a worker at work must hold the id of a row, or
`Held(w)` is no meeting. `Linked` says so, and the two together are inductive. On top of them:

- `AttemptsBounded` needs that a row not yet created counts no attempt (`Untaken`): otherwise a
  new job might enter the queue used up.
- `RunningJobHasWorker` is inductive. The step that matters is `Recover`: it leaves no job
  running, and every step that takes a worker off its job either settles the job or takes the
  worker down, and a worker that is down has yet to recover.
- `PurgedStaysEmpty` is split into `EmptyRows` and `NoJobs` and inductive given `Linked`: a gone
  meeting has no job left that could be claimed, requeued or poisoned.
- `QueuedMeetingHasJob` is not inductive. A worker about to settle a job could belong to a meeting
  still marked queued, and settling it would leave the meeting without one. `JobInvariant` rules
  that out: a queued meeting has an active job whose holders, if any, have only just claimed it
  and mark the meeting next. It is checked by the run `jobs` and proved here.

`RequestKinds`, `SweepKinds`, `InsertEffect` and `PipelineEffect` sort the actions into those that
touch the job table and those that do not, so that each proof splits on few cases.

For `TaskPush` (`tlapm TaskPushProofs.tla`; any tasks, requests, faults and bounds;
`NoneAssumption`, `NumbersAssumption`):

| Theorem | States |
| --- | --- |
| `PushTypeCorrect` | `Spec => [](TypeOK /\ CurKnown /\ LockHeld)` |
| `IssueInvariantHolds` | `Spec => []IssueInvariant` |
| `OneIssueEach` | `Spec => []OneIssuePerTask` |
| `SyncedTheorem` | `Spec => []SyncedIsTrue` |
| `PushesRunOut` | for a finite set of tasks, `Spec` implies that `PushLeft` goes down, see [progress](#progress) |

Types need the lock: leaving it takes the head off the queue, which must be the leaver
(`LockHeld`). `Right` adds that links and pushes name issues of their own task. `OneIssuePerTask`
is not inductive: a live issue that neither a link nor a push remembers would be doubled by the
next push. `NothingLost` says there is none, and that what a link still names while a push carries
another number is dead (`OldDead`); two issues of one task would then both have to be the one
remembered. `StepGrows` and `OthersStand` are the frame: issues never change their task or come
back to life, and while a push is past the lock nothing of the others moves.

`SyncedIsTrue` is kept by `Told`: between the tracker's answer and the row it is `Filed`, which
says that the issue a push is about to note has the content the push read, not the one the task
has by now. `GoodOrder` says that a link in good order names an issue and belongs to rows that are
still there, so that a deleted task leaves no such link behind.

For `AudioStorage` (`tlapm AudioStorageProofs.tla`; any sources, uploads and listeners and any
bounds, either storage; `NoneAssumption`, `BoundsAssumption`, `StoresAssumption`):

| Theorem | States |
| --- | --- |
| `AudioTypeCorrect` | `Spec => []TypeOK` |
| `FinishedFilesAreWhole` | `Spec => []FinishedIsWhole` |
| `PurgeIsComplete` | `Spec => []PurgeLeavesNothing` |
| `CopiesAreFresh` | `Spec => []CopyIsFresh` |
| `AnswersAreKept` | `Spec => []AckedIsStored` |

`Base` adds to the types that an upload or a reader in progress names its source (`Named`). That
finished files are whole is not inductive: the file comes from `<source>.part`, and what is there
may be half written. `PartIsWhole` says of a file that a reader is about to rename that it is
whole, or that the upload that holds the event loop is writing it - nobody can rename it then - or
that it is what such an upload left when it failed (`torn`). A purge that leaves nothing needs an
account of its progress: `ObjectsGone` for the objects already deleted, `FilesGone` for the local
copies and the readers that could still bring one back, `Quiet` for the uploads that are not
there, and `LocalHasNoObjects` for the other storage.

`CopyIsFresh` and `AckedIsStored` share one invariant, `FreshInv`. For a source whose transfers
never met, `Sound` says that only one transfer is under way (`Alone`), that an upload's part file
and object are its own (`Own`), and that whatever a reader has fetched is no older than the last
answer (`Newer`): the version a reader carries was current when it asked, and an upload that came
between would have met it. It rests on `PurgeInv`, because a purge takes the answers back before
it deletes the first file.

For `Accounts` (`tlapm AccountsProofs.tla`; any rows, people, addresses, requests and bounds;
`NoneAssumption`, `PolicyAssumption`, `BoundsAssumption`, `RequestsAssumption`):

| Theorem | States |
| --- | --- |
| `AccountsTypeCorrect` | `Spec => []TypeOK` |
| `EachUsedOnce` | `Spec => []SingleUse` |
| `PersonStays` | `Spec => []PersonKept` |
| `OffIsOff` | `Spec => []OffEndsSessions` |
| `AdminTheorem` | `Spec => []AdminRemains` |

`Base` is `TypeOK`, sorted by who writes what, with `Placed`: a request about to write for an
account holds one. `SingleUse` follows from `FlowHeldOnce` and `CodeHeldOnce`: a flow or a code is
unused and held by nobody, or used and held by one request, code or session, which hands it on.
`PersonKept` is the deepest of them. A request that claims an invitation writes a `sub` into a row
it read before, and another request may have claimed the row meanwhile. `Honest` keeps what each
request may rely on: whoever claimed it is the owner of the same address, who is the same person,
because an address in use does not change hands (the assumption on `Recycle`). `OffEndsSessions`
counts how often an account was turned off: a session, a code or a request on its way to one
carries the count it saw (`Saw`, `Ages`), and deactivation ends every session that exists.
`AdminRemains` compares what two requests counted. `AdminInv` keeps, for a request about to take
an account's rights away on reads that nobody has overtaken, another super admin that is active
(`Spare`); a sign-in never takes the role away (`Mild`). Cardinalities appear in one lemma only,
`AnotherAdmin`: a count above one gives a second member, which is all that `patch_user` learns
from it.

For one worker (`tlapm OneWorkerProofs.tla`; the assumptions of `MeetingJobs`, and `OneWorker`,
that any two workers are the same: the application starts one worker in the API process,
`api.py:148`):

| Theorem | States |
| --- | --- |
| `ImplementsJobLife` | `Spec => LifeSpec`: the refinement of `JobLife` |
| `ReviewTheorem` | `Spec => []ReviewIsHonest` |

The refinement is a step simulation under `Serial`: the invariants above, and `Sole`, that one job
runs at most and that a worker at work holds it or a row a purge has removed. Every action of
`MeetingJobs` is then a step of `JobLife` or leaves its variables alone: claiming is `Take`
because nobody else is running a job, reporting is `Settle`, recovery puts back or settles the one
job that runs, and a purge drops the jobs of its meeting. `ReviewIsHonest` needs to know what the
pipeline has under way: `WorkIsFresh` says that the status of a meeting being processed is neither
"review" nor "done", so that no decision can move it, and that from the moment the old result is
dropped there is none until the last transaction. With two workers on one meeting this fails,
which is why neither theorem is stated without the assumption.

For `Desktop` (`tlapm DesktopProofs.tla`; any folders, threads, retries and bounds, local or
remote; `NoneAssumption`, `ClicksAssumption`, `TurnsAssumption`, `ModesAssumption`):

| Theorem | States |
| --- | --- |
| `DesktopTypes` | `Spec => []TypeOK` |
| `SlotTheorem` | `Spec => []SlotIsFreed` |
| `UploadedTheorem` | `Spec => []UploadedIsWhole` |
| `LightTheorem` | `Spec => []RecordingIsLight` |

That `uploads` is a natural number is not a matter of types: it needs `Counted`, that it is the
number of the threads queued or running, and this in turn that whoever runs holds the lock
(`Base`). `Shown` says who will empty the slot once the count is zero: the thread in `clear`, or a
caller that has shown the upload and not yet counted it. `Whole` follows a folder from the
recording to the mark: the folder that is recorded to or being closed is written to
(`OpenIsWritten`), one that is about to be uploaded is complete, empty or `early` (`SpawnsSound`),
and what a thread past an answer has sent is on the server (`OnTrack`). `Light` pairs the
recording with the steps of `ensure`: a backend that starts has a thread or the UI waiting for it,
and during a recording that is not excused the UI waits for none.

For `EnginePack` (`tlapm EnginePackProofs.tla`; any processes, inodes, lengths of files and
bounds; `BlocksAssumption`, `NoneAssumption`):

| Theorem | States |
| --- | --- |
| `ModelTheorem` | `Spec => []AcceptedModelIsWhole` |
| `MarkerTheorem` | `Spec => []MarkerTellsTheTruth` |
| `ConversionTheorem` | `Spec => []ConversionLoads` |

`Noted` says that two processes at the same work are on record in `crowded`; where they are not, a
process may rely on what it did before. `Apart` keeps the model's contents from those of the
archive, which another process may be downloading. `Downloaded` then relates the count of a
process to the blocks in `.part`. For the marker, `PackagesRest` and `ProgramRests` describe a
folder nobody works on, all there or not at all, and `PackagesGrow` and `ProgramGrows` the steps
of the process that does; the marker is written in a state where both are complete.

For the texts (`tlapm TextProofs.tla`; any transcripts, limits, answers, words and turns;
`SizesAssumption`, `TranscriptsAssumption`, `AnswersAssumption`, `MergesAssumption`,
`SettingsAssumption`, `TimesAssumption`, `UtterancesAssumption`, and for the dates
`YearsAssumption`, `UnresolvedAssumption`, `PhrasesAssumption`, `DaysAssumption`):

| Theorem | States |
| --- | --- |
| `ClientTypes` | `Spec => []TypeOK` |
| `CoverTheorem` | `Spec => []TranscriptCovered` |
| `SplitTheorem` | `Spec => []SplitBeforeGivingUp` |
| `TopicsTheorem` | `Spec => []TopicsKept` |
| `CallsRunOut` | `Spec => [](CallsLeft \in Nat) /\ [][CallsLeft' < CallsLeft]_vars`, see [progress](#progress) |
| `AttemptsRunOut` | `WhisperSpec => [](AttemptsLeft \in 0..6)`, and every step of a call lowers it |
| `CutTheorem` | `SpeakersSpec => []CutAtRealTurns` |
| `DeadlineTheorem` | `DeadlinesSpec => []DeadlineIsTheDay` |

Here the steps are simple and the operators are not. The lemma `ChunksCut` says of the loop of
`chunk_transcript`, for any text and limit, that its chunks are consecutive, none is empty,
together they are the text, and only a line alone is larger than the limit. `HalvesCut` adds that
the halves of a text of two lines or more that is larger than `MinChunk` are shorter than the
text; this is where the assumption on the sizes is needed. The invariant `Inv` is then kept
because replacing a text by its chunks keeps the sequence of lines (`Replaced`).

`TopicsKept` holds of each of the three ways to the result, and each has a lemma. `KeepsInOrder`
is what they share: `InOrderIs` shows that the stable sort of a finite set of entries lists each
once (a rank belongs to one entry only, `RankOfOne`), so that it is enough to know that the
entries divide the topics. Those of `JoinTopics` do because `Place` is a function of the number
(`KeepsJoined`), those of `PlainTopics` because a title is (`KeepsPlain`). The title and status of
a joined topic are chosen with `SelectSeq`, of which the prover knows nothing; the theorem says
nothing about them, and TLC evaluates them. For `Speakers`, `MergedRunsCut` shows that the loop
that merges short runs cuts only where a run is long enough, `HeadMergedTurns` that merging the
head leaves real turns, `JoinedLabels` that joining pieces of one person leaves neighbours of
different people, and `ManyPieces` puts them together.

For `Deadlines`, `BeginIs` shows that the calendar exists and `BeginGrows` that its months have 28
to 31 days, so that every day is in exactly one month (`DayHasMonth`, `MonthAtOnly`) and a later
day in no earlier one (`MonthAtGrows`). Each phrase is then a lemma of its own. The hardest is
`MonthDayIs`: the day with that number and month is the first one in a year and a little,
whichever of this year's and the next year's it is, with or without a 29 February. The phrases and
days are any that satisfy `PhrasesAssumption` and `DaysAssumption`, the calendar any that
satisfies `YearsAssumption`: which weekday it begins on is not fixed.

A recursive function is defined by `CHOOSE`, so that what it computes is known only once such a
function is shown to exist, and the library's theorems for that take an operator as a parameter.
`TextProofs` therefore proves the induction it needs first-order: `Least` takes the least member
of a set of naturals from `NatLessThanWellFounded`, `Induction` follows from it for a set in place
of a predicate, and `Recursion` builds the function by extending its approximations one value at a
time (`IsRun`). `IsLoop` and `IsFold` instantiate it for the two loops.

### Progress

That something ends has two halves: no step leads round in a circle, and steps go on being taken.
The second is fairness and stays with TLC. The first is an invariant and an action property, and
is proved, for any bounds, from a measure:

- `JobsRunOut`. `JobLeft` counts twice the attempts a job still has, and whether it is in the
  queue or at work. Claiming it lowers that, since it costs an attempt, and so does putting it
  back; an ended job has none left, with any number of workers that crash, requeue each other's
  jobs or work on the same one. `RunLeft` counts the steps of a run; it goes up only when a worker
  takes a job out of the queue. With several workers `JobLife` does not hold (a job may go from
  the queue straight to its end), so this is also what can be said of the queue without
  `OneWorker`.
- `PushesRunOut`. `PushLeft` counts, for each task a push has yet to send, five times
  `MaxAttempts` attempts (three calls at most are made before the row is saved), and within the
  task at hand the calls and attempts to come. Every step of the push lowers it, and no edit,
  deletion, crash or other push raises it. It needs that the task at hand is one of those still to
  send (`HandFull`).
- `CallsRunOut`. `CallsLeft` is lexicographic: twice the lines still to extract less the number of
  texts they are in, so that cutting a text in two counts as progress, then the one correction,
  then the attempts.
- `AttemptsRunOut`. Every load and every run that fails leaves a lighter setting or ends the
  transcription: six attempts at most.

Only model-checked: the liveness properties `EveryJobEnds`, `QueuedMeetingMoves`, `EveryPushEnds`,
`ExtractionEnds` and `TranscriptionEnds` themselves, because temporal reasoning about fairness and
`ENABLED` is out of the prover's reach; what `Join` and `Pick` choose with `SelectSeq`; and the
operators of `Speakers` and `Deadlines` about which no theorem speaks. The two properties that
runs refute have no theorem, of course. Every other property of a run is a theorem.

### Exemptions

A property that does not hold of the code in one situation exempts that situation by a history
variable or a condition in its statement, and so does its theorem. None is assumed away in the
actions: the steps that lead there are in the model, and TLC visits them.

| Property | Holds except |
| --- | --- |
| `FinishedIsWhole` | for an upload a write of which failed while a downloaded copy waited to be renamed (`torn`) |
| `CopyIsFresh`, `AckedIsStored` | for sources an upload of which met another transfer (`shared`); the second also once an upload was under way during a purge (`late`) |
| `PurgeLeavesNothing` | when an upload was under way during the purge (`late`) |
| `UploadedIsWhole` | for folders that were retried while they were written (`early`) |
| `RecordingIsLight` | for recordings that found a backend with jobs or without an answer, or began while the list of meetings started one (`excused`) |
| `AcceptedModelIsWhole` | when two downloads of the model overlapped (`crowded`) |
| `MarkerTellsTheTruth` | when two installs overlapped (`crowded`), and for a kind whose last install did not finish (`damaged`) |
| `ConversionLoads` | when two conversions overlapped or one did not finish |
| `OneIssuePerTask` | with any fault: an answer or a call lost, an issue hidden, the server stopped |
| `SyncedIsTrue` | when the server stopped, and while a push is at work on the task |
| `AdminRemains` | after a patch written on reads that another had overtaken (`raced`) |
| `TopicsKept` | for the times of topics of one title in the plain lists |

## Disagreements found

Two are runs; the others were met while modelling, and the properties exempt them by name.

1. `jobs_double_enqueue`. `enqueue` promises that a double click returns the job in flight
   (`jobs.py:12`). Two requests that both look before either inserts leave two jobs.
2. `speakers_said_it`. "Saya kirim laporan" is meant for whoever said it (`pipeline.py:209`). A
   line's time is printed in whole seconds, and `speaker_at` takes the first line that is within
   two seconds of it: when two people follow each other more closely, that is the one before.
3. `Busy` promises that audio is not deleted under the worker (`trash.py:16`). A job claimed after
   the check (`trash.py:20`) loses its audio.
4. `recover_abandoned` is there so that no meeting is stuck (`jobs.py:73`). A worker that dies
   between failing the job and failing the meeting (`worker.py:37`) leaves it in "processing",
   where no later recovery finds it.
5. Setting the estimate is best effort and "must not fail the issue that was just created"
   (`integrations.py:323`). A connection that fails there (`integrations.py:324`) loses the number
   of the issue, and the next push creates a second one, against `docs/INTEGRATIONS.md:27`.
   `OneIssuePerTask` excludes faults for this reason.
6. "A failure on one never stops the others" (`integrations.py:377`). A task deleted while it is
   sent ends the push (`integrations.py:413`).
7. "The last active super admin cannot be demoted or deactivated" (`docs/AUTH.md:14`). Two
   administrators who demote each other at once each count the other (`routes.py:235`). An invited
   super admin who never signed in counts as active, too.
8. `download` "Never leaves a half-written `dest`" (`engine_assets.py:111`). Two processes share
   the `.part` file, and one may rename it while the other has just emptied it.
9. The conversion for OpenVINO is taken for done when the model is there. One cut short between
   model and processor (`openvino.py:102`) is never repaired.
10. "Nothing heavy may become resident during a meeting, whoever asks" (`controller.rs:225`), and
    the lock is to be "held for the whole call so a recording cannot start between the check and
    the spawn" (`controller.rs:232`). It is dropped before the spawn (`controller.rs:237`).
11. "A half-uploaded file never looks like a finished one" (`storage.py:60`). A write that fails
    (`storage.py:41-44`) leaves half a `.part` file; a reader that has downloaded the same source
    and waits for the event loop then renames it to `<source>.wav` (`storage.py:143`).
12. The recording that is still being written is never to be listed (`controller.rs:155-156`).
    `scan_pending` asks which one that is before it lists the folders (`controller.rs:513-530`), a
    recording that is being closed is active no more, and `retry_upload` does not look
    (`controller.rs:352-363`): half a recording can be uploaded and marked. So can one to which a
    start that failed still captures: dropping a capture is to end its thread
    (`backend/mod.rs:12`), but no capture implements `Drop`.

Smaller things seen on the way: after a release, the transcriber's next load may take a setting
left in the ladder, the CPU although int8 on the GPU fitted (`whisper.py:58`); a failed load of
the processor leaves the model set, and the next call has none until a release
(`openvino.py:139`); "anything it does not mention is kept" (`llm.py:252`) holds for topics, but
decisions that no number names are dropped; "the plain lists stand: still true, only longer"
(`llm.py:253`) although of topics with one title only the last mention stays (`llm.py:257`), and
the times of the others are lost (the exemption in `TopicsKept`); an answer with status 200 and no
`choices` raises `KeyError` (`llm.py:199`); `n hari lagi` has no bound (`deadlines.py:62`); a
participant's name of blanks is an `IndexError` (`pipeline.py:117`).

## Not modelled

Every component with status `not_modelled` in `PROJECT.json` says why. In short: native engines,
audio capture and file formats are outcomes or out of scope; formatting, export, encryption and
configuration have no state that steps interleave on. The rate limiter is one synchronous
function. In the modelled components:

- `MeetingJobs`: failing database statements (an error in `claim_next` ends the worker task of a
  process that stays up), Postgres write skew in `patch_task`, and the names of participants.
- `TaskPush`: the webhook adapter, a changed destination.
- `Accounts`: the caches of the provider's metadata, and its protocol: what a token must contain
  is the input `Verified` or `NotVerified`.
- `EnginePack`: measuring the hardware, the manifest, the guard against slow downloads
  (`hfguard.py`).
- `Desktop`: settings, tray and windows; `settings_set` (`lib.rs:313`), which may stop a backend
  at work.
- `LlmClient`: prompts, and the cleaning of an answer's fields.

## Plan

Done: `MeetingJobs`, `JobLife`, `TaskPush`, `Accounts`, `AudioStorage`, `Desktop`, `EnginePack`,
`LlmClient`, `WhisperEngine`, `Speakers` and `Deadlines`, all with theorems.

Left, in this order:

1. `Recording` (`session.rs`, `sink.rs`, `wav.rs`): samples, header, a kill at any point,
   recovery, and the refinement to the `disk` of `Desktop`.
2. `TaskPush` with several destinations of one integration, and the webhook adapter.
3. The order of the topics and the choice of their titles and status as theorems, with the filter
   as a recursive function.

------------------------------- MODULE Desktop -------------------------------
(***************************************************************************)
(* The desktop app: starting and stopping recordings and uploading them    *)
(* (controller.rs, uploader.rs, session.rs), and the backend it runs on    *)
(* this computer while there is work for it (local_backend.rs), which      *)
(* exits by itself when the app is gone (parentwatch.py).                  *)
(*                                                                         *)
(* start and stop run on threads of their own; of retries any number may   *)
(* be under way, though the shell hands them over one at a time.  A step   *)
(* holds the lock it takes (inner) for as long as the code does; start     *)
(* holds it throughout.  The server is external: meetings, and jobs that   *)
(* may take any time.                                                      *)
(***************************************************************************)
EXTENDS Integers

CONSTANTS
    Dirs,           \* recording folders
    Threads,        \* upload threads
    Clicks,         \* calls of retry_upload that may be under way
    None,
    Modes,          \* "local": the app runs the backend; "remote": a server elsewhere
    MaxTurns        \* bound: retries, lists of meetings, and times the app is quit or killed

ASSUME NoneAssumption == None \notin Dirs \cup Threads
ASSUME ClicksAssumption == "stop" \notin Clicks
ASSUME TurnsAssumption == MaxTurns \in Nat
ASSUME ModesAssumption == Modes \subseteq {"local", "remote"}

VARIABLES
    mode,
    \* the controller
    active,         \* the folder that is recorded to, or None
    opening,        \* start: "no", or what came of asking the backend about jobs
    closing,        \* the folder stop is closing, or None
    spawning,       \* the folder stop or retry is about to upload, by caller
    uploading,      \* the upload slot of the UI is set
    uploads,        \* uploads queued or running
    lock,           \* the thread that holds upload_lock, or None
    up,             \* upload threads
    ui,             \* ensure_backend: "idle", "ensure", "wait"
    \* the disk
    disk,           \* the audio of a folder
    uploaded,       \* folders with uploaded.json
    \* the backend and the server
    child,          \* "none", "starting", "up", or "orphan" of an app that is gone
    watch,          \* idle_tick is about to stop the backend
    busy,           \* some job is queued or running
    landed,         \* folders whose whole audio a finished meeting holds
    \* history
    turns,          \* retries, looks at the list, quits and kills so far
    excused,        \* why the backend may run during this recording
    early           \* folders that were retried while they were written

ctlVars == <<active, opening, closing, spawning, uploading, uploads, lock, up, ui>>
diskVars == <<disk, uploaded>>
serverVars == <<child, watch, busy, landed>>
history == <<turns, excused, early>>
vars == <<mode, ctlVars, diskVars, serverVars, history>>

-----------------------------------------------------------------------------
\* A folder has a name of its own ("fresh" until it is used); "left" by an app that
\* was killed; "bare" when it holds no audio files, "gone" when it is removed.
Audio == {"fresh", "writing", "left", "complete", "bare", "gone"}
Thread == [at : {"idle", "queued", "gate", "ensure", "wait", "recheck", "yield",
                 "send", "finish", "process", "mark", "sub", "clear"},
           dir : Dirs \cup {None}, sent : {"part", "whole"}]
NoThread == [at |-> "idle", dir |-> None, sent |-> "part"]
Callers == {"stop"} \cup Clicks
Spawn == [at : {"no", "recover", "slot", "count"}, dir : Dirs \cup {None}]
NoSpawn == [at |-> "no", dir |-> None]

Unlocked == opening = "no"              \* nobody holds inner
Reachable == mode = "remote" \/ child = "up"
Owned == child \in {"starting", "up"}   \* owns_process

Init ==
    /\ mode \in Modes
    /\ active = None /\ opening = "no" /\ closing = None
    /\ spawning = [c \in Callers |-> NoSpawn]
    /\ uploading = FALSE /\ uploads = 0 /\ lock = None
    /\ up = [t \in Threads |-> NoThread]
    /\ ui = "idle"
    /\ disk = [d \in Dirs |-> "fresh"] /\ uploaded = {}
    /\ child = "none" /\ watch = FALSE /\ busy = FALSE
    /\ landed = {}
    /\ turns = 0
    /\ excused = FALSE /\ early = {}

-----------------------------------------------------------------------------
(* Recording.                                                              *)

\* start asks stop_if_idle: a backend that is up has jobs, or none, or fails to
\* answer ("busy", too); one that is not up is silent.
StartAsk ==
    /\ Unlocked /\ active = None
    /\ \E d \in Dirs : disk[d] = "fresh"
    /\ opening' \in IF child # "up" THEN {"silent"}
                    ELSE IF busy THEN {"busy"} ELSE {"idle", "busy"}
    /\ UNCHANGED <<mode, active, closing, spawning, uploading, uploads, lock, up, ui,
                   diskVars, serverVars, history>>

StartGo(d) ==
    /\ opening \in {"idle", "busy", "silent"}
    /\ disk[d] = "fresh"
    /\ child' = IF opening = "idle" /\ Owned THEN "none" ELSE child
    /\ opening' = "no"
    /\ \/ /\ active' = d                        \* Session::start
          /\ disk' = [disk EXCEPT ![d] = "writing"]
          /\ excused' = (excused \/ opening = "busy" \/ ui # "idle")
       \* No folder, no file, files without audio; or the second file fails when the
       \* first is captured to already: nothing ends that capture.
       \/ /\ \E a \in {"fresh", "bare", "complete", "writing"} : disk' = [disk EXCEPT ![d] = a]
          /\ excused' = FALSE
          /\ UNCHANGED active
    /\ UNCHANGED <<mode, closing, spawning, uploading, uploads, lock, up, ui, uploaded,
                   watch, busy, landed, turns, early>>

\* stop: the recording is no longer active while its files are being closed.
StopTake ==
    /\ Unlocked /\ active # None /\ closing = None /\ spawning["stop"].at = "no"
    /\ closing' = active
    /\ active' = None
    /\ excused' = FALSE
    /\ UNCHANGED <<mode, opening, spawning, uploading, uploads, lock, up, ui, diskVars,
                   serverVars, turns, early>>

\* Files nothing was captured to are removed.  after_recording: the upload begins
\* if there is audio and a server is set; the folder may have been discarded.
StopClose(usable) ==
    /\ closing # None
    /\ closing' = None
    /\ disk' = [disk EXCEPT ![closing] = IF @ # "writing" THEN @
                                         ELSE IF usable THEN "complete" ELSE "bare"]
    /\ \/ /\ usable
          /\ spawning' = [spawning EXCEPT !["stop"] = [at |-> "slot", dir |-> closing]]
       \/ UNCHANGED spawning
    /\ UNCHANGED <<mode, active, opening, uploading, uploads, lock, up, ui, uploaded,
                   serverVars, history>>

-----------------------------------------------------------------------------
(* retry_upload, discard and spawn_upload.                                 *)

\* The list the user clicks in may be old: any folder there is will do, the one that
\* is recorded to as well.
Retry(c, d) ==
    /\ Unlocked /\ turns < MaxTurns
    /\ disk[d] \notin {"fresh", "gone"}
    /\ ~uploading /\ spawning[c].at = "no"
    /\ turns' = turns + 1
    /\ spawning' = [spawning EXCEPT ![c] = [at |-> "recover", dir |-> d]]
    /\ early' = IF disk[d] = "writing" THEN early \cup {d} ELSE early
    /\ UNCHANGED <<mode, active, opening, closing, uploading, uploads, lock, up, ui,
                   diskVars, serverVars, excused>>

\* recover_dir: the header of a file that is still written does not stay repaired; a
\* file that cannot be repaired ends the retry; a folder without files is no error.
Recover(c) ==
    LET d == spawning[c].dir IN
    /\ spawning[c].at = "recover"
    /\ \/ /\ disk' = [disk EXCEPT ![d] = IF @ = "left" THEN "complete" ELSE @]
          /\ spawning' = [spawning EXCEPT ![c].at = "slot"]
       \/ /\ disk[d] \notin {"bare", "gone"}
          /\ spawning' = [spawning EXCEPT ![c] = NoSpawn]
          /\ UNCHANGED disk
    /\ UNCHANGED <<mode, active, opening, closing, uploading, uploads, lock, up, ui, uploaded,
                   serverVars, history>>

SpawnSlot(c) ==
    /\ Unlocked
    /\ spawning[c].at = "slot"
    /\ uploading' = TRUE
    /\ spawning' = [spawning EXCEPT ![c].at = "count"]
    /\ UNCHANGED <<mode, active, opening, closing, uploads, lock, up, ui, diskVars,
                   serverVars, history>>

SpawnCount(c, t) ==
    /\ spawning[c].at = "count" /\ up[t].at = "idle"
    /\ uploads' = uploads + 1
    /\ up' = [up EXCEPT ![t] = [at |-> "queued", dir |-> spawning[c].dir, sent |-> "part"]]
    /\ spawning' = [spawning EXCEPT ![c] = NoSpawn]
    /\ UNCHANGED <<mode, active, opening, closing, uploading, lock, ui, diskVars,
                   serverVars, history>>

Discard(d) ==
    /\ Unlocked
    /\ disk[d] \notin {"fresh", "gone"} /\ d # active
    /\ disk' = [disk EXCEPT ![d] = "gone"]
    /\ uploaded' = uploaded \ {d}
    /\ UNCHANGED <<mode, ctlVars, serverVars, history>>

-----------------------------------------------------------------------------
(* An upload thread.                                                       *)

Goto(t, point) == up' = [up EXCEPT ![t].at = point]

(* Variant: the guard is bound to _ and dropped at once.                   *)
LockDropped(t) ==
    /\ up[t].at = "queued" /\ lock = None
    /\ Goto(t, IF mode = "local" THEN "gate" ELSE "send")
    /\ UNCHANGED <<mode, active, opening, closing, spawning, uploading, uploads, lock, ui,
                   diskVars, serverVars, history>>

Lock(t) ==
    /\ up[t].at = "queued" /\ lock = None
    /\ lock' = t
    /\ Goto(t, IF mode = "local" THEN "gate" ELSE "send")
    /\ UNCHANGED <<mode, active, opening, closing, spawning, uploading, uploads, ui,
                   diskVars, serverVars, history>>

\* It waits here while a recording runs.
Gate(t) ==
    /\ Unlocked /\ up[t].at = "gate"
    /\ uploading' = TRUE
    /\ active = None
    /\ Goto(t, "ensure")
    /\ UNCHANGED <<mode, active, opening, closing, spawning, uploads, lock, ui,
                   diskVars, serverVars, history>>

\* ensure: a healthy backend must accept our secret; else one is started, unless
\* one is starting.
Ensure(t) ==
    /\ up[t].at = "ensure"
    /\ CASE child = "up" -> Goto(t, "recheck") /\ UNCHANGED child
         [] child = "orphan" -> Goto(t, "sub") /\ UNCHANGED child
         [] OTHER -> Goto(t, "wait") /\ child' = "starting"
    /\ UNCHANGED <<mode, active, opening, closing, spawning, uploading, uploads, lock, ui,
                   diskVars, watch, busy, landed, history>>

Ready(t) ==
    /\ up[t].at = "wait" /\ child = "up"
    /\ Goto(t, "recheck")
    /\ UNCHANGED <<mode, active, opening, closing, spawning, uploading, uploads, lock, ui,
                   diskVars, serverVars, history>>

\* It exits while it starts, or is not ready after 90 seconds and is stopped.
NotReady(t) ==
    /\ up[t].at = "wait" /\ child # "up"
    /\ child' = IF Owned THEN "none" ELSE child
    /\ Goto(t, "sub")
    /\ UNCHANGED <<mode, active, opening, closing, spawning, uploading, uploads, lock, ui,
                   diskVars, watch, busy, landed, history>>

(* Variant: does not look again.                                           *)
RecheckNot(t) ==
    /\ Unlocked /\ up[t].at = "recheck"
    /\ Goto(t, "send")
    /\ UNCHANGED <<mode, active, opening, closing, spawning, uploading, uploads, lock, ui,
                   diskVars, serverVars, history>>

\* A recording may have begun meanwhile: stop_if_idle asks for jobs first, and a
\* backend that does not say that it has none is left alone.
Recheck(t) ==
    /\ Unlocked /\ up[t].at = "recheck"
    /\ \/ active = None /\ Goto(t, "send") /\ UNCHANGED excused
       \/ /\ active # None /\ child = "up" /\ ~busy
          /\ Goto(t, "yield")
          /\ UNCHANGED excused
       \/ /\ active # None
          /\ Goto(t, "gate")
          /\ excused' = (excused \/ child = "up")
    /\ UNCHANGED <<mode, active, opening, closing, spawning, uploading, uploads, lock, ui,
                   diskVars, serverVars, turns, early>>

Yield(t) ==
    /\ up[t].at = "yield"
    /\ child' = IF Owned THEN "none" ELSE child
    /\ Goto(t, "gate")
    /\ UNCHANGED <<mode, active, opening, closing, spawning, uploading, uploads, lock, ui,
                   diskVars, watch, busy, landed, history>>

\* upload_meeting: health, create_meeting, and the files there are, each with its
\* retries; no file is no error.  Progress sets the slot of the UI again.
Send(t) ==
    LET d == up[t].dir IN
    /\ Unlocked /\ up[t].at = "send" /\ Reachable
    /\ uploading' = TRUE
    /\ up' = [up EXCEPT ![t].at = "finish",
                        ![t].sent = IF disk[d] = "complete" THEN "whole" ELSE "part"]
    /\ UNCHANGED <<mode, active, opening, closing, spawning, uploads, lock, ui,
                   diskVars, serverVars, history>>

Finish(t) ==
    /\ up[t].at = "finish" /\ Reachable
    /\ landed' = IF up[t].sent = "whole" THEN landed \cup {up[t].dir} ELSE landed
    /\ Goto(t, "process")
    /\ UNCHANGED <<mode, active, opening, closing, spawning, uploading, uploads, lock, ui,
                   diskVars, child, watch, busy, history>>

\* The files were sent: a refusal is only noted.
Process(t) ==
    /\ up[t].at = "process"
    /\ busy' \in IF Reachable THEN {busy, TRUE} ELSE {busy}
    /\ Goto(t, "mark")
    /\ UNCHANGED <<mode, active, opening, closing, spawning, uploading, uploads, lock, ui,
                   diskVars, child, watch, landed, history>>

(* Variant: the folder is marked whatever came of the upload.              *)
FailsMarked(t) ==
    /\ up[t].at \in {"send", "finish"}
    /\ Goto(t, "mark")
    /\ UNCHANGED <<mode, active, opening, closing, spawning, uploading, uploads, lock, ui,
                   diskVars, serverVars, history>>

\* The server cannot be reached or refuses, a file is gone: the recording stays.
Fails(t) ==
    /\ up[t].at \in {"send", "finish"}
    /\ Goto(t, "sub")
    /\ UNCHANGED <<mode, active, opening, closing, spawning, uploading, uploads, lock, ui,
                   diskVars, serverVars, history>>

Mark(t) ==
    LET d == up[t].dir IN
    /\ up[t].at = "mark"
    /\ uploaded' = IF disk[d] # "gone" THEN uploaded \cup {d} ELSE uploaded
    /\ Goto(t, "sub")
    /\ UNCHANGED <<mode, active, opening, closing, spawning, uploading, uploads, lock, ui,
                   disk, serverVars, history>>

(* Variant: the last one that ends looks at what the count is now.         *)
SubtractAfter(t) ==
    /\ up[t].at = "sub"
    /\ uploads' = uploads - 1
    /\ up' = [up EXCEPT ![t] = IF uploads' = 1 THEN [NoThread EXCEPT !.at = "clear"] ELSE NoThread]
    /\ lock' = IF uploads' = 1 THEN lock ELSE None
    /\ UNCHANGED <<mode, active, opening, closing, spawning, uploading, ui, diskVars,
                   serverVars, history>>

\* fetch_sub; the lock is released at the end of the thread.
Subtract(t) ==
    /\ up[t].at = "sub"
    /\ uploads' = uploads - 1
    /\ up' = [up EXCEPT ![t] = IF uploads = 1 THEN [NoThread EXCEPT !.at = "clear"] ELSE NoThread]
    /\ lock' = IF uploads = 1 THEN lock ELSE None
    /\ UNCHANGED <<mode, active, opening, closing, spawning, uploading, ui, diskVars,
                   serverVars, history>>

Clear(t) ==
    /\ Unlocked /\ up[t].at = "clear"
    /\ uploading' = FALSE
    /\ lock' = None
    /\ up' = [up EXCEPT ![t] = NoThread]
    /\ UNCHANGED <<mode, active, opening, closing, spawning, uploads, ui, diskVars,
                   serverVars, history>>

-----------------------------------------------------------------------------
(* The local backend.                                                      *)

\* ensure_backend lets go of the lock before it starts anything.
UiCheck ==
    /\ Unlocked /\ mode = "local" /\ ui = "idle" /\ active = None
    /\ turns < MaxTurns
    /\ turns' = turns + 1
    /\ ui' = "ensure"
    /\ UNCHANGED <<mode, active, opening, closing, spawning, uploading, uploads, lock, up,
                   diskVars, serverVars, excused, early>>

UiEnsure ==
    /\ ui = "ensure"
    /\ CASE child \in {"up", "orphan"} -> ui' = "idle" /\ UNCHANGED child
         [] OTHER -> ui' = "wait" /\ child' = "starting"
    /\ UNCHANGED <<mode, active, opening, closing, spawning, uploading, uploads, lock, up,
                   diskVars, watch, busy, landed, history>>

UiReady ==
    /\ ui = "wait"
    /\ ui' = "idle"
    /\ child' = IF child = "starting" THEN "none" ELSE child    \* 90 seconds are over
    /\ excused' = (excused \/ (opening # "no" /\ child = "up"))
    /\ UNCHANGED <<mode, active, opening, closing, spawning, uploading, uploads, lock, up,
                   diskVars, watch, busy, landed, turns, early>>

ChildUp ==
    /\ child = "starting"
    /\ child' = "up"
    /\ UNCHANGED <<mode, ctlVars, diskVars, watch, busy, landed, history>>

\* It is killed by a native crash; parentwatch ends one whose app is gone.
ChildDies ==
    /\ child # "none"
    /\ child' = "none"
    /\ UNCHANGED <<mode, ctlVars, diskVars, watch, busy, landed, history>>

\* idle_tick: no job was active for a while, and the window is closed.
WatchAsk ==
    /\ child = "up" /\ ~busy /\ ~watch
    /\ watch' = TRUE
    /\ UNCHANGED <<mode, ctlVars, diskVars, child, busy, landed, history>>

WatchStop ==
    /\ watch
    /\ watch' = FALSE
    /\ child' = IF Owned THEN "none" ELSE child
    /\ UNCHANGED <<mode, ctlVars, diskVars, busy, landed, history>>

\* process_meeting, asked for in the list of meetings; the last job ends.
Request ==
    /\ Reachable
    /\ busy' = TRUE
    /\ UNCHANGED <<mode, ctlVars, diskVars, child, watch, landed, history>>

JobsEnd ==
    /\ Reachable /\ busy
    /\ busy' = FALSE
    /\ UNCHANGED <<mode, ctlVars, diskVars, child, watch, landed, history>>

-----------------------------------------------------------------------------
(* The app ends, and is started again.                                     *)

Ended(onDisk, backend) ==
    /\ turns < MaxTurns
    /\ turns' = turns + 1
    /\ active' = None /\ opening' = "no" /\ closing' = None
    /\ spawning' = [c \in Callers |-> NoSpawn]
    /\ uploading' = FALSE /\ uploads' = 0 /\ lock' = None
    /\ up' = [t \in Threads |-> NoThread]
    /\ ui' = "idle"
    /\ disk' = onDisk
    /\ child' = backend
    /\ watch' = FALSE
    /\ excused' = FALSE
    /\ UNCHANGED <<mode, uploaded, busy, landed, early>>

\* stop_for_quit closes the active recording, whatever was captured; one that is
\* being closed already is cut off with the process.
Quit(closed) ==
    /\ Unlocked
    /\ Ended([d \in Dirs |-> IF disk[d] # "writing" THEN disk[d]
                             ELSE IF d = active THEN closed ELSE "left"],
             IF Owned THEN "none" ELSE child)

Kill ==
    Ended([d \in Dirs |-> IF disk[d] = "writing" THEN "left" ELSE disk[d]],
          IF Owned THEN "orphan" ELSE child)

Run(t) ==
    \/ Lock(t) \/ Gate(t) \/ Ensure(t) \/ Ready(t) \/ NotReady(t) \/ Recheck(t) \/ Yield(t)
    \/ Send(t) \/ Finish(t) \/ Process(t) \/ Fails(t) \/ Mark(t)
    \/ Subtract(t) \/ Clear(t)

Next ==
    \/ StartAsk \/ StopTake \/ (\E usable \in BOOLEAN : StopClose(usable))
    \/ \E d \in Dirs : StartGo(d)
    \/ \E d \in Dirs : Discard(d) \/ \E c \in Clicks : Retry(c, d)
    \/ \E c \in Clicks : Recover(c)
    \/ \E c \in Callers : SpawnSlot(c) \/ \E t \in Threads : SpawnCount(c, t)
    \/ \E t \in Threads : Run(t)
    \/ UiCheck \/ UiEnsure \/ UiReady
    \/ ChildUp \/ ChildDies \/ WatchAsk \/ WatchStop
    \/ Request \/ JobsEnd
    \/ (\E closed \in {"complete", "bare"} : Quit(closed)) \/ Kill

Spec == Init /\ [][Next]_vars

-----------------------------------------------------------------------------
\* Every variable has its type, and the lock is held by the thread that works.
TypeOK ==
    /\ mode \in Modes
    /\ active \in Dirs \cup {None} /\ closing \in Dirs \cup {None}
    /\ opening \in {"no", "idle", "busy", "silent"}
    /\ spawning \in [Callers -> Spawn]
    /\ uploading \in BOOLEAN
    /\ uploads \in Nat
    /\ lock \in Threads \cup {None}
    /\ up \in [Threads -> Thread]
    /\ \A t \in Threads : up[t].at \notin {"idle", "queued"} <=> lock = t
    /\ ui \in {"idle", "ensure", "wait"}
    /\ disk \in [Dirs -> Audio] /\ uploaded \subseteq Dirs
    /\ child \in {"none", "starting", "up", "orphan"} /\ watch \in BOOLEAN
    /\ busy \in BOOLEAN
    /\ landed \subseteq Dirs
    /\ turns \in 0..MaxTurns
    /\ excused \in BOOLEAN /\ early \subseteq Dirs

\* A folder that holds audio and has uploaded.json, so that no list offers it for
\* upload again, has its whole audio on the server in a meeting that was finished -
\* whatever failed or stopped in between.  Not so a folder that was retried while it
\* was still written (early): being recorded to, being closed, or captured to by a
\* start that failed.
UploadedIsWhole == \A d \in uploaded \ early : disk[d] # "bare" => d \in landed

\* During a recording the backend runs only until the upload that started it has
\* looked again (controller.rs:438 "back off, again") - or for one of the reasons
\* in excused: it had jobs, or did not answer, when start or the upload asked it to
\* stop; or a list of meetings that asked before the recording began has started it,
\* which controller.rs:225-232 means to rule out and does not.
RecordingIsLight ==
    active # None /\ Owned /\ ~excused =>
        \E t \in Threads : up[t].at \in {"ensure", "wait", "recheck", "yield"}

\* When no upload is queued, running or about to be, the slot of the UI is empty:
\* otherwise it would show an upload for ever and refuse every retry.
SlotIsFreed ==
    /\ uploads = 0
    /\ \A t \in Threads : up[t].at = "idle"
    /\ \A c \in Callers : spawning[c].at # "count"
    => ~uploading
=============================================================================

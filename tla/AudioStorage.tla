---------------------------- MODULE AudioStorage ----------------------------
(***************************************************************************)
(* The audio of one meeting: storage.py with the handlers that call it     *)
(* (upload_audio and get_audio in api.py, purge_meeting in trash.py) and   *)
(* the worker's use of it.                                                 *)
(*                                                                         *)
(* The server is one process with one event loop.  Copying an upload into  *)
(* place never gives the loop back (the generator it reads from does not   *)
(* wait); calls to the object store and the rmtree of LocalStorage run in  *)
(* threads next to the loop.  The process may stop at any point.           *)
(*                                                                         *)
(* The object store and boto3 are external: download_file writes to a name *)
(* of its own next to the target and renames it when it is complete;       *)
(* upload_file reads the file once; the last object put wins.  rmtree is   *)
(* one step.  A version is what one upload brings.                         *)
(***************************************************************************)
EXTENDS Naturals

CONSTANTS
    Sources,        \* mic, speaker
    Uploads,        \* slots for PUT requests in flight
    Listeners,      \* slots for GET requests in flight
    Worker,         \* the job on this meeting
    None,
    Stores,         \* which storage settings choose from: "local", "s3"
    MaxVersions,    \* bound: uploads that reach the storage
    MaxCrashes      \* bound: times the process stops

ASSUME NoneAssumption == None \notin Uploads /\ Worker \notin Listeners
ASSUME BoundsAssumption == MaxVersions \in Nat /\ MaxCrashes \in Nat
ASSUME StoresAssumption == Stores \subseteq {"local", "s3"}

VARIABLES
    store,          \* LocalStorage or S3Storage
    object,         \* the version in the object store, 0 for none
    wav, part,      \* the files <source>.wav and <source>.part
    row,            \* the meeting is in the database
    up,             \* the uploads
    get,            \* those who ask for a local file
    purge,          \* where the purge is
    todo,           \* the sources whose objects it has yet to delete
    loop,           \* the upload that holds the event loop, or None
    \* history
    versions,       \* uploads that reached the storage
    acked,          \* the latest version that was answered with 201
    torn,           \* uploads a write of which failed while a download waited to be placed
    shared,         \* sources an upload of which overlapped another transfer
    late,           \* an upload was under way while the meeting was purged
    crashes

files == <<object, wav, part>>
history == <<versions, acked, torn, shared, late, crashes>>
vars == <<store, files, row, up, get, purge, todo, loop, history>>

-----------------------------------------------------------------------------
Versions == 0..MaxVersions
File == [version : Versions, whole : BOOLEAN]
NoFile == [version |-> 0, whole |-> FALSE]
Copy(v) == [version |-> v, whole |-> v \notin torn]
Readers == Listeners \cup {Worker}

Upload == [at : {"idle", "body", "spool", "send", "sending"}, source : Sources \cup {None},
           version : Versions, carries : Versions]
NoUpload == [at |-> "idle", source |-> None, version |-> 0, carries |-> 0]

\* temp: the version in the file that download_file writes, 0 when it was removed.
Reader == [at : {"idle", "get", "fetch", "place", "use"}, source : Sources \cup {None},
           temp : Versions]
NoReader == [at |-> "idle", source |-> None, temp |-> 0]

Uploading(u, s) == up[u].source = s /\ up[u].at # "idle"
Downloading(r, s) == get[r].source = s /\ get[r].at \in {"get", "fetch", "place"}
Purging == purge # "idle" \/ ~row

Init ==
    /\ store \in Stores
    /\ object = [s \in Sources |-> 0]
    /\ wav = [s \in Sources |-> NoFile]
    /\ part = [s \in Sources |-> NoFile]
    /\ row = TRUE
    /\ up = [u \in Uploads |-> NoUpload]
    /\ get = [r \in Readers |-> NoReader]
    /\ purge = "idle"
    /\ todo = {}
    /\ loop = None
    /\ versions = 0
    /\ acked = [s \in Sources |-> 0]
    /\ torn = {} /\ shared = {}
    /\ late = FALSE
    /\ crashes = 0

-----------------------------------------------------------------------------
(* upload_audio and save_audio.                                            *)

EndUpload(u) == up' = [up EXCEPT ![u] = NoUpload]

\* The body goes to a file of the request's own.
UploadStart(u, s) ==
    /\ loop = None /\ row
    /\ up[u].at = "idle" /\ versions < MaxVersions
    /\ up' = [up EXCEPT ![u] = [NoUpload EXCEPT !.at = "body", !.source = s]]
    /\ shared' = IF \/ \E v \in Uploads : Uploading(v, s)
                    \/ \E r \in Readers : Downloading(r, s)
                 THEN shared \cup {s} ELSE shared
    /\ late' = (late \/ Purging)
    /\ UNCHANGED <<store, files, row, get, purge, todo, loop, versions, acked, torn, crashes>>

\* Too large, empty, not audio, the client goes away, or no file can be opened.
UploadRefused(u) ==
    /\ loop = None
    /\ up[u].at = "body"
    /\ EndUpload(u)
    /\ UNCHANGED <<store, files, row, get, purge, todo, loop, history>>

(* Variant: the upload is written to where readers look for it.            *)
SpoolStartInPlace(u) ==
    LET s == up[u].source IN
    /\ loop = None
    /\ up[u].at = "body" /\ versions < MaxVersions
    /\ versions' = versions + 1
    /\ wav' = [wav EXCEPT ![s] = [version |-> versions', whole |-> FALSE]]
    /\ part' = [part EXCEPT ![s] = [version |-> versions', whole |-> FALSE]]
    /\ up' = [up EXCEPT ![u].at = "spool", ![u].version = versions']
    /\ loop' = u
    /\ UNCHANGED <<store, object, row, get, purge, todo, acked, torn, shared, late, crashes>>

\* _spool opens <source>.part; the loop is not given back until it is written.
SpoolStart(u) ==
    LET s == up[u].source IN
    /\ loop = None
    /\ up[u].at = "body" /\ versions < MaxVersions
    /\ versions' = versions + 1
    /\ part' = [part EXCEPT ![s] = [version |-> versions', whole |-> FALSE]]
    /\ up' = [up EXCEPT ![u].at = "spool", ![u].version = versions']
    /\ loop' = u
    /\ UNCHANGED <<store, object, wav, row, get, purge, todo, acked, torn, shared, late,
                   crashes>>

Acked(u) == acked' = [acked EXCEPT ![up[u].source] =
                        IF up[u].version > @ THEN up[u].version ELSE @]

(* Variant: the loop is not given back.                                    *)
SpoolEndHolds(u) ==
    LET s == up[u].source IN
    /\ loop = u /\ part[s] # NoFile
    /\ wav' = [wav EXCEPT ![s] = Copy(part[s].version)]
    /\ part' = [part EXCEPT ![s] = NoFile]
    /\ IF store = "local"
       THEN Acked(u) /\ EndUpload(u)
       ELSE up' = [up EXCEPT ![u].at = "send"] /\ UNCHANGED acked
    /\ UNCHANGED <<store, object, row, get, purge, todo, loop, versions, torn, shared, late,
                   crashes>>

(* Variant: the object store gets the upload, an older copy stays in place.*)
SpoolEndBeside(u) ==
    LET s == up[u].source IN
    /\ loop = u
    /\ loop' = None
    /\ IF part[s] = NoFile
       THEN EndUpload(u) /\ UNCHANGED <<part, wav, acked>>
       ELSE /\ wav' = IF wav[s] # NoFile THEN wav
                      ELSE [wav EXCEPT ![s] = Copy(part[s].version)]
            /\ part' = [part EXCEPT ![s] = NoFile]
            /\ IF store = "local"
               THEN Acked(u) /\ EndUpload(u)
               ELSE up' = [up EXCEPT ![u].at = "send"] /\ UNCHANGED acked
    /\ UNCHANGED <<store, object, row, get, purge, todo, versions, torn, shared, late,
                   crashes>>

\* tmp.replace(path) moves what the name refers to by now: its own file, or one
\* that a thread renamed over it.  It fails when the folder was removed.
SpoolEnd(u) ==
    LET s == up[u].source IN
    /\ loop = u
    /\ loop' = None
    /\ IF part[s] = NoFile
       THEN EndUpload(u) /\ UNCHANGED <<part, wav, acked>>
       ELSE /\ wav' = [wav EXCEPT ![s] = Copy(part[s].version)]
            /\ part' = [part EXCEPT ![s] = NoFile]
            /\ IF store = "local"
               THEN Acked(u) /\ EndUpload(u)
               ELSE up' = [up EXCEPT ![u].at = "send"] /\ UNCHANGED acked
    /\ UNCHANGED <<store, object, row, get, purge, todo, versions, torn, shared, late,
                   crashes>>

\* A write or the flush at the end of _spool fails, the disk being full: what was
\* written stays under the name of the part file.
SpoolFails(u) ==
    LET s == up[u].source IN
    /\ loop = u
    /\ loop' = None
    /\ EndUpload(u)
    /\ torn' = IF \E r \in Readers : get[r].at = "place" /\ get[r].source = s
               THEN torn \cup {up[u].version} ELSE torn
    /\ UNCHANGED <<store, files, row, get, purge, todo, versions, acked, shared, late,
                   crashes>>

(* Variant: answers when the transfer has begun.                           *)
SendEarly(u) ==
    LET s == up[u].source IN
    /\ up[u].at = "send" /\ wav[s] # NoFile
    /\ up' = [up EXCEPT ![u].at = "sending", ![u].carries = wav[s].version]
    /\ Acked(u)
    /\ UNCHANGED <<store, files, row, get, purge, todo, loop, versions, torn, shared, late,
                   crashes>>

\* upload_file, in a thread: the file is read; it may have been released.
Send(u) ==
    LET s == up[u].source IN
    /\ up[u].at = "send" /\ wav[s] # NoFile
    /\ up' = [up EXCEPT ![u].at = "sending", ![u].carries = wav[s].version]
    /\ UNCHANGED <<store, files, row, get, purge, todo, loop, history>>

SendFails(u) ==
    /\ up[u].at \in {"send", "sending"}
    /\ EndUpload(u)
    /\ UNCHANGED <<store, files, row, get, purge, todo, loop, history>>

Sent(u) ==
    /\ up[u].at = "sending"
    /\ object' = [object EXCEPT ![up[u].source] = up[u].carries]
    /\ Acked(u)
    /\ EndUpload(u)
    /\ UNCHANGED <<store, wav, part, row, get, purge, todo, loop, versions, torn, shared,
                   late, crashes>>

-----------------------------------------------------------------------------
(* audio_path.                                                             *)

EndGet(r) == get' = [get EXCEPT ![r] = NoReader]

\* The file is there, or it is downloaded; LocalStorage has nothing to download.
Ask(r, s) ==
    /\ loop = None /\ row
    /\ get[r].at = "idle"
    /\ IF wav[s] # NoFile
       THEN /\ get' = [get EXCEPT ![r] = [NoReader EXCEPT !.at = "use", !.source = s]]
            /\ UNCHANGED shared
       ELSE /\ store = "s3"
            /\ get' = [get EXCEPT ![r] = [NoReader EXCEPT !.at = "get", !.source = s]]
            /\ shared' = IF \E u \in Uploads : Uploading(u, s)
                         THEN shared \cup {s} ELSE shared
    /\ UNCHANGED <<store, files, row, up, purge, todo, loop, versions, acked, torn, late,
                   crashes>>

\* download_file, in a thread.
Fetch(r) ==
    LET s == get[r].source IN
    /\ get[r].at = "get" /\ object[s] # 0
    /\ get' = [get EXCEPT ![r].at = "fetch", ![r].temp = object[s]]
    /\ UNCHANGED <<store, files, row, up, purge, todo, loop, history>>

\* 404 or another answer of the store: the .part file is removed.  A connection
\* that fails leaves it.
FetchRefused(r) ==
    /\ loop = None
    /\ get[r].at \in {"get", "fetch"}
    /\ part' \in {part, [part EXCEPT ![get[r].source] = NoFile]}
    /\ EndGet(r)
    /\ UNCHANGED <<store, object, wav, row, up, purge, todo, loop, history>>

\* The rename at the end of download_file, which needs the file it wrote.
Fetched(r) ==
    /\ get[r].at = "fetch"
    /\ IF get[r].temp # 0
       THEN /\ part' = [part EXCEPT ![get[r].source] = Copy(get[r].temp)]
            /\ get' = [get EXCEPT ![r].at = "place", ![r].temp = 0]
       ELSE EndGet(r) /\ UNCHANGED part
    /\ UNCHANGED <<store, object, wav, row, up, purge, todo, loop, history>>

\* tmp.replace(local), when the loop comes back to it.
Place(r) ==
    LET s == get[r].source IN
    /\ loop = None
    /\ get[r].at = "place"
    /\ IF part[s] = NoFile
       THEN EndGet(r) /\ UNCHANGED <<wav, part>>
       ELSE /\ wav' = [wav EXCEPT ![s] = part[s]]
            /\ part' = [part EXCEPT ![s] = NoFile]
            /\ get' = [get EXCEPT ![r].at = "use"]
    /\ UNCHANGED <<store, object, row, up, purge, todo, loop, history>>

\* The file was sent, or transcribed; a job releases the local copies at its end.
Rmtree ==
    /\ wav' = [s \in Sources |-> NoFile]
    /\ part' = [s \in Sources |-> NoFile]

WithoutTemp(g) == [r \in Readers |-> [g[r] EXCEPT !.temp = 0]]

Listened(r) ==
    /\ get[r].at = "use" /\ r # Worker
    /\ EndGet(r)
    /\ UNCHANGED <<store, files, row, up, purge, todo, loop, history>>

\* release_local at the end of every job, also of one that got no audio.
JobEnds ==
    /\ loop = None
    /\ get[Worker].at \in {"idle", "use"}
    /\ IF store = "s3"
       THEN Rmtree /\ get' = WithoutTemp([get EXCEPT ![Worker] = NoReader])
       ELSE get' = [get EXCEPT ![Worker] = NoReader] /\ UNCHANGED <<wav, part>>
    /\ UNCHANGED <<store, object, row, up, purge, todo, loop, history>>

-----------------------------------------------------------------------------
(* purge_meeting and delete_audio.                                         *)

PurgeStart ==
    /\ loop = None /\ row /\ purge = "idle"
    /\ get[Worker].at = "idle"              \* else Busy
    /\ purge' = IF store = "s3" THEN "objects" ELSE "rmtree"
    /\ todo' = IF store = "s3" THEN Sources ELSE {}
    /\ acked' = [s \in Sources |-> 0]
    /\ late' = (late \/ \E u \in Uploads : up[u].at # "idle")
    /\ UNCHANGED <<store, files, row, up, get, loop, versions, torn, shared, crashes>>

\* One source after the other; what is put afterwards stays.
DeleteObject(s) ==
    /\ purge = "objects" /\ s \in todo
    /\ object' = [object EXCEPT ![s] = 0]
    /\ todo' = todo \ {s}
    /\ purge' = IF todo' = {} THEN "rmtree" ELSE "objects"
    /\ UNCHANGED <<store, wav, part, row, up, get, loop, history>>

(* Variant: the local copies are left.                                     *)
PurgeFilesRemote ==
    /\ purge = "rmtree"
    /\ store = "s3" => loop = None
    /\ purge' = "rows"
    /\ UNCHANGED <<store, files, row, up, get, todo, loop, history>>

\* LocalStorage removes its folder in a thread, S3Storage its copies in the loop.
PurgeFiles ==
    /\ purge = "rmtree"
    /\ store = "s3" => loop = None
    /\ Rmtree
    /\ get' = WithoutTemp(get)
    /\ purge' = "rows"
    /\ UNCHANGED <<store, object, row, up, todo, loop, history>>

\* The storage answers with an error: the row stays, the purge can be retried.
PurgeFails ==
    /\ loop = None
    /\ purge \in {"objects", "rmtree"}
    /\ purge' = "idle" /\ todo' = {}
    /\ UNCHANGED <<store, files, row, up, get, loop, history>>

PurgeRows ==
    /\ loop = None
    /\ purge = "rows"
    /\ row' = FALSE
    /\ purge' = "idle"
    /\ UNCHANGED <<store, files, up, get, todo, loop, history>>

-----------------------------------------------------------------------------
\* The process stops and starts again: what the store and the folder hold stays as
\* it is, but a cache is dropped (lifespan).
Crash ==
    /\ crashes < MaxCrashes
    /\ crashes' = crashes + 1
    /\ up' = [u \in Uploads |-> NoUpload]
    /\ get' = [r \in Readers |-> NoReader]
    /\ purge' = "idle" /\ todo' = {}
    /\ loop' = None
    /\ IF store = "s3" THEN Rmtree ELSE UNCHANGED <<wav, part>>
    /\ UNCHANGED <<store, object, row, versions, acked, torn, shared, late>>

Next ==
    \/ \E u \in Uploads :
         \/ \E s \in Sources : UploadStart(u, s)
         \/ UploadRefused(u) \/ SpoolStart(u) \/ SpoolEnd(u) \/ SpoolFails(u)
         \/ Send(u) \/ SendFails(u) \/ Sent(u)
    \/ \E r \in Readers :
         \/ \E s \in Sources : Ask(r, s)
         \/ Fetch(r) \/ FetchRefused(r) \/ Fetched(r) \/ Place(r) \/ Listened(r)
    \/ JobEnds
    \/ PurgeStart \/ (\E s \in Sources : DeleteObject(s))
    \/ PurgeFiles \/ PurgeFails \/ PurgeRows
    \/ Crash

Spec == Init /\ [][Next]_vars

-----------------------------------------------------------------------------
\* Every variable has its type, and the loop is held by the upload that copies.
TypeOK ==
    /\ store \in Stores
    /\ object \in [Sources -> Versions]
    /\ wav \in [Sources -> File] /\ part \in [Sources -> File]
    /\ row \in BOOLEAN
    /\ up \in [Uploads -> Upload]
    /\ get \in [Readers -> Reader]
    /\ purge \in {"idle", "objects", "rmtree", "rows"} /\ todo \subseteq Sources
    /\ loop \in Uploads \cup {None}
    /\ \A u \in Uploads : up[u].at = "spool" <=> loop = u
    /\ versions \in Versions
    /\ acked \in [Sources -> Versions]
    /\ torn \subseteq Versions /\ shared \subseteq Sources
    /\ late \in BOOLEAN
    /\ crashes \in 0..MaxCrashes

\* storage.py:60 "a half-uploaded file never looks like a finished one", wherever
\* the process stops or a write fails and whatever two requests do to the same names.
\* Not so an upload that fails just when a download of the same source is complete
\* and waits for the loop (torn): that reader renames its half file (storage.py:143).
FinishedIsWhole ==
    \A s \in Sources : wav[s] # NoFile /\ wav[s].version \notin torn => wav[s].whole

\* What a job or a listener finds in the folder is no older than the last upload
\* that was answered with 201, unless an upload met another transfer of the same
\* source.
CopyIsFresh ==
    \A s \in Sources \ shared : wav[s] # NoFile => wav[s].version >= acked[s]

\* An upload that was answered with 201 stays in the storage until a purge of the
\* meeting begins - copies released, requests failing, the process stopping - unless
\* it met another transfer of the same source or the purge itself.
AckedIsStored ==
    \A s \in Sources \ shared :
        ~late /\ acked[s] > 0 =>
            IF store = "s3" THEN object[s] >= acked[s] ELSE wav[s].version >= acked[s]

\* Nothing of a purged meeting is left or comes back, although somebody listens
\* to it meanwhile, unless an upload was under way.
PurgeLeavesNothing ==
    ~row /\ ~late => \A s \in Sources : object[s] = 0 /\ wav[s] = NoFile /\ part[s] = NoFile
=============================================================================

----------------------------- MODULE EnginePack -----------------------------
(***************************************************************************)
(* The files of the speech engines: install and warmup (enginepack.py), the*)
(* downloads beneath them (engine_assets.py), the conversion for OpenVINO  *)
(* (engines/openvino.py) and the transcriber that uses what they leave.    *)
(*                                                                         *)
(* The command line, the desktop app and the worker are processes of their *)
(* own that share one folder without a lock.  Any of them may stop at any  *)
(* point; the steps of a finally clause then do not happen.                *)
(*                                                                         *)
(* A file is a name that refers to contents (an inode).  A process writes  *)
(* through the contents it opened, whatever happens to the name meanwhile. *)
(* Contents are the set of blocks that are written.  pip and the converter *)
(* are external.  Responses carry a Content-Length.                        *)
(***************************************************************************)
EXTENDS Integers, FiniteSets

CONSTANTS
    Procs,          \* processes
    Blocks,         \* length of every downloaded file
    Inodes,         \* bound: contents in use at once
    None,           \* no contents, no process
    Faults,         \* what may happen: "stop", "disk"
    MaxStarts       \* bound: commands that are started

ASSUME BlocksAssumption == Blocks \in Nat \ {0} /\ MaxStarts \in Nat
ASSUME NoneAssumption == None \notin Inodes

VARIABLES
    \* the folder
    part,           \* what the name <file>.part refers to
    dest,           \* what the name <file> refers to
    contents,       \* the blocks written, by inode
    program,        \* the entries unpacked into whispercpp/
    libs,           \* packages that pip put in place, by kind
    marker,         \* installed.json: a kind, "none", or "torn" while it is written
    ir,             \* files of the converted model
    \* processes
    job,            \* what the process was started for
    at,             \* where it is
    fd,             \* the contents it writes to
    done,           \* blocks it has received
    \* history
    starts,         \* commands started
    crowded,        \* work that two processes did at the same time
    damaged         \* jobs that were cut short and not done again since

diskVars == <<part, dest, contents, program, libs, marker, ir>>
procVars == <<job, at, fd, done>>
vars == <<diskVars, procVars, starts, crowded, damaged>>

-----------------------------------------------------------------------------
Files == {"zip", "model"}
Whole == 1..Blocks
Entries == {"exe", "lib"}           \* of the archive: the program and what it needs
PipKinds == {"cpu", "openvino"}     \* "cuda" is installed as "cpu" is
Kinds == PipKinds \cup {"vulkan"}
Jobs == {"idle", "model", "convert"} \cup Kinds

FileOf(p) == IF job[p] = "model" THEN "model" ELSE "zip"

\* The installs share files, whatever their kind.
Work(j) == IF j \in Kinds THEN "install" ELSE j

InUse == {part[f] : f \in Files} \cup {dest[f] : f \in Files} \cup {fd[p] : p \in Procs}

Init ==
    /\ part = [f \in Files |-> None]
    /\ dest = [f \in Files |-> None]
    /\ contents = [i \in Inodes |-> {}]
    /\ program = {}
    /\ libs = [k \in PipKinds |-> "none"]
    /\ marker = "none"
    /\ ir = {}
    /\ job = [p \in Procs |-> "idle"]
    /\ at = [p \in Procs |-> "start"]
    /\ fd = [p \in Procs |-> None]
    /\ done = [p \in Procs |-> 0]
    /\ starts = 0
    /\ crowded = {}
    /\ damaged = {}

Go(p, point) ==
    /\ at' = [at EXCEPT ![p] = point]
    /\ UNCHANGED <<job, fd, done, starts, crowded, damaged>>

Over(p) ==                          \* the command ends
    /\ job' = [job EXCEPT ![p] = "idle"]
    /\ at' = [at EXCEPT ![p] = "start"]
    /\ fd' = [fd EXCEPT ![p] = None]
    /\ done' = [done EXCEPT ![p] = 0]
    /\ UNCHANGED <<starts, crowded>>

CutShort(p) ==                      \* it ends in the middle
    /\ damaged' = damaged \cup {job[p]}
    /\ Over(p)

-----------------------------------------------------------------------------
\* existing_model: any file of that name that is not tiny.
ModelExists == dest["model"] # None /\ contents[dest["model"]] # {}

FindBinary == "exe" \in program

\* _kind: the marker, None when it cannot be read.
Kind == IF marker \in Kinds THEN marker ELSE "none"

\* use_vulkan, use_openvino with the device "auto".
Chosen == IF Kind \in {"vulkan", "openvino"} THEN Kind ELSE "cpu"

\* status: installed, as far as can be told without importing anything.
Asr == libs["cpu"] # "none" \/ (Kind = "openvino" /\ libs["openvino"] # "none")
                            \/ (Kind = "vulkan" /\ FindBinary)

Start(p, j) ==
    /\ job[p] = "idle" /\ starts < MaxStarts
    /\ starts' = starts + 1
    /\ job' = [job EXCEPT ![p] = j]
    /\ at' = [at EXCEPT ![p] = CASE j = "model" -> IF ModelExists THEN "use" ELSE "open"
                                 [] j = "vulkan" -> "open"
                                 [] j = "convert" -> IF "model" \in ir THEN "load" ELSE "export"
                                 [] j \in PipKinds -> "pip"]
    /\ crowded' = crowded \cup {Work(j) : q \in {r \in Procs \ {p} : Work(job[r]) = Work(j)}}
    /\ UNCHANGED <<diskVars, fd, done, damaged>>

-----------------------------------------------------------------------------
(* download.                                                               *)

\* open(part, "wb"): what another process has under that name is emptied.
Open(p) ==
    LET f == FileOf(p) IN
    /\ at[p] = "open"
    /\ \E i \in Inodes :
         /\ IF part[f] # None THEN i = part[f] ELSE i \notin InUse
         /\ part' = [part EXCEPT ![f] = i]
         /\ contents' = [contents EXCEPT ![i] = {}]
         /\ fd' = [fd EXCEPT ![p] = i]
    /\ at' = [at EXCEPT ![p] = "read"]
    /\ UNCHANGED <<dest, program, libs, marker, ir, job, done, starts, crowded, damaged>>

Read(p) ==
    /\ at[p] = "read" /\ done[p] < Blocks
    /\ contents' = [contents EXCEPT ![fd[p]] = @ \cup {done[p] + 1}]
    /\ done' = [done EXCEPT ![p] = @ + 1]
    /\ UNCHANGED <<part, dest, program, libs, marker, ir, job, at, fd, starts, crowded, damaged>>

\* The address cannot be reached, the connection ends early, the disk is full.
Broken(p) ==
    /\ at[p] = "open" \/ (at[p] = "read" /\ done[p] < Blocks)
    /\ Go(p, "cleanup")
    /\ UNCHANGED diskVars

(* Variant: the move comes before the length is compared.                  *)
VerifyLater(p) ==
    LET f == FileOf(p) IN
    /\ at[p] = "read"
    /\ Go(p, IF f = "zip" /\ (part[f] = None \/ contents[part[f]] # Whole)
             THEN "cleanup" ELSE "replace")
    /\ UNCHANGED diskVars

\* sha256_file(part) reads whatever the name refers to; a model has no checksum.
Verify(p) ==
    LET f == FileOf(p) IN
    /\ at[p] = "read" /\ done[p] = Blocks
    /\ Go(p, IF f = "zip" /\ (part[f] = None \/ contents[part[f]] # Whole)
             THEN "cleanup" ELSE "replace")
    /\ UNCHANGED diskVars

Replace(p) ==
    LET f == FileOf(p) IN
    /\ at[p] = "replace"
    /\ IF part[f] = None
       THEN Go(p, "cleanup") /\ UNCHANGED diskVars
       ELSE /\ dest' = [dest EXCEPT ![f] = part[f]]
            /\ part' = [part EXCEPT ![f] = None]
            /\ Go(p, "moved")
            /\ UNCHANGED <<contents, program, libs, marker, ir>>

\* finally: part.unlink(missing_ok=True).
Cleanup(p) ==
    /\ at[p] \in {"cleanup", "moved"}
    /\ part' = [part EXCEPT ![FileOf(p)] = None]
    /\ IF at[p] = "cleanup" THEN Over(p)
       ELSE /\ at' = [at EXCEPT ![p] = IF job[p] = "model" THEN "use" ELSE "rmtree"]
            /\ fd' = [fd EXCEPT ![p] = None]
            /\ done' = [done EXCEPT ![p] = 0]
            /\ UNCHANGED <<job, starts, crowded>>
    /\ UNCHANGED <<dest, contents, program, libs, marker, ir, damaged>>

\* The transcriber, or warmup's message that the model is ready.
Use(p) ==
    /\ at[p] = "use"
    /\ Over(p)
    /\ UNCHANGED <<diskVars, damaged>>

-----------------------------------------------------------------------------
(* install_program, and the end of install.                                *)

Rmtree(p) ==
    /\ at[p] = "rmtree"
    /\ program' = {}
    /\ Go(p, "unzip")
    /\ UNCHANGED <<part, dest, contents, libs, marker, ir>>

OpenZip(p) ==
    /\ at[p] = "unzip" /\ dest["zip"] # None
    /\ fd' = [fd EXCEPT ![p] = dest["zip"]]
    /\ at' = [at EXCEPT ![p] = "extract"]
    /\ UNCHANGED <<diskVars, job, done, starts, crowded, damaged>>

\* safe_extract, entry by entry; the archive lists the program first.
Extract(p, e) ==
    /\ at[p] = "extract" /\ contents[fd[p]] = Whole
    /\ done[p] < Cardinality(Entries)
    /\ e = IF done[p] = 0 THEN "exe" ELSE "lib"
    /\ program' = program \cup {e}
    /\ done' = [done EXCEPT ![p] = @ + 1]
    /\ UNCHANGED <<part, dest, contents, libs, marker, ir, job, at, fd, starts, crowded, damaged>>

\* The zip is gone or cannot be read, or the disk is full: the zip is removed,
\* what has been unpacked stays.
ExtractFails(p) ==
    /\ \/ at[p] = "unzip" /\ dest["zip"] = None
       \/ at[p] = "extract" /\ ("disk" \in Faults \/ contents[fd[p]] # Whole)
    /\ dest' = [dest EXCEPT !["zip"] = None]
    /\ CutShort(p)
    /\ UNCHANGED <<part, contents, program, libs, marker, ir>>

\* finally: the zip is removed; then the program must be found.
Extracted(p, diarize) ==
    /\ at[p] = "extract" /\ done[p] = Cardinality(Entries)
    /\ dest' = [dest EXCEPT !["zip"] = None]
    /\ IF FindBinary
       THEN /\ at' = [at EXCEPT ![p] = IF diarize THEN "pip" ELSE "mark"]
            /\ fd' = [fd EXCEPT ![p] = None]
            /\ done' = [done EXCEPT ![p] = 0]
            /\ UNCHANGED <<job, starts, crowded, damaged>>
       ELSE CutShort(p)
    /\ UNCHANGED <<part, contents, program, libs, marker, ir>>

\* pip moves finished packages into the folder one by one (with --diarize also
\* after the program of "vulkan", where it adds nothing this model names).
Pip(p) ==
    /\ at[p] = "pip"
    /\ IF job[p] \in PipKinds
       THEN IF libs[job[p]] = "some"
            THEN libs' = [libs EXCEPT ![job[p]] = "all"] /\ Go(p, "mark")
            ELSE libs' = [libs EXCEPT ![job[p]] = "some"] /\ Go(p, "pip")
       ELSE Go(p, "mark") /\ UNCHANGED libs
    /\ UNCHANGED <<part, dest, contents, program, marker, ir>>

(* Variant: the exit code is not looked at.                                *)
PipFailsUnseen(p) ==
    /\ at[p] = "pip"
    /\ Go(p, "mark")
    /\ UNCHANGED diskVars

\* A non-zero exit code: no marker is written.  One retry without pins is another
\* run of pip.
PipFails(p) ==
    /\ at[p] = "pip"
    /\ CutShort(p)
    /\ UNCHANGED diskVars

\* write_text: the file is emptied, then written.
Mark(p) ==
    /\ at[p] = "mark"
    /\ marker' = "torn"
    /\ Go(p, "write")
    /\ UNCHANGED <<part, dest, contents, program, libs, ir>>

Written(p) ==
    /\ at[p] = "write"
    /\ marker' = job[p]
    /\ damaged' = damaged \ {job[p]}
    /\ Over(p)
    /\ UNCHANGED <<part, dest, contents, program, libs, ir>>

-----------------------------------------------------------------------------
(* prepare_model: the model is saved, then the processor.                  *)

(* Variant: the processor is not saved.                                    *)
ExportOnly(p) ==
    /\ at[p] = "export"
    /\ ir' = ir \cup {"model"}
    /\ Go(p, "load")
    /\ UNCHANGED <<part, dest, contents, program, libs, marker>>

Export(p) ==
    /\ at[p] = "export"
    /\ ir' = ir \cup {"model"}
    /\ Go(p, "processor")
    /\ UNCHANGED <<part, dest, contents, program, libs, marker>>

SaveProcessor(p) ==
    /\ at[p] = "processor"
    /\ ir' = ir \cup {"processor"}
    /\ Go(p, "load")
    /\ UNCHANGED <<part, dest, contents, program, libs, marker>>

ConvertFails(p) ==
    /\ at[p] \in {"export", "processor"}
    /\ CutShort(p)
    /\ UNCHANGED diskVars

\* _load: the processor is read from the folder too.
Load(p) ==
    /\ at[p] = "load"
    /\ Over(p)
    /\ UNCHANGED <<diskVars, damaged>>

Stop(p) ==
    /\ "stop" \in Faults
    /\ job[p] # "idle"
    /\ CutShort(p)
    /\ UNCHANGED diskVars

Step(p) ==
    \/ Open(p) \/ Read(p) \/ Broken(p) \/ Verify(p) \/ Replace(p) \/ Cleanup(p) \/ Use(p)
    \/ Rmtree(p) \/ OpenZip(p) \/ (\E e \in Entries : Extract(p, e)) \/ ExtractFails(p)
    \/ (\E diarize \in BOOLEAN : Extracted(p, diarize))
    \/ Pip(p) \/ PipFails(p) \/ Mark(p) \/ Written(p)
    \/ Export(p) \/ SaveProcessor(p) \/ ConvertFails(p) \/ Load(p)

Next ==
    \E p \in Procs : Step(p) \/ Stop(p) \/ \E j \in Jobs \ {"idle"} : Start(p, j)

Spec == Init /\ [][Next]_vars

-----------------------------------------------------------------------------
\* A model that the transcriber would take is complete, wherever a download broke
\* off or its process stopped, and whatever an earlier one left in the .part
\* file, as long as one process at a time downloads it.
AcceptedModelIsWhole ==
    ModelExists /\ "model" \notin crowded => contents[dest["model"]] = Whole

Installed(k) == IF k = "vulkan" THEN program = Entries ELSE libs[k] = "all"

\* What installed.json names is completely there after installs of several kinds, and
\* status says "installed" only when the engine that the transcriber chooses is.  Not
\* so for a kind whose last install failed or was stopped halfway until it is done
\* again (damaged) - an older marker may name it - nor once two installs have run at
\* the same time (crowded).
MarkerTellsTheTruth ==
    "install" \notin crowded =>
        /\ \A k \in Kinds \ damaged :
             marker = k /\ (\A p \in Procs : job[p] # k) => Installed(k)
        /\ damaged \cap Kinds = {} /\ (\A p \in Procs : job[p] \notin Kinds)
             => /\ Kind # "none" => Asr
                /\ Asr => Installed(Chosen)

\* A conversion that is found in the folder can be loaded unless one was cut
\* short or two ran at the same time.
ConversionLoads ==
    "convert" \notin damaged \cup crowded =>
        \A p \in Procs : at[p] = "load" => ir = {"model", "processor"}
=============================================================================

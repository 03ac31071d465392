---------------------------- MODULE WhisperEngine ----------------------------
(***************************************************************************)
(* The transcriber of a worker (engines/whisper.py): a model that is loaded*)
(* at the first recording, kept from job to job, given back when the queue *)
(* is empty (worker.py), and loaded again with a lighter setting when the  *)
(* GPU runs out of memory.                                                 *)
(*                                                                         *)
(* The worker calls it from one thread at a time.  Memory runs out, or does*)
(* not, whenever it likes: other programs use the same GPU.                *)
(***************************************************************************)
EXTENDS Naturals, Sequences

CONSTANTS
    FirstChoices,   \* what pick_device_and_compute may answer
    MaxCalls        \* bound: recordings that are transcribed

Settings == {"gpu", "gpu8", "cpu"}  \* the GPU with floats or with int8, and the CPU

ASSUME SettingsAssumption == FirstChoices \subseteq Settings /\ MaxCalls \in Nat

VARIABLES
    choice,         \* what pick_device_and_compute answers here
    model,          \* the setting of the loaded model, or "none"
    current,        \* the setting of the last attempt to load
    fallback,       \* settings to try next
    call,           \* "none", "load" or "run": where transcribe is
    calls           \* recordings so far

whisperVars == <<choice, model, current, fallback, call, calls>>

WhisperInit ==
    /\ choice \in FirstChoices
    /\ model = "none" /\ current = "cpu" /\ fallback = <<>>
    /\ call = "none" /\ calls = 0

(* _load: nothing is done while a model is loaded.                         *)
Transcribe ==
    /\ call = "none" /\ calls < MaxCalls
    /\ calls' = calls + 1
    /\ call' = IF model = "none" THEN "load" ELSE "run"
    /\ UNCHANGED <<choice, model, current, fallback>>

Picked == IF fallback = <<>> THEN choice ELSE Head(fallback)
Popped == IF fallback = <<>> THEN <<>> ELSE Tail(fallback)

Loaded ==
    /\ call = "load"
    /\ model' = Picked /\ current' = Picked /\ fallback' = Popped
    /\ call' = "run"
    /\ UNCHANGED <<choice, calls>>

(* Variant: int8 is tried on the GPU whatever failed there.                *)
LadderTooLong(setting) ==
    IF setting = "cpu" THEN <<>> ELSE <<"gpu8", "cpu">>

\* What is lighter than a setting, the heaviest first.
Ladder(setting) ==
    CASE setting = "gpu" -> <<"gpu8", "cpu">>
      [] setting = "gpu8" -> <<"cpu">>
      [] OTHER -> <<>>

(* transcribe, after an error with "out of memory" at this setting: the    *)
(* model is dropped and the call starts again, or the error goes on.       *)
Degrade(setting) ==
    IF Ladder(setting) = <<>>
    THEN call' = "none" /\ fallback' = (IF call = "load" THEN Popped ELSE fallback) /\ UNCHANGED model
    ELSE call' = "load" /\ fallback' = Ladder(setting) /\ model' = "none"

LoadOutOfMemory ==
    /\ call = "load"
    /\ current' = Picked
    /\ Degrade(Picked)
    /\ UNCHANGED <<choice, calls>>

RunOutOfMemory ==
    /\ call = "run"
    /\ Degrade(current)
    /\ UNCHANGED <<choice, current, calls>>

LoadFails ==                        \* another error: the caller's to read
    /\ call = "load"
    /\ current' = Picked /\ fallback' = Popped
    /\ call' = "none"
    /\ UNCHANGED <<choice, model, calls>>

Returned ==                         \* with the segments, or with another error
    /\ call = "run"
    /\ call' = "none"
    /\ UNCHANGED <<choice, model, current, fallback, calls>>

(* release, from the worker when the queue is empty.                       *)
Release ==
    /\ call = "none" /\ model # "none"
    /\ model' = "none"
    /\ UNCHANGED <<choice, current, fallback, call, calls>>

Attempt == Loaded \/ LoadOutOfMemory \/ LoadFails \/ RunOutOfMemory \/ Returned
WhisperNext == Transcribe \/ Attempt \/ Release
WhisperSpec == WhisperInit /\ [][WhisperNext]_whisperVars

-----------------------------------------------------------------------------
(* Properties *)

\* Whatever is left of earlier calls in the list of settings, a transcription ends:
\* however often memory runs out, transcribe does not call itself for ever
\* (whisper.py:79-85).
TranscriptionEnds == call # "none" ~> call = "none"
=============================================================================

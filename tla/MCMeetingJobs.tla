---------------------------- MODULE MCMeetingJobs ----------------------------
(***************************************************************************)
(* Model values and start states for MeetingJobs, for TLC.  Tasks, request *)
(* slots and workers are interchangeable, and the safety runs use that.    *)
(***************************************************************************)
EXTENDS MeetingJobs, Functions, TLC

Symmetry == Permutations(Tasks) \cup Permutations(Requests) \cup Permutations(Workers)

(* A full queue when the worker starts: every job row is in use, each for a *)
(* meeting of its own whose audio is uploaded, and a summary-only job has   *)
(* the transcript it asks for.                                              *)
QueuedInit ==
    /\ status = [m \in Meetings |-> "queued"]
    /\ trash = [m \in Meetings |-> "no"]
    /\ jmeeting \in {f \in [JobIds -> Meetings] : IsInjective(f)}
    /\ jkind \in [JobIds -> Kinds]
    /\ transcript = [m \in Meetings |->
                       \E j \in JobIds : jmeeting[j] = m /\ jkind[j] = "extract"]
    /\ summary = [m \in Meetings |-> FALSE]
    /\ suggested = [m \in Meetings |-> {}]
    /\ decided = [m \in Meetings |-> {}]
    /\ audio = [m \in Meetings |-> TRUE]
    /\ jstatus = [j \in JobIds |-> "queued"]
    /\ attempts = [j \in JobIds |-> 0]
    /\ wpc = [w \in Workers |-> "down"]
    /\ wjob = [w \in Workers |-> 0]
    /\ heard = [w \in Workers |-> FALSE]
    /\ req = [r \in Requests |-> NoRequest]
    /\ sweep = NoSweep

QueuedSpec ==
    QueuedInit /\ [][Next]_vars /\ \A w \in Workers : WorkerFairness(w)

=============================================================================

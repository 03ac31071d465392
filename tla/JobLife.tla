------------------------------- MODULE JobLife -------------------------------
(***************************************************************************)
(* What the job queue promises, without meetings, requests or worker code: *)
(* a submitted job is taken, one job at a time, at most MaxAttempts times, *)
(* and once it has an outcome it keeps it until its row is removed.        *)
(* MeetingJobs implements this with one worker process (LifeSpec there).   *)
(***************************************************************************)
EXTENDS Naturals

CONSTANTS Jobs,         \* job ids
          MaxAttempts   \* how often one job may be taken

VARIABLES life,   \* per job: the status column, "none" before the row exists
          tries   \* per job: how often it was taken

lifeVars == <<life, tries>>

LifeStates == {"none", "queued", "running", "done", "failed", "removed"}

LifeInit ==
    /\ life = [j \in Jobs |-> "none"]
    /\ tries = [j \in Jobs |-> 0]

Submit(j) ==
    /\ life[j] = "none"
    /\ life' = [life EXCEPT ![j] = "queued"]
    /\ UNCHANGED tries

(* Jobs run strictly one after the other. *)
Take(j) ==
    /\ life[j] = "queued"
    /\ \A i \in Jobs : life[i] # "running"
    /\ tries[j] < MaxAttempts
    /\ life' = [life EXCEPT ![j] = "running"]
    /\ tries' = [tries EXCEPT ![j] = @ + 1]

Settle(j) ==
    /\ life[j] = "running"
    /\ \E outcome \in {"done", "failed"} : life' = [life EXCEPT ![j] = outcome]
    /\ UNCHANGED tries

(* The process running j died: the job is due again, unless it is out of attempts. *)
PutBack(j) ==
    /\ life[j] = "running"
    /\ tries[j] < MaxAttempts
    /\ life' = [life EXCEPT ![j] = "queued"]
    /\ UNCHANGED tries

(* A meeting is purged: all its job rows go together, whatever their state. *)
Remove(S) ==
    /\ \A j \in S : life[j] # "none"
    /\ life' = [j \in Jobs |-> IF j \in S THEN "removed" ELSE life[j]]
    /\ UNCHANGED tries

LifeNext ==
    \/ \E j \in Jobs : Submit(j) \/ Take(j) \/ Settle(j) \/ PutBack(j)
    \/ \E S \in SUBSET Jobs : Remove(S)

LifeSpec == LifeInit /\ [][LifeNext]_lifeVars

=============================================================================

------------------------------ MODULE TaskPush ------------------------------
(***************************************************************************)
(* Sending confirmed tasks to GitHub or GitLab: push_meeting_tasks (api.py)*)
(* and push_tasks with its adapters (integrations.py), for one integration *)
(* of one server process.                                                  *)
(*                                                                         *)
(* The remote issue and the task_links row that remembers it cannot be one *)
(* transaction.  In between the answer may be lost, the process may stop,  *)
(* and the task or the integration may be deleted.  Requests queue for the *)
(* integration's lock, but read what they will send before they queue.     *)
(*                                                                         *)
(* faults says which faults a behaviour contains, so that a property can   *)
(* name the ones it needs to be spared:                                    *)
(*   "unreached"  the connection fails before the request is processed     *)
(*   "lost"       the request is processed but the answer never arrives    *)
(*   "hidden"     the service answers 404 for an issue that exists         *)
(*   "crash"      the server process stops                                 *)
(***************************************************************************)
EXTENDS Integers, Sequences

CONSTANTS
    Tasks,          \* task ids
    Pushes,         \* slots for push requests in flight
    None,           \* no task
    Faults,         \* the faults that may happen
    MaxAttempts,    \* integrations.MAX_ATTEMPTS
    MaxVersion,     \* bound: contents a task takes on, 1 at first
    MaxIssues       \* bound: issues the service creates before it refuses

ASSUME NoneAssumption == None \notin Tasks
ASSUME NumbersAssumption ==
    MaxAttempts \in Nat \ {0} /\ MaxVersion \in Nat \ {0} /\ MaxIssues \in Nat

VARIABLES
    task,           \* the row's status: "confirmed", "undecided" (or rejected), "gone"
    version,        \* its content, which the payload hash stands for
    integration,    \* "on", "off" (enabled = FALSE) or "gone"
    link,           \* the task_links rows of this integration
    issues,         \* the remote service's issues, by number
    faults,         \* which faults this behaviour has
    \* push requests
    at,             \* where the handler is
    todo,           \* chosen tasks still to send
    seen,           \* content of every task as the handler read it
    cur,            \* the task being sent
    ref,            \* the number of its issue, once known
    tries,          \* attempts of _send at the current call
    queue           \* waiters of the asyncio.Lock in order; the first one holds it

rowVars == <<task, version, integration>>
reqVars == <<at, todo, seen, cur, ref, tries, queue>>
vars == <<rowVars, link, issues, faults, reqVars>>

-----------------------------------------------------------------------------
Versions == 1..MaxVersion
Numbers == 0..MaxIssues              \* 0 is no issue
Issue == [task : Tasks, content : Versions, live : BOOLEAN]
Link == [state : {"none", "synced", "failed"}, issue : Numbers, sent : 0..MaxVersion]
NoLink == [state |-> "none", issue |-> 0, sent |-> 0]
AnyContent == [t \in Tasks |-> 1]    \* of a request that has read nothing

Calls == {"create", "patch", "estimate"}             \* inside _send
Points == Calls \cup {"idle", "read", "wait", "next", "save"}

Holder(p) == queue # <<>> /\ Head(queue) = p
Linkable(t) == task[t] # "gone" /\ integration # "gone"   \* both foreign keys hold

Init ==
    /\ task = [t \in Tasks |-> "confirmed"]
    /\ version = [t \in Tasks |-> 1]
    /\ integration = "on"
    /\ link = [t \in Tasks |-> NoLink]
    /\ issues = <<>>
    /\ faults \in SUBSET Faults
    /\ at = [p \in Pushes |-> "idle"]
    /\ todo = [p \in Pushes |-> {}]
    /\ seen = [p \in Pushes |-> AnyContent]
    /\ cur = [p \in Pushes |-> None]
    /\ ref = [p \in Pushes |-> 0]
    /\ tries = [p \in Pushes |-> 1]
    /\ queue = <<>>

-----------------------------------------------------------------------------
(* The request and its lock.                                               *)

(* _meeting: the confirmed tasks as they are now, all of them or the ones  *)
(* the user chose.                                                         *)
ReadTasks(p) ==
    /\ at[p] = "idle"
    /\ \E chosen \in SUBSET {t \in Tasks : task[t] = "confirmed"} :
         chosen # {} /\ todo' = [todo EXCEPT ![p] = chosen]
    /\ seen' = [seen EXCEPT ![p] = version]
    /\ at' = [at EXCEPT ![p] = "read"]
    /\ UNCHANGED <<rowVars, link, issues, faults, cur, ref, tries, queue>>

(* The request ends; what it held in memory is forgotten.                  *)
Leave(p) ==
    /\ at' = [at EXCEPT ![p] = "idle"]
    /\ todo' = [todo EXCEPT ![p] = {}]
    /\ cur' = [cur EXCEPT ![p] = None]
    /\ ref' = [ref EXCEPT ![p] = 0]
    /\ tries' = [tries EXCEPT ![p] = 1]
    /\ seen' = [seen EXCEPT ![p] = AnyContent]

LeaveLock(p) == Leave(p) /\ queue' = Tail(queue)

(* _integration, its enabled flag, and the lock.                           *)
LineUp(p) ==
    /\ at[p] = "read"
    /\ integration = "on"
    /\ at' = [at EXCEPT ![p] = "wait"]
    /\ queue' = Append(queue, p)
    /\ UNCHANGED <<rowVars, link, issues, faults, todo, seen, cur, ref, tries>>

NotFound(p) ==
    /\ at[p] = "read"
    /\ integration # "on"
    /\ Leave(p)
    /\ UNCHANGED <<rowVars, link, issues, faults, queue>>

(* Variant: without the lock.                                              *)
BeginUnlocked(p) ==
    /\ at[p] = "wait"
    /\ at' = [at EXCEPT ![p] = "next"]
    /\ UNCHANGED <<rowVars, link, issues, faults, todo, seen, cur, ref, tries, queue>>

(* The lock is ours, and the destination passes check_destination or not.  *)
Begin(p) ==
    /\ at[p] = "wait"
    /\ Holder(p)
    /\ at' = [at EXCEPT ![p] = "next"]
    /\ UNCHANGED <<rowVars, link, issues, faults, todo, seen, cur, ref, tries, queue>>

Refuse(p) ==
    /\ at[p] = "wait"
    /\ Holder(p)
    /\ LeaveLock(p)
    /\ UNCHANGED <<rowVars, link, issues, faults>>

-----------------------------------------------------------------------------
(* The loop over the tasks.                                                *)

Unchanged(p, t) == link[t].state = "synced" /\ link[t].sent = seen[p][t]

SkipTask(p) ==
    /\ at[p] = "next"
    /\ \E t \in todo[p] :
         Unchanged(p, t) /\ todo' = [todo EXCEPT ![p] = @ \ {t}]
    /\ UNCHANGED <<rowVars, link, issues, faults, at, seen, cur, ref, tries, queue>>

(* Variant: only a link in good order makes it an update.                  *)
PickTaskBySuccess(p) ==
    /\ at[p] = "next"
    /\ \E t \in todo[p] :
         /\ ~ Unchanged(p, t)
         /\ cur' = [cur EXCEPT ![p] = t]
         /\ ref' = [ref EXCEPT ![p] = link[t].issue]
         /\ at' = [at EXCEPT ![p] = IF link[t].state = "synced" THEN "patch" ELSE "create"]
    /\ tries' = [tries EXCEPT ![p] = 1]
    /\ UNCHANGED <<rowVars, link, issues, faults, todo, seen, queue>>

(* A link with an issue makes it an update, any other a new issue.         *)
PickTask(p) ==
    /\ at[p] = "next"
    /\ \E t \in todo[p] :
         /\ ~ Unchanged(p, t)
         /\ cur' = [cur EXCEPT ![p] = t]
         /\ ref' = [ref EXCEPT ![p] = link[t].issue]
         /\ at' = [at EXCEPT ![p] = IF link[t].issue = 0 THEN "create" ELSE "patch"]
    /\ tries' = [tries EXCEPT ![p] = 1]
    /\ UNCHANGED <<rowVars, link, issues, faults, todo, seen, queue>>

EndPush(p) ==
    /\ at[p] = "next"
    /\ todo[p] = {}
    /\ LeaveLock(p)
    /\ UNCHANGED <<rowVars, link, issues, faults>>

(* On to another task.                                                     *)
Continue(p) ==
    /\ at' = [at EXCEPT ![p] = "next"]
    /\ todo' = [todo EXCEPT ![p] = @ \ {cur[p]}]
    /\ cur' = [cur EXCEPT ![p] = None]
    /\ ref' = [ref EXCEPT ![p] = 0]
    /\ tries' = [tries EXCEPT ![p] = 1]
    /\ UNCHANGED <<seen, queue>>

(* Variant: the lock is not released when the commit fails.                *)
CommitKeepsLock(p, row) ==
    IF Linkable(cur[p])
    THEN link' = [link EXCEPT ![cur[p]] = row] /\ Continue(p)
    ELSE UNCHANGED <<link, queue>> /\ Leave(p)

(* The commit at the end of an iteration.  When the task or the integration*)
(* was deleted meanwhile, the insert breaks a foreign key, and rollback()  *)
(* expires every row the loop still needs; an update finds its row gone.   *)
(* Either way an exception leaves the loop, and the lock.                  *)
Commit(p, row) ==
    IF Linkable(cur[p])
    THEN link' = [link EXCEPT ![cur[p]] = row] /\ Continue(p)
    ELSE UNCHANGED link /\ LeaveLock(p)

(* Variant: a failed update leaves the row as it is.                       *)
SaveFailureSilent(p) == Commit(p, link[cur[p]])

(* except IntegrationError: the row keeps the issue it already had.        *)
SaveFailure(p) == Commit(p, [link[cur[p]] EXCEPT !.state = "failed"])

Save(p) ==
    /\ at[p] = "save"
    /\ Commit(p, [state |-> "synced", issue |-> ref[p], sent |-> seen[p][cur[p]]])
    /\ UNCHANGED <<rowVars, issues, faults>>

-----------------------------------------------------------------------------
(* Calls to the service and their answers.                                 *)

(* The next call of the adapter, or back to the loop.                      *)
Proceed(p, point) ==
    /\ at' = [at EXCEPT ![p] = point]
    /\ tries' = [tries EXCEPT ![p] = 1]
    /\ UNCHANGED <<todo, seen, cur, queue>>

(* Variant: one attempt too many.                                          *)
RetryCallTooOften(p) ==
    /\ tries[p] <= MaxAttempts
    /\ tries' = [tries EXCEPT ![p] = @ + 1]
    /\ UNCHANGED <<link, at, todo, seen, cur, ref, queue>>

RetryCall(p) ==
    /\ tries[p] < MaxAttempts
    /\ tries' = [tries EXCEPT ![p] = @ + 1]
    /\ UNCHANGED <<link, at, todo, seen, cur, ref, queue>>

(* What the service does with a call: it files or rewrites an issue with    *)
(* the task's content (_body).                                             *)
IssueOf(p) == [task |-> cur[p], content |-> seen[p][cur[p]], live |-> TRUE]

AddIssue(p) ==
    /\ Len(issues) < MaxIssues
    /\ issues' = Append(issues, IssueOf(p))

ChangeIssue(p) ==
    /\ issues[ref[p]].live
    /\ issues' = [issues EXCEPT ![ref[p]] = IssueOf(p)]

(* 201.  GitLab gets the task's time estimate next, if it has one.         *)
Created(p) ==
    /\ at[p] = "create"
    /\ AddIssue(p)
    /\ ref' = [ref EXCEPT ![p] = Len(issues) + 1]
    /\ \E point \in {"estimate", "save"} : Proceed(p, point)
    /\ UNCHANGED <<rowVars, link, faults>>

(* 200.                                                                    *)
Patched(p) ==
    /\ at[p] = "patch"
    /\ ChangeIssue(p)
    /\ \E point \in {"estimate", "save"} : Proceed(p, point)
    /\ UNCHANGED <<rowVars, link, faults, ref>>

(* 404 or 410: the issue was deleted there, so it is sent as a new one.    *)
PatchMissing(p) ==
    /\ at[p] = "patch"
    /\ issues[ref[p]].live => "hidden" \in faults
    /\ Proceed(p, "create")
    /\ UNCHANGED <<rowVars, link, issues, faults, ref>>

(* The estimate was answered.  _estimate ignores what the answer is.       *)
Estimated(p) ==
    /\ at[p] = "estimate"
    /\ Proceed(p, "save")
    /\ UNCHANGED <<rowVars, link, issues, faults, ref>>

(* 429 and the like: _send retries, and returns the last such answer.      *)
Busy(p) ==
    /\ at[p] \in Calls
    /\ RetryCall(p)
    /\ UNCHANGED <<rowVars, issues, faults>>

(* An answer that means no (the last 429 too), or a service that is full.  *)
Denied(p) ==
    /\ at[p] \in {"create", "patch"}
    /\ SaveFailure(p)
    /\ UNCHANGED <<rowVars, issues, faults>>

(* TransportError: retried, raised as IntegrationError the last time.  The *)
(* estimate raises like the others.                                        *)
NoAnswer(p) ==
    \/ RetryCall(p)
    \/ tries[p] = MaxAttempts /\ SaveFailure(p)

Unreached(p) ==
    /\ "unreached" \in faults
    /\ at[p] \in Calls
    /\ NoAnswer(p)
    /\ UNCHANGED <<rowVars, issues, faults>>

LostAnswer(p) ==
    /\ "lost" \in faults
    /\ \/ at[p] = "create" /\ AddIssue(p)
       \/ at[p] = "patch" /\ ChangeIssue(p)
    /\ NoAnswer(p)
    /\ UNCHANGED <<rowVars, faults>>

-----------------------------------------------------------------------------
(* What happens meanwhile.                                                 *)

EditTask(t) ==
    /\ task[t] # "gone"
    /\ version[t] < MaxVersion
    /\ version' = [version EXCEPT ![t] = @ + 1]
    /\ UNCHANGED <<task, integration, link, issues, faults, reqVars>>

DecideTask(t) ==
    /\ task[t] # "gone"
    /\ task' = [task EXCEPT ![t] = IF @ = "confirmed" THEN "undecided" ELSE "confirmed"]
    /\ UNCHANGED <<version, integration, link, issues, faults, reqVars>>

(* The meeting is processed again or purged.  The links go with the task.  *)
RemoveTask(t) ==
    /\ task[t] # "gone"
    /\ task' = [task EXCEPT ![t] = "gone"]
    /\ link' = [link EXCEPT ![t] = NoLink]
    /\ UNCHANGED <<version, integration, issues, faults, reqVars>>

SwitchIntegration ==
    /\ integration # "gone"
    /\ integration' = IF integration = "on" THEN "off" ELSE "on"
    /\ UNCHANGED <<task, version, link, issues, faults, reqVars>>

RemoveIntegration ==
    /\ integration # "gone"
    /\ integration' = "gone"
    /\ link' = [t \in Tasks |-> NoLink]
    /\ UNCHANGED <<task, version, issues, faults, reqVars>>

(* Somebody deletes an issue in the tracker.                               *)
DeleteIssue(k) ==
    /\ issues[k].live
    /\ issues' = [issues EXCEPT ![k].live = FALSE]
    /\ UNCHANGED <<rowVars, link, faults, reqVars>>

(* The server process stops; the requests in flight and the lock are gone. *)
Crash ==
    /\ "crash" \in faults
    /\ \E p \in Pushes : at[p] # "idle"
    /\ at' = [p \in Pushes |-> "idle"]
    /\ todo' = [p \in Pushes |-> {}]
    /\ cur' = [p \in Pushes |-> None]
    /\ ref' = [p \in Pushes |-> 0]
    /\ tries' = [p \in Pushes |-> 1]
    /\ queue' = <<>>
    /\ seen' = [p \in Pushes |-> AnyContent]
    /\ UNCHANGED <<rowVars, link, issues, faults>>

-----------------------------------------------------------------------------
Answer(p) ==
    \/ Created(p) \/ Patched(p) \/ PatchMissing(p) \/ Estimated(p)
    \/ Busy(p) \/ Denied(p) \/ Unreached(p) \/ LostAnswer(p)

Push(p) ==
    \/ LineUp(p) \/ NotFound(p) \/ Begin(p) \/ Refuse(p)
    \/ SkipTask(p) \/ PickTask(p) \/ EndPush(p) \/ Save(p) \/ Answer(p)

Meanwhile ==
    \/ \E t \in Tasks : EditTask(t) \/ DecideTask(t) \/ RemoveTask(t)
    \/ SwitchIntegration \/ RemoveIntegration \/ Crash
    \/ \E k \in DOMAIN issues : DeleteIssue(k)

Next == (\E p \in Pushes : ReadTasks(p) \/ Push(p)) \/ Meanwhile

Spec == Init /\ [][Next]_vars

(* A handler runs on and every call is answered or times out (TIMEOUT).    *)
FairSpec == Spec /\ \A p \in Pushes : WF_vars(Push(p))

-----------------------------------------------------------------------------
(* Type correctness: the handler's locals, the lock's waiters, the rows and *)
(* the tracker's issues are what push_tasks and _send can produce.          *)
TypeOK ==
    /\ task \in [Tasks -> {"confirmed", "undecided", "gone"}]
    /\ version \in [Tasks -> Versions]
    /\ integration \in {"on", "off", "gone"}
    /\ link \in [Tasks -> Link]
    /\ issues \in Seq(Issue) /\ Len(issues) <= MaxIssues
    /\ faults \in SUBSET Faults
    /\ at \in [Pushes -> Points]
    /\ todo \in [Pushes -> SUBSET Tasks]
    /\ seen \in [Pushes -> [Tasks -> Versions]]
    /\ cur \in [Pushes -> Tasks \cup {None}]
    /\ ref \in [Pushes -> Numbers]
    /\ tries \in [Pushes -> 1..MaxAttempts]
    /\ queue \in Seq(Pushes)

(* Two live issues of one task that can still be pushed.                   *)
Twins(j, k) ==
    /\ j # k
    /\ issues[j].live /\ issues[k].live
    /\ issues[j].task = issues[k].task
    /\ Linkable(issues[j].task)

(* What INTEGRATIONS.md and the module's docstring say without a condition: *)
(* a task is sent once, a second push updates the same issue.              *)
SentOnce == \A j, k \in DOMAIN issues : ~ Twins(j, k)

(* However clicks, edits, deletions here and in the tracker, and refusals   *)
(* interleave: without faults a task that can still be pushed has one live  *)
(* issue at most (the lock in push_meeting_tasks and the row's external_id *)
(* see to it).                                                             *)
OneIssuePerTask == faults = {} => SentOnce

(* A link that reads "synced" tells the truth: the issue it names has the  *)
(* content it says was sent, or push_tasks would skip the task as unchanged*)
(* for ever.  An update that was applied but not answered must not leave   *)
(* the link as it was.  (A server that stops before the commit may.)       *)
SyncedIsTrue ==
    "crash" \notin faults =>
        \A t \in Tasks :
            link[t].state = "synced" /\ (\A p \in Pushes : cur[p] # t) =>
                LET issue == issues[link[t].issue]
                IN  issue.live => issue.content = link[t].sent

(* Whoever is past the lock holds it, and what a push and the links know    *)
(* about the tracker is right: each names issues of its own task only, and  *)
(* no live issue is unknown to both.                                        *)
Past == {"next", "save"} \cup Calls
Sending == {"save"} \cup Calls

LockHeld == \A p \in Pushes : at[p] \in Past => Holder(p)

CurKnown == \A p \in Pushes : at[p] \in Sending => cur[p] \in Tasks

LinksRight == \A t \in Tasks :
    link[t].issue # 0 =>
        link[t].issue \in DOMAIN issues /\ issues[link[t].issue].task = t

PushRight(p) ==
    /\ at[p] \in {"patch", "estimate", "save"} =>
         ref[p] \in DOMAIN issues /\ issues[ref[p]].task = cur[p]
    /\ at[p] = "patch" /\ Linkable(cur[p]) => ref[p] = link[cur[p]].issue

Dead(k) == k \in DOMAIN issues => ~ issues[k].live

Remembered(k) ==
    LET t == issues[k].task
    IN  \/ link[t].issue = k
        \/ \E p \in Pushes : at[p] \in {"estimate", "save"} /\ ref[p] = k

NoneForgotten == \A k \in DOMAIN issues :
    issues[k].live /\ Linkable(issues[k].task) => Remembered(k)

OldDead(p) ==
    at[p] \in Sending /\ Linkable(cur[p]) =>
        /\ at[p] = "create" => Dead(link[cur[p]].issue)
        /\ at[p] \in {"estimate", "save"} =>
             link[cur[p]].issue = ref[p] \/ Dead(link[cur[p]].issue)

NothingLost == NoneForgotten /\ \A p \in Pushes : OldDead(p)

IssueInvariant ==
    /\ LockHeld
    /\ CurKnown
    /\ LinksRight
    /\ \A p \in Pushes : PushRight(p)
    /\ faults = {} => NothingLost

(* A push that waits for the lock gets it and ends, whatever becomes of the *)
(* pushes before it: they release the lock on every path.                  *)
EveryPushEnds == \A p \in Pushes : at[p] = "wait" ~> at[p] = "idle"
=============================================================================

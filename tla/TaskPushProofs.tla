--------------------------- MODULE TaskPushProofs ---------------------------
(***************************************************************************)
(* Theorems about TaskPush, for any tasks, requests, faults and bounds.    *)
(***************************************************************************)
EXTENDS TaskPush, SequenceTheorems, FiniteSetTheorems, TLAPS

-----------------------------------------------------------------------------
(* The tracker's list of issues.                                           *)

LEMMA ChangedSeq ==
  ASSUME NEW S, NEW s \in Seq(S), NEW r, NEW e \in S
  PROVE  [s EXCEPT ![r] = e] \in Seq(S) /\ Len([s EXCEPT ![r] = e]) = Len(s)
<1>1. CASE r \in 1..Len(s)
  BY <1>1, ExceptSeq
<1>2. CASE r \notin 1..Len(s)
  <2>1. [s EXCEPT ![r] = e] = s
    BY <1>2, LenProperties
  <2>2. QED
    BY <2>1
<1>3. QED
  BY <1>1, <1>2

LEMMA DeletedIssue ==
  ASSUME NEW s \in Seq(Issue), NEW r \in 1..Len(s),
         NEW z, z = [s EXCEPT ![r].live = FALSE]
  PROVE  /\ z \in Seq(Issue)
         /\ Len(z) = Len(s)
         /\ \A k \in 1..Len(s) : z[k].task = s[k].task /\ (z[k].live => s[k].live)
<1> DEFINE e == [s[r] EXCEPT !.live = FALSE]
<1>1. s[r] \in Issue
  BY ElementOfSeq
<1>2. e \in Issue /\ e.task = s[r].task /\ e.live = FALSE
  BY <1>1 DEF Issue
<1>3. QED
  BY <1>2, ExceptSeq

(* What any step may do to the tracker: issues keep their task and never   *)
(* come back to life, and a step adds one issue at most.                   *)
Grown ==
    /\ Len(issues) <= Len(issues')
    /\ \A k \in 1..Len(issues) :
         issues'[k].task = issues[k].task /\ (issues'[k].live => issues[k].live)

LEMMA IssueType ==
  ASSUME TypeOK, CurKnown, NEW p \in Pushes, at[p] \in Sending
  PROVE  IssueOf(p) \in Issue
BY DEF TypeOK, CurKnown, Issue, IssueOf

LEMMA AddedIssue ==
  ASSUME TypeOK, CurKnown, NEW p \in Pushes, at[p] = "create", AddIssue(p)
  PROVE  /\ issues' \in Seq(Issue)
         /\ Grown
         /\ Len(issues') = Len(issues) + 1
         /\ Len(issues') <= MaxIssues
         /\ issues'[Len(issues')].task = cur[p]
<1>1. IssueOf(p) \in Issue
  BY IssueType DEF Sending, Calls
<1>2. issues \in Seq(Issue) /\ issues' = Append(issues, IssueOf(p))
  BY DEF TypeOK, AddIssue
<1>3. Len(issues) < MaxIssues /\ MaxIssues \in Nat
  BY NumbersAssumption DEF AddIssue
<1>4. IssueOf(p).task = cur[p]
  BY DEF IssueOf
<1>5. QED
  BY <1>1, <1>2, <1>3, <1>4, AppendProperties DEF Grown

LEMMA PatchedType ==
  ASSUME TypeOK, CurKnown, NEW p \in Pushes, at[p] = "patch", ChangeIssue(p)
  PROVE  /\ issues' \in Seq(Issue)
         /\ Len(issues') = Len(issues)
<1>1. IssueOf(p) \in Issue
  BY IssueType DEF Sending, Calls
<1>2. issues \in Seq(Issue) /\ issues' = [issues EXCEPT ![ref[p]] = IssueOf(p)]
  BY DEF TypeOK, ChangeIssue
<1>3. QED
  BY <1>1, <1>2, ChangedSeq

LEMMA PatchedIssue ==
  ASSUME TypeOK, CurKnown, NEW p \in Pushes, at[p] = "patch", PushRight(p), ChangeIssue(p)
  PROVE  /\ Grown
         /\ Len(issues') = Len(issues)
<1>1. IssueOf(p) \in Issue /\ IssueOf(p).task = cur[p]
  BY IssueType DEF Sending, Calls, IssueOf
<1>2. issues \in Seq(Issue) /\ issues' = [issues EXCEPT ![ref[p]] = IssueOf(p)]
  BY DEF TypeOK, ChangeIssue
<1>3. ref[p] \in 1..Len(issues) /\ issues[ref[p]].task = cur[p] /\ issues[ref[p]].live
  BY <1>2, LenProperties DEF PushRight, ChangeIssue
<1>4. QED
  BY <1>1, <1>2, <1>3, ExceptSeq, LenProperties DEF Grown

-----------------------------------------------------------------------------
(* Types, and who holds the lock.                                          *)

RequestsOK ==
    /\ at \in [Pushes -> Points]
    /\ todo \in [Pushes -> SUBSET Tasks]
    /\ seen \in [Pushes -> [Tasks -> Versions]]
    /\ cur \in [Pushes -> Tasks \cup {None}]
    /\ ref \in [Pushes -> Numbers]
    /\ tries \in [Pushes -> 1..MaxAttempts]
    /\ queue \in Seq(Pushes)

RowsOK ==
    /\ task \in [Tasks -> {"confirmed", "undecided", "gone"}]
    /\ version \in [Tasks -> Versions]
    /\ integration \in {"on", "off", "gone"}
    /\ faults \in SUBSET Faults

Base == TypeOK /\ CurKnown /\ LockHeld

Orderly == RequestsOK /\ CurKnown /\ LockHeld

LEMMA Constants ==
  /\ 1 \in Versions /\ 1 \in 1..MaxAttempts /\ 0 \in Numbers
  /\ AnyContent \in [Tasks -> Versions]
  /\ NoLink \in Link
BY NumbersAssumption DEF Versions, Numbers, AnyContent, NoLink, Link

LEMMA BaseParts == Base <=> Orderly /\ RowsOK /\ link \in [Tasks -> Link] /\
                            issues \in Seq(Issue) /\ Len(issues) <= MaxIssues
BY DEF Base, TypeOK, Orderly, RequestsOK, RowsOK

LEMMA LeaveOrderly ==
  ASSUME Orderly, NEW p \in Pushes, Holder(p), LeaveLock(p)
  PROVE  Orderly'
<1>1. queue' \in Seq(Pushes)
  BY HeadTailProperties DEF Orderly, RequestsOK, Holder, LeaveLock
<1>2. RequestsOK'
  BY <1>1, Constants DEF Orderly, RequestsOK, LeaveLock, Leave, Points
<1>3. \A q \in Pushes : q # p => at'[q] = at[q] /\ cur'[q] = cur[q]
  BY DEF Orderly, RequestsOK, LeaveLock, Leave
<1>4. at'[p] = "idle"
  BY DEF Orderly, RequestsOK, LeaveLock, Leave
<1>5. CurKnown'
  BY <1>3, <1>4 DEF Orderly, CurKnown, Sending, Calls
<1>6. LockHeld'
  BY <1>3, <1>4 DEF Orderly, LockHeld, Past, Calls, Holder
<1>7. QED
  BY <1>2, <1>5, <1>6 DEF Orderly

LEMMA ContinueOrderly ==
  ASSUME Orderly, NEW p \in Pushes, at[p] \in Past, Continue(p)
  PROVE  Orderly'
<1>1. RequestsOK'
  BY Constants DEF Orderly, RequestsOK, Continue, Points
<1>2. CurKnown'
  BY DEF Orderly, RequestsOK, CurKnown, Continue, Sending, Calls
<1>3. LockHeld'
  BY DEF Orderly, RequestsOK, LockHeld, Continue, Past, Holder
<1>4. QED
  BY <1>1, <1>2, <1>3 DEF Orderly

LEMMA ProceedOrderly ==
  ASSUME Orderly, NEW p \in Pushes, at[p] \in Sending, ref' \in [Pushes -> Numbers],
         NEW point \in Sending, Proceed(p, point)
  PROVE  Orderly'
<1>1. RequestsOK'
  BY Constants DEF Orderly, RequestsOK, Proceed, Points, Sending, Calls
<1>2. CurKnown'
  BY DEF Orderly, RequestsOK, CurKnown, Proceed, Sending
<1>3. LockHeld'
  BY DEF Orderly, RequestsOK, LockHeld, Proceed, Past, Sending, Holder
<1>4. QED
  BY <1>1, <1>2, <1>3 DEF Orderly

LEMMA RetryOrderly ==
  ASSUME Orderly, NEW p \in Pushes, RetryCall(p)
  PROVE  Orderly' /\ link' = link
<1>1. tries' \in [Pushes -> 1..MaxAttempts]
  BY NumbersAssumption DEF Orderly, RequestsOK, RetryCall
<1>2. QED
  BY <1>1 DEF Orderly, RequestsOK, CurKnown, LockHeld, Holder, RetryCall

LEMMA CommitOrderly ==
  ASSUME Orderly, link \in [Tasks -> Link], NEW p \in Pushes, at[p] \in Sending,
         NEW row \in Link, Commit(p, row)
  PROVE  Orderly' /\ link' \in [Tasks -> Link]
<1>1. at[p] \in Past /\ Holder(p) /\ cur[p] \in Tasks
  BY DEF Orderly, CurKnown, LockHeld, Sending, Past
<1>2. CASE Linkable(cur[p])
  BY <1>1, <1>2, ContinueOrderly DEF Commit
<1>3. CASE ~ Linkable(cur[p])
  BY <1>1, <1>3, LeaveOrderly DEF Commit
<1>4. QED
  BY <1>2, <1>3

LEMMA FailureOrderly ==
  ASSUME Orderly, link \in [Tasks -> Link], NEW p \in Pushes, at[p] \in Sending,
         SaveFailure(p)
  PROVE  Orderly' /\ link' \in [Tasks -> Link]
<1>1. cur[p] \in Tasks
  BY DEF Orderly, CurKnown
<1>2. [link[cur[p]] EXCEPT !.state = "failed"] \in Link
  BY <1>1 DEF Link
<1>3. QED
  BY <1>2, CommitOrderly DEF SaveFailure

LEMMA NoAnswerOrderly ==
  ASSUME Orderly, link \in [Tasks -> Link], NEW p \in Pushes, at[p] \in Sending,
         NoAnswer(p)
  PROVE  Orderly' /\ link' \in [Tasks -> Link]
BY RetryOrderly, FailureOrderly DEF NoAnswer

LEMMA InitBase == Init => Base
<1> SUFFICES ASSUME Init PROVE Base
  OBVIOUS
<1> USE Constants, NumbersAssumption DEF Init
<1>1. RequestsOK
  BY EmptySeq DEF RequestsOK, Points
<1>2. link \in [Tasks -> Link] /\ issues \in Seq(Issue) /\ Len(issues) <= MaxIssues
  BY EmptySeq DEF Link, NoLink, Numbers
<1>3. RowsOK
  BY DEF RowsOK
<1>4. CurKnown /\ LockHeld
  BY DEF CurKnown, LockHeld, Sending, Past, Calls
<1>5. QED
  BY <1>1, <1>2, <1>3, <1>4, BaseParts DEF Orderly

(* The requests' own steps.                                                *)
LEMMA PushBase ==
  ASSUME Base, NEW p \in Pushes, ReadTasks(p) \/ Push(p)
  PROVE  Base'
<1> DEFINE Rest == RowsOK' /\ issues' \in Seq(Issue) /\ Len(issues') <= MaxIssues
           Whole == Orderly' /\ link' \in [Tasks -> Link] /\ Rest
<1> USE BaseParts
<1> SUFFICES Whole
  BY DEF Base, TypeOK, Orderly, RequestsOK, RowsOK
<1>0. UNCHANGED rowVars /\ UNCHANGED faults => RowsOK'
  BY DEF RowsOK, rowVars
<1>1. CASE ReadTasks(p)
  <2>1. todo' \in [Pushes -> SUBSET Tasks]
    BY <1>1 DEF ReadTasks, Orderly, RequestsOK
  <2>2. RequestsOK'
    BY <1>1, <2>1 DEF ReadTasks, Orderly, RequestsOK, RowsOK, Points
  <2>3. CurKnown' /\ LockHeld'
    BY <1>1 DEF ReadTasks, Orderly, RequestsOK, CurKnown, LockHeld, Sending, Past, Calls, Holder
  <2>4. QED
    BY <1>0, <1>1, <2>2, <2>3 DEF ReadTasks, Orderly
<1>2. CASE LineUp(p)
  <2>1. RequestsOK'
    BY <1>2, AppendProperties DEF LineUp, Orderly, RequestsOK, Points
  <2>2. CurKnown'
    BY <1>2 DEF LineUp, Orderly, RequestsOK, CurKnown, Sending, Calls
  <2>3. queue # <<>> => Head(queue') = Head(queue)
    BY <1>2, HeadTailAppend DEF LineUp, Orderly, RequestsOK
  <2>4. queue' # <<>>
    BY <1>2, AppendProperties DEF LineUp, Orderly, RequestsOK
  <2>5. LockHeld'
    BY <1>2, <2>3, <2>4 DEF LineUp, Orderly, RequestsOK, LockHeld, Past, Calls, Holder
  <2>6. QED
    BY <1>0, <1>2, <2>1, <2>2, <2>5 DEF LineUp, Orderly
<1>3. CASE NotFound(p)
  <2>1. RequestsOK'
    BY <1>3, Constants DEF NotFound, Leave, Orderly, RequestsOK, Points
  <2>2. CurKnown' /\ LockHeld'
    BY <1>3 DEF NotFound, Leave, Orderly, RequestsOK, CurKnown, LockHeld, Sending, Past, Calls, Holder
  <2>3. QED
    BY <1>0, <1>3, <2>1, <2>2 DEF NotFound, Orderly
<1>4. CASE Begin(p)
  <2>1. RequestsOK'
    BY <1>4 DEF Begin, Orderly, RequestsOK, Points
  <2>2. CurKnown' /\ LockHeld'
    BY <1>4 DEF Begin, Orderly, RequestsOK, CurKnown, LockHeld, Sending, Past, Calls, Holder
  <2>3. QED
    BY <1>0, <1>4, <2>1, <2>2 DEF Begin, Orderly
<1>5. CASE Refuse(p)
  BY <1>0, <1>5, LeaveOrderly DEF Refuse
<1>6. CASE SkipTask(p)
  <2>1. todo' \in [Pushes -> SUBSET Tasks]
    BY <1>6 DEF SkipTask, Orderly, RequestsOK
  <2>2. Orderly'
    BY <1>6, <2>1 DEF SkipTask, Orderly, RequestsOK, CurKnown, LockHeld, Holder
  <2>3. QED
    BY <1>0, <1>6, <2>2 DEF SkipTask
<1>7. CASE PickTask(p)
  <2>1. PICK t \in todo[p] :
          /\ cur' = [cur EXCEPT ![p] = t]
          /\ ref' = [ref EXCEPT ![p] = link[t].issue]
          /\ at' = [at EXCEPT ![p] = IF link[t].issue = 0 THEN "create" ELSE "patch"]
    BY <1>7 DEF PickTask
  <2>2. t \in Tasks
    BY DEF Orderly, RequestsOK
  <2>3. link[t].issue \in Numbers
    BY <2>2 DEF Link
  <2>4. RequestsOK'
    BY <1>7, <2>1, <2>2, <2>3, Constants DEF PickTask, Orderly, RequestsOK, Points, Calls
  <2>5. CurKnown' /\ LockHeld'
    BY <1>7, <2>1, <2>2
       DEF PickTask, Orderly, RequestsOK, CurKnown, LockHeld, Sending, Past, Calls, Holder
  <2>6. QED
    BY <1>0, <1>7, <2>4, <2>5 DEF PickTask, Orderly
<1>8. CASE EndPush(p)
  <2>1. Holder(p)
    BY <1>8 DEF EndPush, Orderly, LockHeld, Past
  <2>2. QED
    BY <1>0, <1>8, <2>1, LeaveOrderly DEF EndPush
<1>9. CASE Save(p)
  <2>1. cur[p] \in Tasks /\ at[p] \in Sending
    BY <1>9 DEF Save, Orderly, CurKnown, Sending
  <2>2. seen[p][cur[p]] \in 0..MaxVersion /\ ref[p] \in Numbers
    BY <2>1, NumbersAssumption DEF Orderly, RequestsOK, Versions
  <2>3. [state |-> "synced", issue |-> ref[p], sent |-> seen[p][cur[p]]] \in Link
    BY <2>2 DEF Link
  <2>4. QED
    BY <1>0, <1>9, <2>1, <2>3, CommitOrderly DEF Save
<1>10. CASE Answer(p)
  <2>1. CASE Created(p)
    <3>1. at[p] = "create" /\ at[p] \in Sending /\ AddIssue(p)
      BY <2>1 DEF Created, Sending, Calls
    <3>2. issues' \in Seq(Issue) /\ Len(issues') = Len(issues) + 1 /\ Len(issues') <= MaxIssues
      BY <3>1, AddedIssue DEF Base
    <3>3. Len(issues) + 1 \in Numbers
      BY <3>2, LenProperties, NumbersAssumption DEF Numbers
    <3>4. ref' \in [Pushes -> Numbers]
      BY <2>1, <3>3 DEF Created, Orderly, RequestsOK
    <3>5. PICK point \in Sending : Proceed(p, point)
      BY <2>1 DEF Created, Sending, Calls
    <3>6. QED
      BY <1>0, <2>1, <3>1, <3>2, <3>4, <3>5, ProceedOrderly DEF Created
  <2>2. CASE Patched(p)
    <3>1. at[p] = "patch" /\ at[p] \in Sending /\ ChangeIssue(p)
      BY <2>2 DEF Patched, Sending, Calls
    <3>2. issues' \in Seq(Issue) /\ Len(issues') <= MaxIssues
      BY <3>1, PatchedType DEF Base
    <3>3. PICK point \in Sending : Proceed(p, point)
      BY <2>2 DEF Patched, Sending, Calls
    <3>4. ref' \in [Pushes -> Numbers]
      BY <2>2 DEF Patched, Orderly, RequestsOK
    <3>5. QED
      BY <1>0, <2>2, <3>1, <3>2, <3>3, <3>4, ProceedOrderly DEF Patched
  <2>3. CASE PatchMissing(p)
    BY <1>0, <2>3, ProceedOrderly DEF PatchMissing, Sending, Calls, Orderly, RequestsOK
  <2>4. CASE Estimated(p)
    BY <1>0, <2>4, ProceedOrderly DEF Estimated, Sending, Calls, Orderly, RequestsOK
  <2>5. CASE Busy(p)
    BY <1>0, <2>5, RetryOrderly DEF Busy
  <2>6. CASE Denied(p)
    BY <1>0, <2>6, FailureOrderly DEF Denied, Sending, Calls
  <2>7. CASE Unreached(p)
    BY <1>0, <2>7, NoAnswerOrderly DEF Unreached, Sending
  <2>8. CASE LostAnswer(p)
    <3>1. at[p] \in Sending
      BY <2>8 DEF LostAnswer, Sending, Calls
    <3>2. issues' \in Seq(Issue) /\ Len(issues') <= MaxIssues
      BY <2>8, AddedIssue, PatchedType DEF LostAnswer, Base
    <3>3. QED
      BY <1>0, <2>8, <3>1, <3>2, NoAnswerOrderly DEF LostAnswer
  <2>9. QED
    BY <1>10, <2>1, <2>2, <2>3, <2>4, <2>5, <2>6, <2>7, <2>8 DEF Answer
<1>11. QED
  BY <1>1, <1>2, <1>3, <1>4, <1>5, <1>6, <1>7, <1>8, <1>9, <1>10 DEF Push

LEMMA MeanwhileBase ==
  ASSUME Base, Meanwhile
  PROVE  Base'
<1> DEFINE Whole == /\ Orderly' /\ RowsOK' /\ link' \in [Tasks -> Link]
                    /\ issues' \in Seq(Issue) /\ Len(issues') <= MaxIssues
<1> USE BaseParts
<1> SUFFICES Whole
  BY DEF Base, TypeOK, Orderly, RequestsOK, RowsOK
<1>1. UNCHANGED reqVars => Orderly'
  BY DEF reqVars, Orderly, RequestsOK, CurKnown, LockHeld, Holder
<1>2. CASE \E t \in Tasks : EditTask(t) \/ DecideTask(t) \/ RemoveTask(t)
  <2>1. PICK t \in Tasks : EditTask(t) \/ DecideTask(t) \/ RemoveTask(t)
    BY <1>2
  <2>2. RowsOK'
    BY <2>1, NumbersAssumption DEF RowsOK, EditTask, DecideTask, RemoveTask, Versions
  <2>3. link' \in [Tasks -> Link]
    BY <2>1, Constants DEF EditTask, DecideTask, RemoveTask
  <2>4. QED
    BY <1>1, <2>1, <2>2, <2>3 DEF EditTask, DecideTask, RemoveTask
<1>3. CASE SwitchIntegration
  BY <1>1, <1>3 DEF SwitchIntegration, RowsOK
<1>4. CASE RemoveIntegration
  <2>1. link' \in [Tasks -> Link]
    BY <1>4, Constants DEF RemoveIntegration
  <2>2. QED
    BY <1>1, <1>4, <2>1 DEF RemoveIntegration, RowsOK
<1>5. CASE Crash
  <2>1. RequestsOK'
    BY <1>5, Constants, EmptySeq DEF Crash, RequestsOK, Points
  <2>2. CurKnown' /\ LockHeld'
    BY <1>5 DEF Crash, CurKnown, LockHeld, Sending, Past, Calls
  <2>3. QED
    BY <1>5, <2>1, <2>2 DEF Crash, Orderly, RowsOK, rowVars
<1>6. CASE \E k \in DOMAIN issues : DeleteIssue(k)
  <2>1. PICK k \in 1..Len(issues) : DeleteIssue(k)
    BY <1>6, LenProperties
  <2> DEFINE z == issues'
  <2>a. z = [issues EXCEPT ![k].live = FALSE]
    BY <2>1 DEF DeleteIssue
  <2> HIDE DEF z
  <2>b. z \in Seq(Issue) /\ Len(z) = Len(issues)
    BY <2>a, DeletedIssue
  <2>2. issues' \in Seq(Issue) /\ Len(issues') = Len(issues)
    BY <2>b DEF z
  <2>3. QED
    BY <1>1, <2>1, <2>2 DEF DeleteIssue, RowsOK, rowVars
<1>7. QED
  BY <1>2, <1>3, <1>4, <1>5, <1>6 DEF Meanwhile

LEMMA BaseStep == Base /\ [Next]_vars => Base'
<1> SUFFICES ASSUME Base, [Next]_vars PROVE Base'
  OBVIOUS
<1>1. CASE Next
  BY <1>1, PushBase, MeanwhileBase DEF Next
<1>2. CASE UNCHANGED vars
  BY <1>2 DEF vars, rowVars, reqVars, Base, TypeOK, CurKnown, LockHeld, Holder
<1>3. QED
  BY <1>1, <1>2

(* The handler's locals, the lock's waiters, the rows and the tracker's     *)
(* issues are what push_tasks and _send can produce, and whoever sends      *)
(* holds the lock of push_meeting_tasks.                                    *)
THEOREM PushTypeCorrect == Spec => [](TypeOK /\ CurKnown /\ LockHeld)
<1>1. Base /\ [Next]_vars => Base'
  BY BaseStep
<1>2. QED
  BY InitBase, <1>1, PTL DEF Spec, Base

-----------------------------------------------------------------------------
(* What links and requests know about the tracker.                         *)

Right == Base /\ LinksRight /\ \A p \in Pushes : PushRight(p)

(* The lock keeps everybody else out of the loop.                          *)
LEMMA Alone ==
  ASSUME LockHeld, NEW p \in Pushes, Holder(p), NEW q \in Pushes, q # p
  PROVE  at[q] \notin Past
BY DEF LockHeld, Holder

LEMMA CallsArePast == Sending \subseteq Past /\ Calls \subseteq Sending
BY DEF Sending, Past, Calls

(* A step of a push p, seen from outside: its issues grow, links of tasks  *)
(* other than its own stay, and other requests do not move.                *)
LEMMA SameIssues == Right /\ issues' = issues => Grown
<1> SUFFICES ASSUME Right, issues' = issues PROVE Grown
  OBVIOUS
<1>1. Len(issues) \in Nat
  BY LenProperties DEF Right, Base, TypeOK
<1>2. QED
  BY <1>1 DEF Grown

LEMMA KillGrown ==
  ASSUME Right, NEW k \in 1..Len(issues), DeleteIssue(k)
  PROVE  Grown
<1> DEFINE z == issues'
<1>1. issues \in Seq(Issue) /\ Len(issues) \in Nat
  BY LenProperties DEF Right, Base, TypeOK
<1>2. z = [issues EXCEPT ![k].live = FALSE]
  BY DEF DeleteIssue
<1> HIDE DEF z
<1>3. /\ Len(z) = Len(issues)
      /\ \A i \in 1..Len(issues) : z[i].task = issues[i].task /\ (z[i].live => issues[i].live)
  BY <1>1, <1>2, DeletedIssue
<1>4. QED
  BY <1>1, <1>3 DEF Grown, z

LEMMA StepGrows == Right /\ [Next]_vars => Grown
<1> SUFFICES ASSUME Right, [Next]_vars PROVE Grown
  OBVIOUS
<1>1. CASE UNCHANGED issues
  BY <1>1, SameIssues
<1>2. ASSUME NEW p \in Pushes, Created(p) PROVE Grown
  BY <1>2, AddedIssue DEF Created, Right, Base
<1>3. ASSUME NEW p \in Pushes, Patched(p) PROVE Grown
  BY <1>3, PatchedIssue DEF Patched, Right, Base
<1>4. ASSUME NEW p \in Pushes, LostAnswer(p) PROVE Grown
  BY <1>4, AddedIssue, PatchedIssue DEF LostAnswer, Right, Base
<1>5. ASSUME NEW k \in DOMAIN issues, DeleteIssue(k) PROVE Grown
  <2>1. k \in 1..Len(issues)
    BY LenProperties DEF Right, Base, TypeOK
  <2>2. QED
    BY <1>5, <2>1, KillGrown
<1>6. ASSUME NEW p \in Pushes, ReadTasks(p) \/ Push(p),
             ~ Created(p), ~ Patched(p), ~ LostAnswer(p)
      PROVE  UNCHANGED issues
  BY <1>6 DEF Push, ReadTasks, LineUp, NotFound, Begin, Refuse, SkipTask, PickTask, EndPush, Save,
     Answer, PatchMissing, Estimated, Busy, Denied, Unreached
<1>7. ASSUME Meanwhile, \A k \in DOMAIN issues : ~ DeleteIssue(k)
      PROVE  UNCHANGED issues
  BY <1>7 DEF Meanwhile, EditTask, DecideTask, RemoveTask, SwitchIntegration, RemoveIntegration, Crash
<1>8. QED
  BY <1>1, <1>2, <1>3, <1>4, <1>5, <1>6, <1>7 DEF Next, vars

LEMMA Domain ==
  ASSUME Base
  PROVE  DOMAIN issues = 1..Len(issues) /\ Len(issues) \in Nat
BY LenProperties DEF Base, TypeOK

LEMMA DomainNext ==
  ASSUME Base'
  PROVE  DOMAIN issues' = 1..Len(issues') /\ Len(issues') \in Nat
BY LenProperties DEF Base, TypeOK

LEMMA KeepsIssues ==
  ASSUME Base, Base', Grown, NEW k \in DOMAIN issues
  PROVE  k \in DOMAIN issues' /\ issues'[k].task = issues[k].task
BY Domain, DomainNext DEF Grown

(* Links of one issue each, as long as the step writes none or a right one. *)
LEMMA LinksStay ==
  ASSUME Right, Base', Grown,
         \A t \in Tasks : \/ link'[t].issue = 0
                         \/ link'[t].issue = link[t].issue
                         \/ /\ link'[t].issue \in DOMAIN issues
                            /\ issues[link'[t].issue].task = t
  PROVE  LinksRight'
BY KeepsIssues DEF Right, LinksRight

LEMMA CommitLinks ==
  ASSUME Right, Base', Grown, NEW p \in Pushes, cur[p] \in Tasks, NEW row \in Link,
         Commit(p, row),
         row.issue = link[cur[p]].issue \/
           (row.issue \in DOMAIN issues /\ issues[row.issue].task = cur[p])
  PROVE  LinksRight'
<1>1. link \in [Tasks -> Link]
  BY DEF Right, Base, TypeOK
<1>2. QED
  BY <1>1, LinksStay DEF Commit, Continue, LeaveLock, Leave

LEMMA FailureLinks ==
  ASSUME Right, Base', Grown, NEW p \in Pushes, at[p] \in Sending, SaveFailure(p)
  PROVE  LinksRight'
<1>1. cur[p] \in Tasks /\ link \in [Tasks -> Link]
  BY DEF Right, Base, TypeOK, CurKnown
<1>2. /\ [link[cur[p]] EXCEPT !.state = "failed"] \in Link
      /\ [link[cur[p]] EXCEPT !.state = "failed"].issue = link[cur[p]].issue
  BY <1>1 DEF Link
<1>3. QED
  BY <1>1, <1>2, CommitLinks DEF SaveFailure

LEMMA LinksStep == Right /\ Base' /\ [Next]_vars => LinksRight'
<1> SUFFICES ASSUME Right, Base', [Next]_vars PROVE LinksRight'
  OBVIOUS
<1>0. Grown
  BY StepGrows
<1>1. CASE UNCHANGED link
  BY <1>0, <1>1, LinksStay
<1>2. ASSUME NEW p \in Pushes, Save(p) PROVE LinksRight'
  <2>1. cur[p] \in Tasks /\ ref[p] \in DOMAIN issues /\ issues[ref[p]].task = cur[p]
    BY <1>2 DEF Save, Right, Base, CurKnown, PushRight, Sending
  <2>2. seen[p][cur[p]] \in 0..MaxVersion /\ ref[p] \in Numbers
    BY <2>1, NumbersAssumption DEF Right, Base, TypeOK, Versions
  <2>3. [state |-> "synced", issue |-> ref[p], sent |-> seen[p][cur[p]]] \in Link
    BY <2>2 DEF Link
  <2>4. QED
    BY <1>0, <1>2, <2>1, <2>3, CommitLinks DEF Save
<1>3. ASSUME NEW p \in Pushes, Denied(p) \/ Unreached(p) \/ LostAnswer(p) PROVE LinksRight'
  <2>1. CASE SaveFailure(p)
    BY <1>0, <1>3, <2>1, FailureLinks DEF Denied, Unreached, LostAnswer, Sending, Calls
  <2>2. CASE RetryCall(p)
    BY <1>1, <2>2 DEF RetryCall
  <2>3. QED
    BY <1>3, <2>1, <2>2 DEF Denied, Unreached, LostAnswer, NoAnswer
<1>4. ASSUME NEW p \in Pushes, ReadTasks(p) \/ Push(p),
             ~ Save(p), ~ Denied(p), ~ Unreached(p), ~ LostAnswer(p)
      PROVE  UNCHANGED link
  BY <1>4 DEF Push, ReadTasks, LineUp, NotFound, Begin, Refuse, SkipTask, PickTask, EndPush,
     Answer, Created, Patched, PatchMissing, Estimated, Busy, RetryCall
<1>5. ASSUME Meanwhile PROVE LinksRight'
  <2>1. \A t \in Tasks : link'[t].issue = 0 \/ link'[t] = link[t]
    BY <1>5 DEF Meanwhile, EditTask, DecideTask, RemoveTask, SwitchIntegration, RemoveIntegration,
       Crash, DeleteIssue, NoLink, Right, Base, TypeOK
  <2>2. QED
    BY <1>0, <2>1, LinksStay
<1>6. QED
  BY <1>1, <1>2, <1>3, <1>4, <1>5 DEF Next, vars

(* A request outside the loop knows nothing that could be wrong.           *)
LEMMA OutsideRight ==
  ASSUME NEW q \in Pushes, at'[q] \notin Sending
  PROVE  PushRight(q)'
BY DEF PushRight, Sending, Calls

LEMMA StaysRight ==
  ASSUME Right, Base', Grown, NEW q \in Pushes, at'[q] = at[q], cur'[q] = cur[q], ref'[q] = ref[q],
         Linkable(cur[q])' => Linkable(cur[q]) /\ link'[cur[q]].issue = link[cur[q]].issue
  PROVE  PushRight(q)'
BY KeepsIssues DEF Right, PushRight, Linkable

(* A deletion takes the link with it, everything else leaves links alone.  *)
LEMMA MeanwhileLinks ==
  ASSUME Base, Meanwhile, NEW t \in Tasks, Linkable(t)'
  PROVE  Linkable(t) /\ link'[t] = link[t]
<1>1. CASE \E u \in Tasks : EditTask(u) \/ DecideTask(u) \/ RemoveTask(u)
  BY <1>1 DEF EditTask, DecideTask, RemoveTask, Linkable, Base, TypeOK
<1>2. CASE SwitchIntegration \/ RemoveIntegration \/ Crash \/ \E k \in DOMAIN issues : DeleteIssue(k)
  BY <1>2 DEF SwitchIntegration, RemoveIntegration, Crash, DeleteIssue, Linkable, rowVars
<1>3. QED
  BY <1>1, <1>2 DEF Meanwhile

LEMMA MeanwhileRight ==
  ASSUME Right, Base', Grown, Meanwhile
  PROVE  \A q \in Pushes : PushRight(q)'
<1> TAKE q \in Pushes
<1>1. CASE Crash
  BY <1>1, OutsideRight DEF Crash, Sending, Calls
<1>2. CASE ~ Crash
  <2>1. UNCHANGED reqVars
    BY <1>2 DEF Meanwhile, EditTask, DecideTask, RemoveTask, SwitchIntegration, RemoveIntegration,
       DeleteIssue
  <2>2. at'[q] = at[q] /\ cur'[q] = cur[q] /\ ref'[q] = ref[q]
    BY <2>1 DEF reqVars
  <2>3. CASE at[q] \in Sending
    <3>1. cur[q] \in Tasks
      BY <2>3 DEF Right, Base, CurKnown
    <3>2. Linkable(cur[q])' => Linkable(cur[q]) /\ link'[cur[q]].issue = link[cur[q]].issue
      BY <2>2, <3>1, MeanwhileLinks DEF Right, Linkable
    <3>3. QED
      BY <2>2, <3>2, StaysRight
  <2>4. CASE at[q] \notin Sending
    BY <2>2, <2>4, OutsideRight
  <2>5. QED
    BY <2>3, <2>4
<1>3. QED
  BY <1>1, <1>2

LEMMA CommitOut ==
  ASSUME Base, NEW p \in Pushes, NEW row, Commit(p, row)
  PROVE  at'[p] \in {"next", "idle"}
BY DEF Base, TypeOK, Commit, Continue, LeaveLock, Leave

(* The request that moves, and what it is sent on to.                      *)
LEMMA MoverRight ==
  ASSUME Right, Base', Grown, NEW p \in Pushes, ReadTasks(p) \/ Push(p)
  PROVE  PushRight(p)'
<1> USE DEF Right, Base, TypeOK
<1>1. CASE ReadTasks(p) \/ LineUp(p) \/ NotFound(p) \/ Begin(p) \/ Refuse(p) \/ SkipTask(p)
           \/ EndPush(p)
  <2>1. at'[p] \notin Sending
    BY <1>1 DEF ReadTasks, LineUp, NotFound, Begin, Refuse, SkipTask, EndPush, LeaveLock, Leave,
       Sending, Calls
  <2>2. QED
    BY <2>1, OutsideRight
<1>2. CASE PickTask(p)
  <2>1. PICK t \in todo[p] :
          /\ cur' = [cur EXCEPT ![p] = t]
          /\ ref' = [ref EXCEPT ![p] = link[t].issue]
          /\ at' = [at EXCEPT ![p] = IF link[t].issue = 0 THEN "create" ELSE "patch"]
    BY <1>2 DEF PickTask
  <2>2. /\ t \in Tasks
        /\ cur'[p] = t
        /\ ref'[p] = link[t].issue
        /\ at'[p] = IF link[t].issue = 0 THEN "create" ELSE "patch"
        /\ UNCHANGED <<issues, link>>
    BY <1>2, <2>1 DEF PickTask
  <2>3. QED
    BY <2>2 DEF PushRight, LinksRight
<1>3. CASE Save(p)
  BY <1>3, CommitOut, OutsideRight DEF Save, Sending, Calls
<1>4. CASE Created(p)
  <2>1. /\ Len(issues') = Len(issues) + 1
        /\ issues'[Len(issues')].task = cur[p]
    BY <1>4, AddedIssue DEF Created
  <2>2. ref'[p] = Len(issues') /\ cur'[p] = cur[p] /\ at'[p] \in {"estimate", "save"}
    BY <1>4, <2>1 DEF Created, Proceed
  <2>3. ref'[p] \in DOMAIN issues'
    BY <2>1, <2>2, Domain, DomainNext
  <2>4. QED
    BY <2>1, <2>2, <2>3 DEF PushRight
<1>5. CASE Patched(p) \/ Estimated(p)
  <2>1. /\ at[p] \in {"patch", "estimate"} /\ at'[p] \in {"estimate", "save"}
        /\ ref'[p] = ref[p] /\ cur'[p] = cur[p]
    BY <1>5 DEF Patched, Estimated, Proceed
  <2>2. QED
    BY <2>1, KeepsIssues DEF PushRight
<1>6. CASE PatchMissing(p)
  BY <1>6 DEF PatchMissing, Proceed, PushRight
<1>7. CASE RetryCall(p) /\ UNCHANGED rowVars
  <2>1. at'[p] = at[p] /\ cur'[p] = cur[p] /\ ref'[p] = ref[p] /\ link' = link
    BY <1>7 DEF RetryCall
  <2>2. Linkable(cur[p])' => Linkable(cur[p])
    BY <1>7, <2>1 DEF Linkable, rowVars
  <2>3. QED
    BY <2>1, <2>2, StaysRight
<1>8. CASE SaveFailure(p)
  <2>1. at'[p] \in {"next", "idle"}
    BY <1>8, CommitOut DEF SaveFailure
  <2>2. QED
    BY <2>1, OutsideRight DEF Sending, Calls
<1>9. QED
  BY <1>1, <1>2, <1>3, <1>4, <1>5, <1>6, <1>7, <1>8
     DEF Push, Answer, Busy, Denied, Unreached, LostAnswer, NoAnswer

(* The other requests: outside the loop, or the step changes nothing of    *)
(* theirs.                                                                 *)
LEMMA OthersStand ==
  ASSUME Base, NEW p \in Pushes, ReadTasks(p) \/ Push(p), NEW q \in Pushes, q # p
  PROVE  /\ at'[q] = at[q] /\ cur'[q] = cur[q] /\ ref'[q] = ref[q]
         /\ at[q] \in Past => UNCHANGED <<rowVars, link, issues>>
<1> USE DEF Base, TypeOK
<1>1. at'[q] = at[q] /\ cur'[q] = cur[q] /\ ref'[q] = ref[q]
  BY DEF Push, ReadTasks, LineUp, NotFound, Begin, Refuse, SkipTask, PickTask, EndPush, Save,
     Answer, Created, Patched, PatchMissing, Estimated, Busy, Denied, Unreached, LostAnswer,
     NoAnswer, RetryCall, SaveFailure, Commit, Continue, LeaveLock, Leave, Proceed
<1>2. CASE Holder(p)
  BY <1>1, <1>2, Alone
<1>3. CASE ~ Holder(p)
  <2>1. at[p] \notin Past
    BY <1>3 DEF LockHeld
  <2>2. UNCHANGED <<rowVars, link, issues>>
    BY <1>3, <2>1 DEF Push, ReadTasks, LineUp, NotFound, Begin, Refuse, SkipTask, PickTask, EndPush,
       Save, Answer, Created, Patched, PatchMissing, Estimated, Busy, Denied, Unreached, LostAnswer,
       Past, Calls
  <2>3. QED
    BY <1>1, <2>2
<1>4. QED
  BY <1>2, <1>3

LEMMA RightStep == Right /\ [Next]_vars => Right'
<1> SUFFICES ASSUME Right, [Next]_vars PROVE Right'
  OBVIOUS
<1>1. Base' /\ Grown
  BY BaseStep, StepGrows DEF Right
<1>2. LinksRight'
  BY <1>1, LinksStep
<1>3. \A q \in Pushes : PushRight(q)'
  <2>1. ASSUME NEW p \in Pushes, ReadTasks(p) \/ Push(p), NEW q \in Pushes
        PROVE  PushRight(q)'
    <3>1. CASE q = p
      BY <1>1, <2>1, <3>1, MoverRight
    <3>2. CASE q # p /\ at[q] \in Past
      BY <1>1, <2>1, <3>2, OthersStand, StaysRight DEF Right, rowVars, Linkable
    <3>3. CASE q # p /\ at[q] \notin Past
      BY <2>1, <3>3, OthersStand, OutsideRight, CallsArePast DEF Right
    <3>4. QED
      BY <3>1, <3>2, <3>3
  <2>2. CASE Meanwhile
    BY <1>1, <2>2, MeanwhileRight
  <2>3. CASE UNCHANGED vars
    BY <1>1, <2>3, StaysRight DEF vars, rowVars, reqVars, Linkable
  <2>4. QED
    BY <2>1, <2>2, <2>3 DEF Next
<1>4. QED
  BY <1>1, <1>2, <1>3 DEF Right

-----------------------------------------------------------------------------
(* Without faults no live issue is forgotten.                              *)

Kept == Right /\ (faults = {} => NothingLost)

(* Requests that may save an issue number still do after the step.         *)
StillHeld == \A q \in Pushes :
    at[q] \in {"estimate", "save"} => at'[q] \in {"estimate", "save"} /\ ref'[q] = ref[q]

LEMMA IssueTask ==
  ASSUME Base, NEW k \in DOMAIN issues
  PROVE  issues[k].task \in Tasks
<1>1. issues[k] \in Issue
  BY Domain, ElementOfSeq DEF Base, TypeOK
<1>2. QED
  BY <1>1 DEF Issue

LEMMA StillRemembered ==
  ASSUME Right, Base', Grown, NoneForgotten, StillHeld,
         NEW k \in DOMAIN issues, issues'[k].live,
         Linkable(issues[k].task),
         link'[issues[k].task].issue = link[issues[k].task].issue
  PROVE  Remembered(k)'
<1>1. issues[k].live /\ issues'[k].task = issues[k].task
  BY Domain, KeepsIssues DEF Right, Grown
<1>2. Remembered(k)
  BY <1>1 DEF NoneForgotten
<1>3. QED
  BY <1>1, <1>2 DEF Remembered, StillHeld

LEMMA DeadStays ==
  ASSUME Right, Base', Grown, NEW t \in Tasks, Dead(link[t].issue),
         link[t].issue \in DOMAIN issues'
  PROVE  ~ issues'[link[t].issue].live
<1>1. link[t].issue # 0
  BY DomainNext
<1>2. link[t].issue \in DOMAIN issues
  BY <1>1 DEF Right, LinksRight
<1>3. QED
  BY <1>2, Domain DEF Right, Dead, Grown

(* The steps of a push other than the creation and the commit of a success.*)
LEMMA PushHolds ==
  ASSUME Right, faults = {}, NEW p \in Pushes, ReadTasks(p) \/ Push(p), ~ Save(p)
  PROVE  /\ StillHeld
         /\ \A t \in Tasks : link'[t].issue = link[t].issue
<1> USE DEF Right, Base, TypeOK
<1>1. CASE Denied(p)
  <2> DEFINE row == [link[cur[p]] EXCEPT !.state = "failed"]
  <2>1. at[p] \in {"create", "patch"} /\ cur[p] \in Tasks /\ Commit(p, row)
    BY <1>1 DEF Denied, SaveFailure, CurKnown, Sending, Calls
  <2>2. row.issue = link[cur[p]].issue
    BY <2>1 DEF Link
  <2> HIDE DEF row
  <2>3. \A t \in Tasks : link'[t].issue = link[t].issue
    BY <2>1, <2>2 DEF Commit
  <2>4. \A q \in Pushes : q # p => at'[q] = at[q] /\ ref'[q] = ref[q]
    BY <1>1, OthersStand DEF Push, Answer
  <2>5. QED
    BY <2>1, <2>3, <2>4 DEF StillHeld
<1>2. CASE ~ Denied(p)
  <2>1. link' = link
    BY <1>2 DEF Push, ReadTasks, LineUp, NotFound, Begin, Refuse, SkipTask, PickTask, EndPush,
       Answer, Created, Patched, PatchMissing, Estimated, Busy, Unreached, LostAnswer, RetryCall
  <2>2. at[p] \in {"estimate", "save"} => at'[p] \in {"estimate", "save"} /\ ref'[p] = ref[p]
    BY <1>2 DEF Push, ReadTasks, LineUp, NotFound, Begin, Refuse, SkipTask, PickTask, EndPush,
       Answer, Created, Patched, PatchMissing, Estimated, Busy, Unreached, LostAnswer, RetryCall,
       Proceed
  <2>3. \A q \in Pushes : q # p => at'[q] = at[q] /\ ref'[q] = ref[q]
    BY OthersStand
  <2>4. QED
    BY <2>1, <2>2, <2>3 DEF StillHeld
<1>3. QED
  BY <1>1, <1>2

LEMMA SaveForgetsNone ==
  ASSUME Kept, Right', Grown, faults = {}, NEW p \in Pushes, Save(p)
  PROVE  NoneForgotten'
<1> USE DEF Kept, NothingLost
<1> SUFFICES ASSUME NEW k \in DOMAIN issues', issues'[k].live, Linkable(issues[k].task)'
             PROVE  Remembered(k)'
  BY DEF NoneForgotten
<1> DEFINE t == issues[k].task
           row == [state |-> "synced", issue |-> ref[p], sent |-> seen[p][cur[p]]]
<1>1. UNCHANGED <<issues, rowVars>> /\ at[p] = "save" /\ Commit(p, row)
  BY DEF Save
<1>2. k \in DOMAIN issues /\ issues[k].live /\ Linkable(t) /\ Remembered(k) /\ t \in Tasks
  BY <1>1, IssueTask DEF Right, NoneForgotten, Linkable, rowVars
<1>3. cur[p] \in Tasks /\ issues[ref[p]].task = cur[p]
  BY <1>1 DEF Right, Base, CurKnown, Sending, PushRight
<1>4. \A q \in Pushes : at[q] \in {"estimate", "save"} => q = p
  BY <1>1, Alone DEF Right, Base, LockHeld, Past, Calls
<1>5. CASE t = cur[p]
  <2>1. link'[t].issue = ref[p]
    BY <1>1, <1>2, <1>3, <1>5 DEF Commit, Right, Base, TypeOK
  <2>2. k = ref[p]
    <3>1. link[t].issue = ref[p] \/ Dead(link[t].issue)
      BY <1>1, <1>2, <1>5 DEF OldDead, Sending
    <3>2. CASE link[t].issue = k
      BY <1>2, <3>1, <3>2 DEF Dead
    <3>3. CASE link[t].issue # k
      BY <1>2, <1>4, <3>3 DEF Remembered
    <3>4. QED
      BY <3>2, <3>3
  <2>3. QED
    BY <1>1, <2>1, <2>2 DEF Remembered
<1>6. CASE t # cur[p]
  <2>1. link[t].issue = k
    BY <1>2, <1>3, <1>4, <1>6 DEF Remembered
  <2>2. link'[t] = link[t]
    BY <1>1, <1>2, <1>6 DEF Commit, Right, Base, TypeOK
  <2>3. QED
    BY <1>1, <2>1, <2>2 DEF Remembered
<1>7. QED
  BY <1>5, <1>6

LEMMA PushForgetsNone ==
  ASSUME Kept, Right', Grown, faults = {}, NEW p \in Pushes, ReadTasks(p) \/ Push(p)
  PROVE  NoneForgotten'
<1> USE DEF Kept, NothingLost
<1>1. CASE Save(p)
  BY <1>1, SaveForgetsNone
<1>2. CASE ~ Save(p)
  <2> SUFFICES ASSUME NEW k \in DOMAIN issues', issues'[k].live, Linkable(issues[k].task)'
               PROVE  Remembered(k)'
    BY DEF NoneForgotten
  <2>1. StillHeld /\ \A t \in Tasks : link'[t].issue = link[t].issue
    BY <1>2, PushHolds
  <2>2. UNCHANGED rowVars
    BY DEF Push, ReadTasks, LineUp, NotFound, Begin, Refuse, SkipTask, PickTask, EndPush, Save,
       Answer, Created, Patched, PatchMissing, Estimated, Busy, Denied, Unreached, LostAnswer
  <2>3. CASE k \in DOMAIN issues
    <3>1. issues'[k].task = issues[k].task /\ issues[k].task \in Tasks
      BY <2>3, KeepsIssues, IssueTask DEF Right
    <3>2. Linkable(issues[k].task)
      BY <2>2, <3>1 DEF Linkable, rowVars
    <3>3. QED
      BY <2>1, <2>3, <3>1, <3>2, StillRemembered DEF Right
  <2>4. CASE k \notin DOMAIN issues
    <3>1. CASE Created(p)
      <4>1. Len(issues') = Len(issues) + 1
        BY <3>1, AddedIssue DEF Created, Right, Base
      <4>2. k = Len(issues) + 1
        BY <2>4, <4>1, Domain, DomainNext DEF Right
      <4>3. ref'[p] = k /\ at'[p] \in {"estimate", "save"}
        BY <3>1, <4>2 DEF Created, Proceed, Right, Base, TypeOK
      <4>4. QED
        BY <4>3 DEF Remembered
    <3>2. CASE ~ Created(p)
      <4>1. UNCHANGED issues \/ Patched(p)
        BY <3>2 DEF Push, ReadTasks, LineUp, NotFound, Begin, Refuse, SkipTask, PickTask, EndPush,
           Save, Answer, PatchMissing, Estimated, Busy, Denied, Unreached, LostAnswer
      <4>2. Patched(p) => Len(issues') = Len(issues)
        BY PatchedIssue DEF Patched, Right, Base
      <4>3. QED
        BY <2>4, <4>1, <4>2, Domain, DomainNext DEF Right
    <3>3. QED
      BY <3>1, <3>2
  <2>5. QED
    BY <2>3, <2>4
<1>3. QED
  BY <1>1, <1>2

(* Before a push writes its link, the issue the link names is its own or   *)
(* dead.                                                                   *)
LEMMA MoverOldDead ==
  ASSUME Kept, Right', Grown, faults = {}, NEW p \in Pushes, ReadTasks(p) \/ Push(p)
  PROVE  OldDead(p)'
<1> USE DEF Kept, NothingLost, Right, Base, TypeOK
<1>1. CASE PickTask(p)
  <2>1. PICK t \in todo[p] :
          /\ cur' = [cur EXCEPT ![p] = t]
          /\ at' = [at EXCEPT ![p] = IF link[t].issue = 0 THEN "create" ELSE "patch"]
    BY <1>1 DEF PickTask
  <2>2. cur'[p] = t /\ at'[p] \in {"create", "patch"} /\ (at'[p] = "create" => link'[t].issue = 0)
    BY <1>1, <2>1 DEF PickTask
  <2>3. Dead(0)'
    BY DomainNext DEF Dead
  <2>4. QED
    BY <2>2, <2>3 DEF OldDead
<1>2. CASE PatchMissing(p)
  <2>1. /\ at'[p] = "create" /\ cur'[p] = cur[p]
        /\ UNCHANGED <<rowVars, link, issues>>
        /\ ~ issues[ref[p]].live /\ at[p] = "patch"
    BY <1>2 DEF PatchMissing, Proceed
  <2>2. Linkable(cur[p]) => ref[p] = link[cur[p]].issue
    BY <2>1 DEF PushRight
  <2>3. QED
    BY <2>1, <2>2 DEF OldDead, Dead, Linkable, rowVars
<1>3. CASE Created(p)
  <2>1. /\ at[p] = "create" /\ at'[p] \in {"estimate", "save"} /\ cur'[p] = cur[p]
        /\ UNCHANGED <<rowVars, link>>
    BY <1>3 DEF Created, Proceed
  <2>2. cur[p] \in Tasks
    BY <2>1 DEF CurKnown, Sending, Calls
  <2>3. Linkable(cur[p])' => Dead(link[cur[p]].issue)
    BY <2>1 DEF OldDead, Sending, Calls, Linkable, rowVars
  <2>4. QED
    BY <2>1, <2>2, <2>3, DeadStays DEF OldDead, Dead
<1>4. CASE Patched(p)
  <2>1. /\ at[p] = "patch" /\ at'[p] \in {"estimate", "save"} /\ cur'[p] = cur[p] /\ ref'[p] = ref[p]
        /\ UNCHANGED <<rowVars, link>>
    BY <1>4 DEF Patched, Proceed
  <2>2. Linkable(cur[p]) => ref[p] = link[cur[p]].issue
    BY <2>1 DEF PushRight
  <2>3. QED
    BY <2>1, <2>2 DEF OldDead, Linkable, rowVars
<1>5. CASE Estimated(p)
  <2>1. /\ at[p] = "estimate" /\ at'[p] = "save" /\ cur'[p] = cur[p] /\ ref'[p] = ref[p]
        /\ UNCHANGED <<rowVars, link, issues>>
    BY <1>5 DEF Estimated, Proceed
  <2>2. QED
    BY <2>1 DEF OldDead, Sending, Calls, Linkable, rowVars, Dead
<1>6. CASE Busy(p)
  <2>1. /\ at'[p] = at[p] /\ cur'[p] = cur[p] /\ ref'[p] = ref[p]
        /\ UNCHANGED <<rowVars, link, issues>>
    BY <1>6 DEF Busy, RetryCall
  <2>2. QED
    BY <2>1 DEF OldDead, Linkable, rowVars, Dead
<1>7. CASE Save(p) \/ Denied(p)
  BY <1>7, CommitOut DEF Save, Denied, SaveFailure, OldDead
<1>8. CASE ReadTasks(p) \/ LineUp(p) \/ NotFound(p) \/ Begin(p) \/ Refuse(p) \/ SkipTask(p)
           \/ EndPush(p)
  <2>1. at'[p] \notin {"create", "estimate", "save"}
    BY <1>8 DEF ReadTasks, LineUp, NotFound, Begin, Refuse, SkipTask, EndPush, LeaveLock, Leave
  <2>2. QED
    BY <2>1 DEF OldDead
<1>9. QED
  BY <1>1, <1>2, <1>3, <1>4, <1>5, <1>6, <1>7, <1>8 DEF Push, Answer, Unreached, LostAnswer

LEMMA MeanwhileKeeps ==
  ASSUME Kept, Right', Grown, faults = {}, Meanwhile
  PROVE  NothingLost'
<1> USE DEF Kept, NothingLost
<1>1. UNCHANGED reqVars
  BY DEF Meanwhile, EditTask, DecideTask, RemoveTask, SwitchIntegration, RemoveIntegration, Crash,
     DeleteIssue
<1>2. StillHeld
  BY <1>1 DEF StillHeld, reqVars
<1>3. Len(issues') = Len(issues)
  <2>1. CASE UNCHANGED issues
    BY <2>1
  <2>2. CASE \E k \in DOMAIN issues : DeleteIssue(k)
    <3> DEFINE z == issues'
    <3>1. PICK k \in 1..Len(issues) : z = [issues EXCEPT ![k].live = FALSE]
      BY <2>2, Domain DEF DeleteIssue, Right
    <3>2. issues \in Seq(Issue)
      BY DEF Right, Base, TypeOK
    <3> HIDE DEF z
    <3>3. Len(z) = Len(issues)
      BY <3>1, <3>2, DeletedIssue
    <3>4. QED
      BY <3>3 DEF z
  <2>3. QED
    BY <2>1, <2>2
       DEF Meanwhile, EditTask, DecideTask, RemoveTask, SwitchIntegration, RemoveIntegration, Crash
<1>4. NoneForgotten'
  <2> SUFFICES ASSUME NEW k \in DOMAIN issues', issues'[k].live, Linkable(issues[k].task)'
               PROVE  Remembered(k)'
    BY DEF NoneForgotten
  <2>1. k \in DOMAIN issues
    BY <1>3, Domain, DomainNext DEF Right
  <2>2. issues'[k].task = issues[k].task /\ issues[k].task \in Tasks
    BY <2>1, KeepsIssues, IssueTask DEF Right
  <2> DEFINE t == issues[k].task
  <2>3. Linkable(t)' => Linkable(t) /\ link'[t] = link[t]
    <3>1. \A u \in Tasks : Linkable(u)' => Linkable(u) /\ link'[u] = link[u]
      BY MeanwhileLinks DEF Right
    <3>2. QED
      BY <2>2, <3>1 DEF Linkable
  <2>4. QED
    BY <1>2, <2>1, <2>2, <2>3, StillRemembered DEF Right
<1>5. ASSUME NEW q \in Pushes PROVE OldDead(q)'
  <2>1. at'[q] = at[q] /\ cur'[q] = cur[q] /\ ref'[q] = ref[q]
    BY <1>1 DEF reqVars
  <2>2. CASE at[q] \in Sending
    <3>1. cur[q] \in Tasks
      BY <2>2 DEF Right, Base, CurKnown
    <3> DEFINE t == cur[q]
    <3>2. Linkable(cur[q])' => Linkable(t) /\ link'[t] = link[t]
      BY <2>1, <3>1, MeanwhileLinks DEF Right, Linkable
    <3>3. Dead(link[t].issue) /\ link[t].issue \in DOMAIN issues' => ~ issues'[link[t].issue].live
      BY <3>1, DeadStays DEF Right
    <3>4. QED
      BY <2>1, <3>2, <3>3 DEF OldDead, Dead
  <2>3. CASE at[q] \notin Sending
    BY <2>1, <2>3 DEF OldDead, Sending, Calls
  <2>4. QED
    BY <2>2, <2>3
<1>6. QED
  BY <1>4, <1>5

LEMMA KeptStep == Kept /\ [Next]_vars => Kept'
<1> SUFFICES ASSUME Kept, [Next]_vars PROVE Kept'
  OBVIOUS
<1>1. Right' /\ Grown
  BY RightStep, StepGrows DEF Kept
<1>2. faults' = faults
  BY DEF Next, vars, Meanwhile, EditTask, DecideTask, RemoveTask, SwitchIntegration,
     RemoveIntegration, Crash, DeleteIssue, Push, ReadTasks, LineUp, NotFound, Begin, Refuse,
     SkipTask, PickTask, EndPush, Save, Answer, Created, Patched, PatchMissing, Estimated, Busy,
     Denied, Unreached, LostAnswer
<1>3. ASSUME faults = {} PROVE NothingLost'
  <2>1. ASSUME NEW p \in Pushes, ReadTasks(p) \/ Push(p) PROVE NothingLost'
    <3>1. NoneForgotten'
      BY <1>1, <1>3, <2>1, PushForgetsNone
    <3>2. ASSUME NEW q \in Pushes PROVE OldDead(q)'
      <4>1. CASE q = p
        BY <1>1, <1>3, <2>1, <4>1, MoverOldDead
      <4>2. CASE q # p /\ at[q] \in Past
        BY <1>3, <2>1, <4>2, OthersStand
           DEF Kept, Right, NothingLost, OldDead, Dead, Linkable, rowVars
      <4>3. CASE q # p /\ at[q] \notin Past
        <5>1. at'[q] \notin Past
          BY <2>1, <4>3, OthersStand DEF Kept, Right
        <5>2. QED
          BY <5>1 DEF OldDead, Past, Calls
      <4>4. QED
        BY <4>1, <4>2, <4>3
    <3>3. QED
      BY <3>1, <3>2 DEF NothingLost
  <2>2. CASE Meanwhile
    BY <1>1, <1>3, <2>2, MeanwhileKeeps
  <2>3. CASE UNCHANGED vars
    BY <1>3, <2>3 DEF Kept, NothingLost, NoneForgotten, Remembered, OldDead, Dead, Linkable, vars,
       rowVars, reqVars
  <2>4. QED
    BY <2>1, <2>2, <2>3 DEF Next
<1>4. QED
  BY <1>1, <1>2, <1>3 DEF Kept

LEMMA InitKept == Init => Kept
<1> SUFFICES ASSUME Init PROVE Kept
  OBVIOUS
<1>1. Base
  BY InitBase
<1>2. DOMAIN issues = {}
  BY DEF Init
<1>3. LinksRight
  BY DEF Init, LinksRight, NoLink
<1>4. \A p \in Pushes : at[p] = "idle"
  BY DEF Init
<1>5. QED
  BY <1>1, <1>2, <1>3, <1>4
     DEF Kept, Right, PushRight, NothingLost, NoneForgotten, OldDead

(* Whoever is past the lock holds it; what a push and the links know about *)
(* the tracker is right; without faults no live issue is unknown to both.  *)
THEOREM IssueInvariantHolds == Spec => []IssueInvariant
<1>1. Kept /\ [Next]_vars => Kept'
  BY KeptStep
<1>2. Kept => IssueInvariant
  BY DEF Kept, Right, Base, IssueInvariant
<1>3. QED
  BY InitKept, <1>1, <1>2, PTL DEF Spec

LEMMA KeptOnce == Kept => OneIssuePerTask
<1> SUFFICES ASSUME Kept, faults = {},
                    NEW j \in DOMAIN issues, NEW k \in DOMAIN issues, Twins(j, k)
             PROVE  FALSE
  BY DEF OneIssuePerTask, SentOnce
<1> DEFINE t == issues[j].task
<1>1. /\ j # k /\ issues[j].live /\ issues[k].live
      /\ issues[k].task = t /\ Linkable(t)
  BY DEF Twins
<1>2. Remembered(j) /\ Remembered(k)
  BY <1>1 DEF Kept, NothingLost, NoneForgotten
<1>3. \A p, q \in Pushes : at[p] \in {"estimate", "save"} /\ at[q] \in {"estimate", "save"} => p = q
  BY DEF Kept, Right, Base, LockHeld, Past, Calls, Holder
<1>4. PICK p \in Pushes, i \in {j, k} :
         /\ at[p] \in {"estimate", "save"} /\ ref[p] = i
         /\ link[t].issue \in {j, k} \ {i}
  BY <1>1, <1>2, <1>3 DEF Remembered
<1>5. cur[p] = t
  BY <1>1, <1>4 DEF Kept, Right, PushRight
<1>6. link[t].issue = ref[p] \/ Dead(link[t].issue)
  BY <1>1, <1>4, <1>5 DEF Kept, NothingLost, OldDead, Sending, Calls
<1>7. QED
  BY <1>1, <1>4, <1>6 DEF Dead

(* Without faults - no call or answer is lost, no issue of ours is hidden, *)
(* the server does not stop - a task that can still be pushed has one live *)
(* issue at most, however pushes, refusals, edits and deletions interleave.*)
THEOREM OneIssueEach == Spec => []OneIssuePerTask
<1>1. Kept /\ [Next]_vars => Kept'
  BY KeptStep
<1>2. QED
  BY InitKept, <1>1, KeptOnce, PTL DEF Spec

-----------------------------------------------------------------------------
(* A link that reads "synced" tells the truth.                             *)

(* Outside the calls a request has no task in hand, a link in good order    *)
(* names an issue and belongs to rows that are still there, and the issue   *)
(* a push is about to note has the content the push read.                  *)
EmptyHanded == \A p \in Pushes : at[p] \notin Sending => cur[p] = None

GoodOrder == \A t \in Tasks :
    link[t].state = "synced" => link[t].issue # 0 /\ Linkable(t)

Filed(p) ==
    at[p] \in {"estimate", "save"} =>
        (issues[ref[p]].live => issues[ref[p]].content = seen[p][cur[p]])

Told ==
    /\ Right
    /\ EmptyHanded
    /\ GoodOrder
    /\ \A p \in Pushes : Filed(p)
    /\ SyncedIsTrue

SyncedRow(p) == [state |-> "synced", issue |-> ref[p], sent |-> seen[p][cur[p]]]

LEMMA FailedRow ==
  ASSUME Base, NEW p \in Pushes, at[p] \in Sending, SaveFailure(p), NEW t \in Tasks
  PROVE  \/ link'[t] = link[t] /\ (t = cur[p] => ~ Linkable(t))
         \/ t = cur[p] /\ link'[t].state = "failed"
<1> DEFINE row == [link[cur[p]] EXCEPT !.state = "failed"]
<1>1. cur[p] \in Tasks /\ link \in [Tasks -> Link]
  BY DEF Base, TypeOK, CurKnown
<1>2. row.state = "failed" /\ Commit(p, row)
  BY <1>1 DEF Link, SaveFailure
<1> HIDE DEF row
<1>3. QED
  BY <1>1, <1>2 DEF Commit

(* A push writes one link, and only while task and integration are there.  *)
LEMMA PushLinks ==
  ASSUME Base, NEW p \in Pushes, ReadTasks(p) \/ Push(p), NEW t \in Tasks
  PROVE  \/ link'[t] = link[t] /\ (cur[p] = t /\ cur'[p] # t => at[p] \notin Sending \/ ~ Linkable(t))
         \/ t = cur[p] /\ link'[t].state = "failed"
         \/ Save(p) /\ t = cur[p] /\ Linkable(t) /\ link'[t] = SyncedRow(p)
<1> USE DEF Base, TypeOK
<1>1. CASE Save(p)
  <2>1. at[p] \in Sending /\ cur[p] \in Tasks /\ Commit(p, SyncedRow(p))
    BY <1>1 DEF Save, SyncedRow, Sending, CurKnown
  <2>2. QED
    BY <1>1, <2>1 DEF Commit
<1>2. CASE at[p] \in Sending /\ SaveFailure(p)
  BY <1>2, FailedRow
<1>3. CASE RetryCall(p)
  BY <1>3 DEF RetryCall
<1>4. CASE \/ ReadTasks(p) \/ LineUp(p) \/ NotFound(p) \/ Begin(p) \/ Refuse(p) \/ SkipTask(p)
           \/ PickTask(p) \/ EndPush(p)
  <2>1. at[p] \notin Sending /\ link' = link
    BY <1>4 DEF ReadTasks, LineUp, NotFound, Begin, Refuse, SkipTask, PickTask, EndPush, Sending,
       Calls
  <2>2. QED
    BY <2>1
<1>5. CASE Created(p) \/ Patched(p) \/ PatchMissing(p) \/ Estimated(p)
  <2>1. cur' = cur /\ link' = link
    BY <1>5 DEF Created, Patched, PatchMissing, Estimated, Proceed
  <2>2. QED
    BY <2>1
<1>6. Busy(p) \/ Denied(p) \/ Unreached(p) \/ LostAnswer(p) =>
        RetryCall(p) \/ (at[p] \in Sending /\ SaveFailure(p))
  BY DEF Busy, Denied, Unreached, LostAnswer, NoAnswer, Sending, Calls
<1>7. QED
  BY <1>1, <1>2, <1>3, <1>4, <1>5, <1>6 DEF Push, Answer

LEMMA PushRows ==
  ASSUME NEW p \in Pushes, ReadTasks(p) \/ Push(p)
  PROVE  UNCHANGED <<rowVars, faults>>
BY DEF Push, ReadTasks, LineUp, NotFound, Begin, Refuse, SkipTask, PickTask, EndPush, Save,
   Answer, Created, Patched, PatchMissing, Estimated, Busy, Denied, Unreached, LostAnswer

(* Whatever else happens, a link stays as it is or goes.                   *)
LEMMA MeanwhileGone ==
  ASSUME Base, Meanwhile, NEW t \in Tasks
  PROVE  \/ link'[t] = link[t] /\ (Linkable(t) => Linkable(t)')
         \/ link'[t] = NoLink
BY DEF Meanwhile, EditTask, DecideTask, RemoveTask, SwitchIntegration, RemoveIntegration, Crash,
   DeleteIssue, Linkable, rowVars, Base, TypeOK

LEMMA SameHands ==
  ASSUME Meanwhile, ~ Crash
  PROVE  UNCHANGED reqVars
BY DEF Meanwhile, EditTask, DecideTask, RemoveTask, SwitchIntegration, RemoveIntegration,
   DeleteIssue

LEMMA GoodOrderStep == Told /\ [Next]_vars => GoodOrder'
<1> SUFFICES ASSUME Told, [Next]_vars, NEW t \in Tasks, link'[t].state = "synced"
             PROVE  link'[t].issue # 0 /\ Linkable(t)'
  BY DEF GoodOrder
<1> USE DEF Told, Right
<1>1. ASSUME NEW p \in Pushes, ReadTasks(p) \/ Push(p)
      PROVE  link'[t].issue # 0 /\ Linkable(t)'
  <2>1. Linkable(t)' <=> Linkable(t)
    BY <1>1, PushRows DEF Linkable, rowVars
  <2>2. CASE link'[t] = link[t]
    BY <2>1, <2>2 DEF GoodOrder
  <2>3. CASE Save(p) /\ t = cur[p] /\ Linkable(t) /\ link'[t] = SyncedRow(p)
    <3>1. ref[p] \in DOMAIN issues
      BY <2>3 DEF Save, PushRight
    <3>2. QED
      BY <2>1, <2>3, <3>1, Domain DEF SyncedRow
  <2>4. QED
    BY <1>1, <2>2, <2>3, PushLinks
<1>2. CASE Meanwhile
  BY <1>2, MeanwhileGone DEF GoodOrder, NoLink
<1>3. CASE UNCHANGED vars
  BY <1>3 DEF vars, rowVars, GoodOrder, Linkable
<1>4. QED
  BY <1>1, <1>2, <1>3 DEF Next

(* The end of a request, or of a task, empties its hands.                  *)
LEMMA CommitEmpties ==
  ASSUME Base, NEW p \in Pushes, NEW row, Commit(p, row)
  PROVE  cur'[p] = None
BY DEF Base, TypeOK, Commit, Continue, LeaveLock, Leave

LEMMA EmptyHandedStep == Told /\ [Next]_vars => EmptyHanded'
<1> SUFFICES ASSUME Told, [Next]_vars, NEW q \in Pushes, at'[q] \notin Sending
             PROVE  cur'[q] = None
  BY DEF EmptyHanded
<1> USE DEF Told, Right, Base, TypeOK
<1>1. ASSUME NEW p \in Pushes, ReadTasks(p) \/ Push(p) PROVE cur'[q] = None
  <2>1. CASE q # p
    BY <1>1, <2>1, OthersStand DEF EmptyHanded
  <2>2. CASE q = p
    <3>1. CASE Save(p) \/ Denied(p) \/ SaveFailure(p)
      BY <2>2, <3>1, CommitEmpties DEF Save, Denied, SaveFailure
    <3>2. CASE RetryCall(p) \/ Created(p) \/ Patched(p) \/ PatchMissing(p) \/ Estimated(p)
      BY <2>2, <3>2 DEF RetryCall, Created, Patched, PatchMissing, Estimated, Proceed, EmptyHanded,
         Sending, Calls
    <3>3. CASE ReadTasks(p) \/ LineUp(p) \/ Begin(p) \/ SkipTask(p)
      BY <2>2, <3>3 DEF ReadTasks, LineUp, Begin, SkipTask, EmptyHanded, Sending, Calls
    <3>4. CASE NotFound(p) \/ Refuse(p) \/ EndPush(p)
      BY <2>2, <3>4 DEF NotFound, Refuse, EndPush, LeaveLock, Leave
    <3>5. CASE PickTask(p)
      <4>1. at'[p] \in {"create", "patch"}
        BY <3>5 DEF PickTask
      <4>2. QED
        BY <2>2, <4>1 DEF Sending, Calls
    <3>6. QED
      BY <1>1, <3>1, <3>2, <3>3, <3>4, <3>5
         DEF Push, Answer, Busy, Unreached, LostAnswer, NoAnswer
  <2>3. QED
    BY <2>1, <2>2
<1>2. CASE Crash
  BY <1>2 DEF Crash
<1>3. CASE (Meanwhile /\ ~ Crash) \/ UNCHANGED vars
  BY <1>3, SameHands DEF reqVars, vars, EmptyHanded
<1>4. QED
  BY <1>1, <1>2, <1>3 DEF Next

(* An issue nobody is updating keeps its content, or is deleted.           *)
LEMMA Unwritten ==
  ASSUME Right, [Next]_vars, NEW k \in DOMAIN issues,
         \A p \in Pushes : at[p] = "patch" => ref[p] # k
  PROVE  issues'[k].live => issues[k].live /\ issues'[k].content = issues[k].content
<1> USE DEF Right, Base, TypeOK
<1>0. k \in 1..Len(issues) /\ Len(issues) \in Nat /\ DOMAIN issues = 1..Len(issues)
  BY Domain
<1>1. ASSUME NEW p \in Pushes, ReadTasks(p) \/ Push(p), ~ UNCHANGED issues
      PROVE  issues'[k] = issues[k]
  <2>1. (at[p] = "create" /\ AddIssue(p)) \/ (at[p] = "patch" /\ ChangeIssue(p))
    BY <1>1 DEF Push, ReadTasks, LineUp, NotFound, Begin, Refuse, SkipTask, PickTask, EndPush, Save,
       Answer, Created, Patched, PatchMissing, Estimated, Busy, Denied, Unreached, LostAnswer
  <2>2. CASE at[p] = "create" /\ AddIssue(p)
    <3>1. issues' = Append(issues, IssueOf(p)) /\ IssueOf(p) \in Issue
      BY <2>2, IssueType DEF AddIssue, Sending, Calls
    <3>2. QED
      BY <1>0, <3>1, AppendProperties
  <2>3. CASE at[p] = "patch" /\ ChangeIssue(p)
    BY <1>0, <2>3 DEF ChangeIssue
  <2>4. QED
    BY <2>1, <2>2, <2>3
<1>2. ASSUME NEW j \in DOMAIN issues, DeleteIssue(j)
      PROVE  issues'[k].live => issues[k].live /\ issues'[k].content = issues[k].content
  <2> DEFINE z == issues'
             gone == [issues[j] EXCEPT !.live = FALSE]
  <2>1. z = [issues EXCEPT ![j] = gone]
    BY <1>2 DEF DeleteIssue
  <2>2. issues[j] \in Issue
    BY <1>0, ElementOfSeq
  <2>3. gone.live = FALSE
    BY <2>2 DEF Issue
  <2> HIDE DEF gone, z
  <2>4. z[k] = (IF k = j THEN gone ELSE issues[k])
    BY <1>0, <2>1
  <2>5. z[k].live => issues[k].live /\ z[k].content = issues[k].content
    BY <2>3, <2>4
  <2>6. QED
    BY <2>5 DEF z
<1>3. ASSUME Meanwhile, \A j \in DOMAIN issues : ~ DeleteIssue(j)
      PROVE  UNCHANGED issues
  BY <1>3 DEF Meanwhile, EditTask, DecideTask, RemoveTask, SwitchIntegration, RemoveIntegration, Crash
<1>4. QED
  BY <1>1, <1>2, <1>3 DEF Next, vars

(* What a push sends is what the issue then says.                          *)
LEMMA FiledStep == Told /\ [Next]_vars => \A q \in Pushes : Filed(q)'
<1> SUFFICES ASSUME Told, [Next]_vars, NEW q \in Pushes, at'[q] \in {"estimate", "save"},
                    issues'[ref'[q]].live
             PROVE  issues'[ref'[q]].content = seen'[q][cur'[q]]
  BY DEF Filed
<1> USE DEF Told, Right, Base, TypeOK
<1>1. CASE /\ at[q] \in {"estimate", "save"}
           /\ ref'[q] = ref[q] /\ cur'[q] = cur[q] /\ seen'[q] = seen[q]
  <2>1. ref[q] \in DOMAIN issues
    BY <1>1 DEF PushRight
  <2>2. \A p \in Pushes : at[p] = "patch" => ref[p] # ref[q]
    <3>1. \A p \in Pushes : at[p] = "patch" => p = q
      BY <1>1, Alone DEF LockHeld, Past, Calls
    <3>2. QED
      BY <1>1, <3>1
  <2>3. QED
    BY <1>1, <2>1, <2>2, Unwritten DEF Filed
<1>2. ASSUME NEW p \in Pushes, ReadTasks(p) \/ Push(p)
      PROVE  issues'[ref'[q]].content = seen'[q][cur'[q]]
  <2>1. CASE q # p
    <3>1. seen'[q] = seen[q]
      BY <1>2, <2>1 DEF Push, ReadTasks, LineUp, NotFound, Begin, Refuse, SkipTask, PickTask,
         EndPush, Save, Answer, Created, Patched, PatchMissing, Estimated, Busy, Denied, Unreached,
         LostAnswer, NoAnswer, RetryCall, SaveFailure, Commit, Continue, LeaveLock, Leave, Proceed
    <3>2. QED
      BY <1>1, <1>2, <2>1, <3>1, OthersStand
  <2>2. CASE q = p /\ Created(p)
    <3>1. at[p] = "create" /\ AddIssue(p) /\ seen' = seen /\ cur' = cur /\ ref'[p] = Len(issues) + 1
      BY <2>2 DEF Created, Proceed
    <3>2. issues' = Append(issues, IssueOf(p)) /\ IssueOf(p) \in Issue
      BY <3>1, IssueType DEF AddIssue, Sending, Calls
    <3>3. issues'[ref'[p]] = IssueOf(p)
      BY <3>1, <3>2, AppendProperties
    <3>4. QED
      BY <2>2, <3>1, <3>3 DEF IssueOf
  <2>3. CASE q = p /\ Patched(p)
    <3>1. at[p] = "patch" /\ ChangeIssue(p) /\ seen' = seen /\ cur' = cur /\ ref' = ref
      BY <2>3 DEF Patched, Proceed
    <3>2. issues'[ref[p]] = IssueOf(p)
      BY <3>1 DEF ChangeIssue, PushRight
    <3>3. QED
      BY <2>3, <3>1, <3>2 DEF IssueOf
  <2>4. CASE q = p /\ (Estimated(p) \/ RetryCall(p))
    BY <1>1, <2>4 DEF Estimated, RetryCall, Proceed
  <2>5. CASE q = p /\ (Save(p) \/ SaveFailure(p))
    BY <2>5, CommitOut DEF Save, SaveFailure
  <2>6. CASE q = p /\ (\/ ReadTasks(p) \/ LineUp(p) \/ NotFound(p) \/ Begin(p) \/ Refuse(p)
                       \/ SkipTask(p) \/ PickTask(p) \/ EndPush(p) \/ PatchMissing(p))
    <3>1. at'[p] \notin {"estimate", "save"}
      BY <2>6 DEF ReadTasks, LineUp, NotFound, Begin, Refuse, SkipTask, PickTask, EndPush,
         PatchMissing, Proceed, LeaveLock, Leave
    <3>2. QED
      BY <2>6, <3>1
  <2>7. QED
    BY <1>2, <2>1, <2>2, <2>3, <2>4, <2>5, <2>6
       DEF Push, Answer, Busy, Denied, Unreached, LostAnswer, NoAnswer
<1>3. CASE Crash
  BY <1>3 DEF Crash
<1>4. CASE (Meanwhile /\ ~ Crash) \/ UNCHANGED vars
  BY <1>1, <1>4, SameHands DEF reqVars, vars
<1>5. QED
  BY <1>2, <1>3, <1>4 DEF Next

LEMMA SyncedStep == Told /\ [Next]_vars => SyncedIsTrue'
<1> SUFFICES ASSUME Told, [Next]_vars, "crash" \notin faults', NEW t \in Tasks,
                    link'[t].state = "synced", \A p \in Pushes : cur'[p] # t,
                    issues'[link'[t].issue].live
             PROVE  issues'[link'[t].issue].content = link'[t].sent
  BY DEF SyncedIsTrue
<1> USE DEF Told, Right
<1>1. faults' = faults /\ ~ Crash
  <2>1. Meanwhile \/ UNCHANGED vars => faults' = faults
    BY DEF vars, Meanwhile, EditTask, DecideTask, RemoveTask, SwitchIntegration,
       RemoveIntegration, Crash, DeleteIssue
  <2>2. faults' = faults
    BY <2>1, PushRows DEF Next
  <2>3. QED
    BY <2>2 DEF Crash
<1>2. CASE link'[t] = link[t] /\ \A p \in Pushes : cur[p] # t
  <2> DEFINE k == link[t].issue
  <2>1. k \in DOMAIN issues /\ issues[k].task = t
    BY <1>2 DEF GoodOrder, LinksRight
  <2>2. \A p \in Pushes : at[p] = "patch" => ref[p] # k
    BY <1>2, <2>1 DEF PushRight
  <2>3. issues[k].live => issues[k].content = link[t].sent
    BY <1>1, <1>2 DEF SyncedIsTrue
  <2>4. issues'[k].live => issues[k].live /\ issues'[k].content = issues[k].content
    BY <2>1, <2>2, Unwritten
  <2>5. QED
    BY <1>2, <2>3, <2>4
<1>3. ASSUME NEW p \in Pushes, ReadTasks(p) \/ Push(p)
      PROVE  issues'[link'[t].issue].content = link'[t].sent
  <2>1. \A q \in Pushes : q # p => cur'[q] = cur[q]
    BY <1>3, OthersStand
  <2>2. CASE Save(p) /\ t = cur[p]
    <3>1. at[p] = "save" /\ at[p] \in Sending /\ cur'[p] # t /\ UNCHANGED issues
      BY <2>2 DEF Save, Sending
    <3>2. link'[t] = SyncedRow(p)
      BY <1>3, <2>2, <3>1, PushLinks DEF GoodOrder
    <3>3. QED
      BY <2>2, <3>1, <3>2 DEF SyncedRow, Filed
  <2>3. CASE link'[t] = link[t] /\ cur[p] # t
    BY <1>2, <2>1, <2>3
  <2>4. CASE link'[t] = link[t] /\ cur[p] = t /\ ~ Save(p)
    <3>1. at[p] \notin Sending \/ ~ Linkable(t)
      <4>1. cur'[p] # t
        OBVIOUS
      <4>2. QED
        BY <1>3, <2>4, <4>1, PushLinks DEF GoodOrder
    <3>2. Linkable(t)
      BY <2>4 DEF GoodOrder
    <3>3. QED
      BY <2>4, <3>1, <3>2, NoneAssumption DEF EmptyHanded
  <2>5. QED
    BY <1>3, <2>2, <2>3, <2>4, PushLinks
<1>4. CASE Meanwhile
  <2>1. link'[t] = link[t]
    BY <1>4, MeanwhileGone DEF NoLink
  <2>2. QED
    BY <1>1, <1>2, <1>4, <2>1, SameHands DEF reqVars
<1>5. CASE UNCHANGED vars
  BY <1>2, <1>5 DEF vars, reqVars
<1>6. QED
  BY <1>3, <1>4, <1>5 DEF Next

LEMMA InitTold == Init => Told
<1> SUFFICES ASSUME Init PROVE Told
  OBVIOUS
<1>1. Right
  BY InitKept DEF Kept
<1>2. EmptyHanded /\ GoodOrder /\ SyncedIsTrue /\ \A p \in Pushes : Filed(p)
  BY DEF Init, EmptyHanded, GoodOrder, NoLink, SyncedIsTrue, Filed
<1>3. QED
  BY <1>1, <1>2 DEF Told

(* As long as the server does not stop: a task whose link reads "synced",   *)
(* and which push_tasks will therefore skip as unchanged, has an issue with *)
(* the content the link says was sent, or an issue somebody deleted, when   *)
(* no push is at work on it.  Lost and denied updates and deleted rows do   *)
(* not leave a link that lies.                                              *)
THEOREM SyncedTheorem == Spec => []SyncedIsTrue
<1>1. Told /\ [Next]_vars => Told'
  BY RightStep, EmptyHandedStep, GoodOrderStep, FiledStep, SyncedStep DEF Told
<1>2. Told => SyncedIsTrue
  BY DEF Told
<1>3. QED
  BY InitTold, <1>1, <1>2, PTL DEF Spec

-----------------------------------------------------------------------------
(* How much a push may still do.                                           *)

(* Calls before the row of a task is written, each of MAX_ATTEMPTS.        *)
Stage(point) ==
    CASE point = "patch" -> 4 [] point = "create" -> 3 [] point = "estimate" -> 2 [] OTHER -> 1

(* The attempts that the tasks of todo may take at most.                   *)
Attempts(p) == Cardinality(todo[p]) * (5 * MaxAttempts)
InHand(p) == Stage(at[p]) * MaxAttempts + (MaxAttempts - tries[p])

PushLeft(p) ==
    CASE at[p] = "idle" -> 0
      [] at[p] = "next" -> Attempts(p) + 1
      [] at[p] = "wait" -> Attempts(p) + 2
      [] at[p] = "read" -> Attempts(p) + 3
      [] OTHER -> (Attempts(p) - 5 * MaxAttempts) + InHand(p) + 1

HandFull == \A p \in Pushes : at[p] \in Sending => cur[p] \in todo[p]

LEMMA CallsAndStages ==
  \A point \in Sending : /\ Stage(point) \in 1..4
                         /\ point \notin {"idle", "next", "wait", "read"}
BY DEF Stage, Sending, Calls

LEMMA NonNegative ==
  ASSUME NEW n \in Nat
  PROVE  n * (5 * MaxAttempts) \in Nat
BY NumbersAssumption

LEMMA OneLess ==
  ASSUME NEW n \in Nat
  PROVE  n > 0 => /\ (n - 1) * (5 * MaxAttempts) \in Nat
                  /\ (n - 1) * (5 * MaxAttempts) = n * (5 * MaxAttempts) - 5 * MaxAttempts
<1>. SUFFICES ASSUME n > 0
     PROVE  /\ (n - 1) * (5 * MaxAttempts) \in Nat
            /\ (n - 1) * (5 * MaxAttempts) = n * (5 * MaxAttempts) - 5 * MaxAttempts
  OBVIOUS
<1>1. n - 1 \in Nat
  OBVIOUS
<1>2. (n - 1) * (5 * MaxAttempts) \in Nat
  BY <1>1, NonNegative
<1>3. MaxAttempts \in Nat
  BY NumbersAssumption
<1>4. (n - 1) * (5 * MaxAttempts) = n * (5 * MaxAttempts) - 5 * MaxAttempts
  BY <1>3
<1>. QED BY <1>2, <1>4

LEMMA TaskTaken ==
  ASSUME IsFiniteSet(Tasks), NEW S \in SUBSET Tasks, NEW t \in S
  PROVE  /\ Cardinality(S \ {t}) \in Nat /\ Cardinality(S) \in Nat
         /\ Cardinality(S) = Cardinality(S \ {t}) + 1
<1>1. IsFiniteSet(S)
  BY FS_Subset
<1>2. IsFiniteSet(S \ {t})
  BY <1>1, FS_Subset
<1>3. Cardinality(S) \in Nat /\ Cardinality(S \ {t}) \in Nat
  BY <1>1, <1>2, FS_CardinalityType
<1>4. Cardinality(S \ {t}) = Cardinality(S) - 1
  BY <1>1, FS_RemoveElement
<1>. QED BY <1>3, <1>4

LEMMA Weights ==
  ASSUME NEW s \in 1..4, NEW tried \in 1..MaxAttempts
  PROVE  /\ s * MaxAttempts + (MaxAttempts - tried) \in Nat
         /\ s * MaxAttempts + (MaxAttempts - tried) >= 1
         /\ s * MaxAttempts + (MaxAttempts - 1) < 5 * MaxAttempts
         /\ \A r \in 1..4 : r < s => r * MaxAttempts + (MaxAttempts - 1)
                                      < s * MaxAttempts + (MaxAttempts - tried)
BY s \in {1, 2, 3, 4}, NumbersAssumption

Counted == IsFiniteSet(Tasks) /\ Base /\ HandFull

(* What a push at a point has left, as numbers.                            *)
LEMMA LeftAtRest ==
  ASSUME Counted, NEW p \in Pushes
  PROVE  /\ Attempts(p) \in Nat
         /\ at[p] = "idle" => PushLeft(p) = 0
         /\ at[p] = "next" => PushLeft(p) = Attempts(p) + 1
         /\ at[p] = "wait" => PushLeft(p) = Attempts(p) + 2
         /\ at[p] = "read" => PushLeft(p) = Attempts(p) + 3
<1>1. Cardinality(todo[p]) \in Nat
  BY FS_Subset, FS_CardinalityType DEF Counted, Base, TypeOK
<1>. QED BY <1>1, NonNegative DEF Attempts, PushLeft

LEMMA LeftSending ==
  ASSUME Counted, NEW p \in Pushes, at[p] \in Sending
  PROVE  /\ Stage(at[p]) \in 1..4 /\ tries[p] \in 1..MaxAttempts
         /\ Attempts(p) - 5 * MaxAttempts \in Nat
         /\ Attempts(p) - 5 * MaxAttempts
              = Cardinality(todo[p] \ {cur[p]}) * (5 * MaxAttempts)
         /\ InHand(p) \in Nat /\ InHand(p) >= 1
         /\ PushLeft(p) = (Attempts(p) - 5 * MaxAttempts) + InHand(p) + 1
<1>1. Stage(at[p]) \in 1..4 /\ at[p] \notin {"idle", "next", "wait", "read"}
  BY CallsAndStages
<1>2. tries[p] \in 1..MaxAttempts /\ todo[p] \in SUBSET Tasks /\ cur[p] \in todo[p]
  BY DEF Counted, Base, TypeOK, HandFull
<1>. DEFINE n == Cardinality(todo[p])
<1>. DEFINE m == Cardinality(todo[p] \ {cur[p]})
<1>3. n \in Nat /\ m \in Nat /\ n = m + 1
  BY <1>2, TaskTaken DEF Counted
<1>. HIDE DEF n, m
<1>4. n > 0 /\ m = n - 1
  BY <1>3
<1>5. m * (5 * MaxAttempts) \in Nat /\ m * (5 * MaxAttempts) = n * (5 * MaxAttempts) - 5 * MaxAttempts
  BY <1>3, <1>4, OneLess
<1>6. Attempts(p) - 5 * MaxAttempts = m * (5 * MaxAttempts)
  BY <1>5 DEF Attempts, n
<1>7. InHand(p) \in Nat /\ InHand(p) >= 1
  BY <1>1, <1>2, Weights DEF InHand
<1>8. PushLeft(p) = (Attempts(p) - 5 * MaxAttempts) + InHand(p) + 1
  BY <1>1 DEF PushLeft
<1>. QED BY <1>1, <1>2, <1>5, <1>6, <1>7, <1>8 DEF m

LEMMA LeftIsNumber ==
  ASSUME Counted, NEW p \in Pushes
  PROVE  PushLeft(p) \in Nat /\ (at[p] # "idle" => PushLeft(p) > 0)
<1>1. at[p] \in Sending \/ at[p] \in {"idle", "next", "wait", "read"}
  BY DEF Counted, Base, TypeOK, Points, Sending
<1>2. CASE at[p] \in Sending
  <2>. DEFINE a == Attempts(p) - 5 * MaxAttempts
  <2>1. a \in Nat /\ InHand(p) \in Nat /\ PushLeft(p) = a + InHand(p) + 1
    BY <1>2, LeftSending
  <2>. HIDE DEF a
  <2>. QED BY <2>1
<1>3. CASE at[p] \in {"idle", "next", "wait", "read"}
  BY <1>3, LeftAtRest
<1>. QED BY <1>1, <1>2, <1>3

LEMMA LeaveLess ==
  ASSUME Counted, NEW p \in Pushes, at[p] # "idle", Leave(p)
  PROVE  PushLeft(p)' < PushLeft(p)
<1>1. at'[p] = "idle"
  BY DEF Counted, Base, TypeOK, Leave
<1>2. PushLeft(p)' = 0
  BY <1>1 DEF PushLeft
<1>. QED BY <1>2, LeftIsNumber

LEMMA ContinueLess ==
  ASSUME Counted, NEW p \in Pushes, at[p] \in Sending, Continue(p)
  PROVE  PushLeft(p)' < PushLeft(p)
<1>. DEFINE a == Attempts(p) - 5 * MaxAttempts
<1>1. at'[p] = "next" /\ todo'[p] = todo[p] \ {cur[p]}
  BY DEF Counted, Base, TypeOK, Continue
<1>2. PushLeft(p)' = Cardinality(todo[p] \ {cur[p]}) * (5 * MaxAttempts) + 1
  BY <1>1 DEF PushLeft, Attempts
<1>3. /\ a \in Nat /\ a = Cardinality(todo[p] \ {cur[p]}) * (5 * MaxAttempts)
      /\ InHand(p) \in Nat /\ InHand(p) >= 1
      /\ PushLeft(p) = a + InHand(p) + 1
  BY LeftSending
<1>4. PushLeft(p)' = a + 1
  BY <1>2, <1>3
<1>. HIDE DEF a
<1>. QED BY <1>3, <1>4

(* Within a task: the calls to come, or the attempts of this one.          *)
LEMMA InHandLess ==
  ASSUME Counted, NEW p \in Pushes, at[p] \in Sending,
         at'[p] \in Sending, todo'[p] = todo[p], InHand(p)' \in Nat, InHand(p)' < InHand(p)
  PROVE  PushLeft(p)' < PushLeft(p)
<1>. DEFINE a == Attempts(p) - 5 * MaxAttempts
<1>1. at'[p] \notin {"idle", "next", "wait", "read"}
  BY CallsAndStages
<1>2. PushLeft(p)' = a + InHand(p)' + 1
  BY <1>1 DEF PushLeft, Attempts
<1>3. a \in Nat /\ InHand(p) \in Nat /\ PushLeft(p) = a + InHand(p) + 1
  BY LeftSending
<1>. DEFINE h == InHand(p)'
<1>4. h \in Nat /\ h < InHand(p) /\ PushLeft(p)' = a + h + 1
  BY <1>2
<1>. HIDE DEF a, h
<1>. QED BY <1>3, <1>4

LEMMA ProceedLess ==
  ASSUME Counted, NEW p \in Pushes, at[p] \in Sending, NEW point \in Sending,
         Stage(point) < Stage(at[p]), Proceed(p, point)
  PROVE  PushLeft(p)' < PushLeft(p)
<1>1. at'[p] = point /\ todo'[p] = todo[p] /\ tries'[p] = 1
  BY DEF Counted, Base, TypeOK, Proceed
<1>2. InHand(p)' = Stage(point) * MaxAttempts + (MaxAttempts - 1)
  BY <1>1 DEF InHand
<1>3. Stage(point) \in 1..4 /\ Stage(at[p]) \in 1..4 /\ tries[p] \in 1..MaxAttempts /\ 1 \in 1..MaxAttempts
  BY CallsAndStages, LeftSending, Constants
<1>4. InHand(p)' \in Nat /\ InHand(p)' < InHand(p)
  BY <1>2, <1>3, Weights DEF InHand
<1>. QED BY <1>1, <1>4, InHandLess

LEMMA RetryLess ==
  ASSUME Counted, NEW p \in Pushes, at[p] \in Sending, RetryCall(p)
  PROVE  PushLeft(p)' < PushLeft(p)
<1>1. at'[p] = at[p] /\ todo'[p] = todo[p] /\ tries'[p] = tries[p] + 1 /\ tries[p] < MaxAttempts
  BY DEF Counted, Base, TypeOK, RetryCall
<1>2. tries[p] \in 1..MaxAttempts /\ Stage(at[p]) \in 1..4
  BY LeftSending
<1>. DEFINE s == Stage(at[p])
            more == s * MaxAttempts + (MaxAttempts - (tries[p] + 1))
            now == s * MaxAttempts + (MaxAttempts - tries[p])
<1>3. InHand(p)' = more /\ InHand(p) = now
  BY <1>1 DEF InHand
<1>4. tries[p] + 1 \in 1..MaxAttempts /\ s \in 1..4
  BY <1>1, <1>2, NumbersAssumption
<1>. HIDE DEF s
<1>5. more \in Nat
  BY <1>4, Weights
<1>6. s * MaxAttempts \in Nat
  BY <1>4, NumbersAssumption
<1>7. more < now
  BY <1>2, <1>6, NumbersAssumption
<1>. HIDE DEF more, now
<1>. QED BY <1>1, <1>3, <1>5, <1>7, InHandLess

LEMMA CommitLess ==
  ASSUME Counted, NEW p \in Pushes, at[p] \in Sending, NEW row, Commit(p, row)
  PROVE  PushLeft(p)' < PushLeft(p)
<1>1. at[p] # "idle"
  BY DEF Sending, Calls
<1>. QED BY <1>1, ContinueLess, LeaveLess DEF Commit, LeaveLock

LEMMA NoAnswerLess ==
  ASSUME Counted, NEW p \in Pushes, at[p] \in Sending, NoAnswer(p)
  PROVE  PushLeft(p)' < PushLeft(p)
BY RetryLess, CommitLess DEF NoAnswer, SaveFailure

LEMMA AnswerLess ==
  ASSUME Counted, NEW p \in Pushes, Answer(p)
  PROVE  PushLeft(p)' < PushLeft(p)
<1>1. at[p] \in Calls /\ at[p] \in Sending /\ {"estimate", "save", "create"} \subseteq Sending
  BY DEF Answer, Created, Patched, PatchMissing, Estimated, Busy, Denied, Unreached, LostAnswer,
         Calls, Sending
<1>2. CASE Created(p) \/ Patched(p) \/ PatchMissing(p) \/ Estimated(p)
  <2>1. PICK point \in Sending : Proceed(p, point) /\ Stage(point) < Stage(at[p])
    BY <1>1, <1>2 DEF Created, Patched, PatchMissing, Estimated, Stage
  <2>. QED BY <1>1, <2>1, ProceedLess
<1>3. CASE Busy(p)
  BY <1>1, <1>3, RetryLess DEF Busy
<1>4. CASE Denied(p)
  BY <1>1, <1>4, CommitLess DEF Denied, SaveFailure
<1>5. CASE Unreached(p) \/ LostAnswer(p)
  BY <1>1, <1>5, NoAnswerLess DEF Unreached, LostAnswer
<1>. QED BY <1>2, <1>3, <1>4, <1>5 DEF Answer

LEMMA PushLess ==
  ASSUME Counted, NEW p \in Pushes, Push(p)
  PROVE  PushLeft(p)' < PushLeft(p)
<1>1. CASE LineUp(p) \/ Begin(p)
  <2>1. todo'[p] = todo[p] /\ \/ at[p] = "read" /\ at'[p] = "wait"
                              \/ at[p] = "wait" /\ at'[p] = "next"
    BY <1>1 DEF Counted, Base, TypeOK, LineUp, Begin
  <2>2. Attempts(p)' = Attempts(p)
    BY <2>1 DEF Attempts
  <2>3. \/ PushLeft(p) = Attempts(p) + 3 /\ PushLeft(p)' = Attempts(p) + 2
        \/ PushLeft(p) = Attempts(p) + 2 /\ PushLeft(p)' = Attempts(p) + 1
    BY <2>1, <2>2, LeftAtRest DEF PushLeft
  <2>. QED BY <2>3, LeftAtRest
<1>2. CASE NotFound(p) \/ Refuse(p) \/ EndPush(p)
  BY <1>2, LeaveLess DEF NotFound, Refuse, EndPush, LeaveLock
<1>3. CASE SkipTask(p)
  <2>1. PICK t \in todo[p] : todo' = [todo EXCEPT ![p] = @ \ {t}]
    BY <1>3 DEF SkipTask
  <2>2. at[p] = "next" /\ at'[p] = "next" /\ todo'[p] = todo[p] \ {t} /\ todo[p] \in SUBSET Tasks
    BY <1>3, <2>1 DEF SkipTask, Counted, Base, TypeOK
  <2>. DEFINE n == Cardinality(todo[p])
              m == Cardinality(todo[p] \ {t})
  <2>3. n \in Nat /\ m \in Nat /\ n = m + 1
    BY <2>2, TaskTaken DEF Counted
  <2>4. PushLeft(p) = n * (5 * MaxAttempts) + 1 /\ PushLeft(p)' = m * (5 * MaxAttempts) + 1
    BY <2>2 DEF PushLeft, Attempts
  <2>. HIDE DEF n, m
  <2>5. n > 0 /\ m = n - 1
    BY <2>3
  <2>6. m * (5 * MaxAttempts) = n * (5 * MaxAttempts) - 5 * MaxAttempts /\ n * (5 * MaxAttempts) \in Nat
    BY <2>3, <2>5, OneLess, NonNegative
  <2>. QED BY <2>4, <2>6, NumbersAssumption
<1>4. CASE PickTask(p)
  <2>1. PICK point \in {"create", "patch"} : at' = [at EXCEPT ![p] = point]
    BY <1>4 DEF PickTask
  <2>2. at[p] = "next" /\ at'[p] = point /\ tries'[p] = 1 /\ todo'[p] = todo[p]
    BY <1>4, <2>1 DEF PickTask, Counted, Base, TypeOK
  <2>3. point \in Sending /\ Stage(point) \in 1..4 /\ 1 \in 1..MaxAttempts
    BY Constants DEF Sending, Calls, Stage
  <2>4. InHand(p)' = Stage(point) * MaxAttempts + (MaxAttempts - 1)
    BY <2>2 DEF InHand
  <2>5. InHand(p)' \in Nat /\ InHand(p)' < 5 * MaxAttempts
    BY <2>3, <2>4, Weights
  <2>6. PushLeft(p)' = (Attempts(p) - 5 * MaxAttempts) + InHand(p)' + 1
    BY <2>2, <2>3, CallsAndStages DEF PushLeft, Attempts
  <2>7. Attempts(p) \in Nat /\ PushLeft(p) = Attempts(p) + 1
    BY <2>2, LeftAtRest
  <2>. DEFINE h == InHand(p)'
  <2>8. h \in Nat /\ h < 5 * MaxAttempts /\ PushLeft(p)' = (Attempts(p) - 5 * MaxAttempts) + h + 1
    BY <2>5, <2>6
  <2>. HIDE DEF h
  <2>. QED BY <2>7, <2>8, NumbersAssumption
<1>5. CASE Save(p)
  BY <1>5, CommitLess DEF Save, Sending
<1>. QED BY <1>1, <1>2, <1>3, <1>4, <1>5, AnswerLess DEF Push

(* A step of another request, or of none, leaves it what it has.           *)
LEMMA LeaveOwn ==
  ASSUME Base, NEW p \in Pushes, Push(p), NEW q \in Pushes, q # p
  PROVE  at'[q] = at[q] /\ todo'[q] = todo[q] /\ tries'[q] = tries[q] /\ cur'[q] = cur[q]
<1>. USE DEF Base, TypeOK
<1>1. CASE Answer(p)
  BY <1>1 DEF Answer, Created, Patched, PatchMissing, Estimated, Busy, Denied, Unreached,
              LostAnswer, NoAnswer, RetryCall, SaveFailure, Commit, Continue, LeaveLock, Leave, Proceed
<1>2. CASE Save(p) \/ NotFound(p) \/ Refuse(p) \/ EndPush(p)
  BY <1>2 DEF Save, NotFound, Refuse, EndPush, Commit, Continue, LeaveLock, Leave
<1>3. CASE LineUp(p) \/ Begin(p) \/ SkipTask(p) \/ PickTask(p)
  BY <1>3 DEF LineUp, Begin, SkipTask, PickTask
<1>. QED BY <1>1, <1>2, <1>3 DEF Push

LEMMA OthersPushLeft ==
  ASSUME Counted, [Next]_vars, NEW q \in Pushes, ~ Push(q), at[q] # "idle"
  PROVE  PushLeft(q)' <= PushLeft(q)
<1>0. PushLeft(q) \in Nat
  BY LeftIsNumber
<1>1. at'[q] = at[q] /\ todo'[q] = todo[q] /\ tries'[q] = tries[q] => PushLeft(q)' = PushLeft(q)
  BY DEF PushLeft, Attempts, InHand
<1>2. CASE \E p \in Pushes : Push(p)
  BY <1>0, <1>1, <1>2, LeaveOwn DEF Counted
<1>3. CASE \E p \in Pushes : ReadTasks(p)
  <2>1. PICK p \in Pushes : ReadTasks(p)
    BY <1>3
  <2>2. at'[q] = at[q] /\ todo'[q] = todo[q] /\ tries'[q] = tries[q]
    BY <2>1 DEF ReadTasks, Counted, Base, TypeOK
  <2>. QED BY <1>0, <1>1, <2>2
<1>4. CASE Crash
  <2>1. PushLeft(q)' = 0
    BY <1>4 DEF Crash, PushLeft
  <2>. QED BY <1>0, <2>1
<1>5. CASE Meanwhile /\ ~ Crash
  <2>1. UNCHANGED reqVars
    BY <1>5 DEF Meanwhile, EditTask, DecideTask, RemoveTask, SwitchIntegration,
                RemoveIntegration, DeleteIssue
  <2>. QED BY <1>0, <1>1, <2>1 DEF reqVars
<1>6. CASE UNCHANGED vars
  BY <1>0, <1>1, <1>6 DEF vars, reqVars
<1>. QED BY <1>2, <1>3, <1>4, <1>5, <1>6 DEF Next

(* What a push sends is one of the tasks it has yet to send.               *)
LEMMA HandFullStep == Base /\ HandFull /\ [Next]_vars => HandFull'
<1>. SUFFICES ASSUME Base, HandFull, [Next]_vars, NEW q \in Pushes, at'[q] \in Sending
     PROVE  cur'[q] \in todo'[q]
  BY DEF HandFull
<1>1. at'[q] = at[q] /\ todo'[q] = todo[q] /\ cur'[q] = cur[q] => cur'[q] \in todo'[q]
  BY DEF HandFull
<1>2. CASE \E p \in Pushes : Push(p)
  <2>1. PICK p \in Pushes : Push(p)
    BY <1>2
  <2>2. CASE p # q
    BY <1>1, <2>1, <2>2, LeaveOwn
  <2>3. CASE p = q /\ Answer(p)
    <3>. USE <2>3 DEF Base, TypeOK, Sending, Calls
    <3>1. at[q] \in Sending
      BY DEF Answer, Created, Patched, PatchMissing, Estimated, Busy, Denied, Unreached, LostAnswer
    <3>2. ~ Continue(q) /\ ~ Leave(q)
      BY DEF Continue, Leave
    <3>3. todo'[q] = todo[q] /\ cur'[q] = cur[q]
      BY <3>2 DEF Answer, Created, Patched, PatchMissing, Estimated, Busy, Denied, Unreached,
              LostAnswer, NoAnswer, RetryCall, SaveFailure, Commit, LeaveLock, Proceed
    <3>. QED BY <3>1, <3>3 DEF HandFull
  <2>4. CASE p = q /\ (Save(p) \/ NotFound(p) \/ Refuse(p) \/ EndPush(p) \/ LineUp(p) \/ Begin(p) \/ SkipTask(p))
    <3>1. at'[q] \in {"idle", "next", "wait"}
      BY <2>4 DEF Base, TypeOK, Save, NotFound, Refuse, EndPush, LineUp, Begin, SkipTask, Commit, Continue, LeaveLock, Leave
    <3>. QED BY <3>1 DEF Sending, Calls
  <2>5. CASE p = q /\ PickTask(p)
    BY <2>5 DEF PickTask, Base, TypeOK
  <2>. QED BY <2>1, <2>2, <2>3, <2>4, <2>5 DEF Push
<1>3. CASE \E p \in Pushes : ReadTasks(p)
  <2>1. PICK p \in Pushes : ReadTasks(p)
    BY <1>3
  <2>2. CASE p # q
    BY <1>1, <2>1, <2>2 DEF ReadTasks, Base, TypeOK
  <2>3. CASE p = q
    BY <2>1, <2>3 DEF ReadTasks, Base, TypeOK, Sending, Calls
  <2>. QED BY <2>2, <2>3
<1>4. CASE Crash
  BY <1>4 DEF Crash, Sending, Calls
<1>5. CASE Meanwhile /\ ~ Crash
  <2>1. UNCHANGED reqVars
    BY <1>5 DEF Meanwhile, EditTask, DecideTask, RemoveTask, SwitchIntegration,
                RemoveIntegration, DeleteIssue
  <2>. QED BY <1>1, <2>1 DEF reqVars
<1>6. CASE UNCHANGED vars
  BY <1>1, <1>6 DEF vars, reqVars
<1>. QED BY <1>2, <1>3, <1>4, <1>5, <1>6 DEF Next

LEMMA InitHandFull == Init => HandFull
BY DEF Init, HandFull, Sending, Calls

(* However often calls are retried and tasks are skipped, refused or sent   *)
(* anew, what a request may still do is a number that each of its steps     *)
(* lowers and nothing else raises: the loops of push_tasks and _send cannot *)
(* hold the integration's lock for ever (fairness apart).                   *)
THEOREM PushesRunOut ==
  ASSUME IsFiniteSet(Tasks)
  PROVE  Spec => /\ [](\A p \in Pushes : PushLeft(p) \in Nat)
                 /\ [][\A p \in Pushes :
                          /\ Push(p) => PushLeft(p)' < PushLeft(p)
                          /\ at[p] # "idle" => PushLeft(p)' <= PushLeft(p)]_vars
<1>. DEFINE Numbered == \A p \in Pushes : PushLeft(p) \in Nat
            Lower == \A p \in Pushes :
                        /\ Push(p) => PushLeft(p)' < PushLeft(p)
                        /\ at[p] # "idle" => PushLeft(p)' <= PushLeft(p)
            Known == Base /\ HandFull
<1>1. Init => Known
  BY InitBase, InitHandFull
<1>2. Known /\ [Next]_vars => Known'
  BY BaseStep, HandFullStep
<1>3. Known => Numbered
  BY LeftIsNumber DEF Counted
<1>. HIDE DEF Numbered, Known
<1>5. Known' => Numbered'
  BY <1>3, PTL
<1>. USE DEF Known
<1>4. Known /\ [Next]_vars => [Lower]_vars
  <2>. SUFFICES ASSUME Known, [Next]_vars, NEW p \in Pushes
       PROVE  /\ Push(p) => PushLeft(p)' < PushLeft(p)
              /\ at[p] # "idle" => PushLeft(p)' <= PushLeft(p)
    OBVIOUS
  <2>1. Counted
    BY DEF Counted
  <2>2. Push(p) => PushLeft(p)' < PushLeft(p)
    BY <2>1, PushLess
  <2>3. PushLeft(p)' \in Nat /\ PushLeft(p) \in Nat
    BY <1>2, <1>5, <2>1, LeftIsNumber DEF Numbered
  <2>. QED BY <2>1, <2>2, <2>3, OthersPushLeft
<1>. HIDE DEF Numbered, Lower, Known
<1>6. Spec => []Numbered /\ [][Lower]_vars
  BY <1>1, <1>2, <1>3, <1>4, PTL DEF Spec
<1>. QED BY <1>6 DEF Numbered, Lower

=============================================================================

---------------------------- MODULE DesktopProofs ----------------------------
(***************************************************************************)
(* Theorems about Desktop, for any folders, threads and bounds.            *)
(***************************************************************************)
EXTENDS Desktop, FiniteSetTheorems, TLAPS

-----------------------------------------------------------------------------
(* Types.                                                                  *)

ControllerOK ==
    /\ mode \in Modes
    /\ active \in Dirs \cup {None} /\ closing \in Dirs \cup {None}
    /\ opening \in {"no", "idle", "busy", "silent"}
    /\ uploading \in BOOLEAN
    /\ ui \in {"idle", "ensure", "wait"}

ServerOK ==
    /\ disk \in [Dirs -> Audio] /\ uploaded \subseteq Dirs
    /\ child \in {"none", "starting", "up", "orphan"} /\ watch \in BOOLEAN
    /\ busy \in BOOLEAN
    /\ landed \subseteq Dirs

HistoryOK ==
    /\ turns \in 0..MaxTurns
    /\ excused \in BOOLEAN /\ early \subseteq Dirs

(* An upload that is about to begin knows its folder; stop recovers nothing. *)
SpawningOK ==
    /\ spawning \in [Callers -> Spawn]
    /\ \A c \in Callers : spawning[c].at # "no" => spawning[c].dir \in Dirs
    /\ spawning["stop"].at # "recover"

(* So does one that is queued or running; and whoever runs holds the lock. *)
ThreadsOK ==
    /\ up \in [Threads -> Thread]
    /\ \A t \in Threads : up[t].at \notin {"idle", "clear"} => up[t].dir \in Dirs
    /\ lock \in Threads \cup {None}
    /\ \A t \in Threads : up[t].at \notin {"idle", "queued"} <=> lock = t

Base == ControllerOK /\ ServerOK /\ HistoryOK /\ SpawningOK /\ ThreadsOK

Points == {"gate", "ensure", "wait", "recheck", "yield", "send", "finish",
           "process", "mark", "sub"}

(* A thread goes on; the others stay where they are.                       *)
Moved(t, p) ==
    /\ up' \in [Threads -> Thread]
    /\ up'[t].at = p /\ up'[t].dir = up[t].dir
    /\ \A s \in Threads \ {t} : up'[s] = up[s]

(* A record takes the place of another.                                    *)
Put(t, th) ==
    /\ up' \in [Threads -> Thread]
    /\ up'[t] = th
    /\ \A s \in Threads \ {t} : up'[s] = up[s]

LEMMA Nothings ==
    /\ NoThread \in Thread /\ NoThread.at = "idle" /\ NoThread.dir = None
    /\ NoSpawn \in Spawn /\ NoSpawn.at = "no"
    /\ [NoThread EXCEPT !.at = "clear"] \in Thread
    /\ [NoThread EXCEPT !.at = "clear"].at = "clear"
BY DEF NoThread, Thread, NoSpawn, Spawn

LEMMA Queues ==
  ASSUME NEW d \in Dirs
  PROVE  [at |-> "queued", dir |-> d, sent |-> "part"] \in Thread
BY DEF Thread

LEMMA GotoMoves ==
  ASSUME up \in [Threads -> Thread], NEW t \in Threads, NEW p \in Points, Goto(t, p)
  PROVE  Moved(t, p) /\ up'[t].sent = up[t].sent
<1>1. up'[t] = [up[t] EXCEPT !.at = p]
  BY DEF Goto
<1>2. [up[t] EXCEPT !.at = p] \in Thread
  BY DEF Thread, Points
<1>3. up' \in [Threads -> Thread]
  BY <1>2 DEF Goto
<1>4. QED
  BY <1>1, <1>3 DEF Moved, Goto, Thread

LEMMA SendMoves ==
  ASSUME up \in [Threads -> Thread], NEW t \in Threads, NEW s \in {"part", "whole"},
         up' = [up EXCEPT ![t].at = "finish", ![t].sent = s]
  PROVE  Moved(t, "finish") /\ up'[t].sent = s
<1>1. up'[t] = [at |-> "finish", dir |-> up[t].dir, sent |-> s]
  BY DEF Thread
<1>2. up' \in [Threads -> Thread]
  BY <1>1 DEF Thread
<1>3. QED
  BY <1>1, <1>2 DEF Moved

LEMMA PutThread ==
  ASSUME up \in [Threads -> Thread], NEW t \in Threads, NEW th \in Thread,
         up' = [up EXCEPT ![t] = th]
  PROVE  Put(t, th)
BY DEF Put

LEMMA ThreadRuns ==
  ASSUME Base, NEW t \in Threads, NEW p \in Points, Moved(t, p),
         up[t].at \notin {"idle", "clear"}, lock \in {t, None}, lock' = t
  PROVE  ThreadsOK'
<1>1. \A s \in Threads : up'[s].at \notin {"idle", "clear"} => up'[s].dir \in Dirs
  BY DEF Base, ThreadsOK, Moved
<1>2. up'[t].at \notin {"idle", "queued"} <=> lock' = t
  BY DEF Moved, Points
<1>3. \A s \in Threads \ {t} : up'[s].at \notin {"idle", "queued"} <=> lock' = s
  BY NoneAssumption DEF Base, ThreadsOK, Moved
<1>4. QED
  BY <1>1, <1>2, <1>3 DEF ThreadsOK, Moved

LEMMA ThreadGoes ==
  ASSUME Base, NEW t \in Threads, NEW p \in Points, Goto(t, p), up[t].at \in Points,
         lock' = lock
  PROVE  Moved(t, p) /\ up'[t].sent = up[t].sent /\ ThreadsOK'
<1>1. Moved(t, p) /\ up'[t].sent = up[t].sent
  BY GotoMoves DEF Base, ThreadsOK
<1>2. up[t].at \notin {"idle", "clear"} /\ lock = t
  BY DEF Base, ThreadsOK, Points
<1>3. QED
  BY <1>1, <1>2, ThreadRuns

LEMMA ThreadRests ==
  ASSUME Base, NEW t \in Threads, NEW th, Put(t, th), lock = t,
         (th.at = "clear" /\ lock' = t) \/ (th.at = "idle" /\ lock' = None)
  PROVE  ThreadsOK'
<1>1. \A s \in Threads : up'[s].at \notin {"idle", "clear"} => up'[s].dir \in Dirs
  BY DEF Base, ThreadsOK, Put
<1>2. up'[t].at \notin {"idle", "queued"} <=> lock' = t
  BY NoneAssumption DEF Put
<1>3. \A s \in Threads \ {t} : up'[s].at \notin {"idle", "queued"} <=> lock' = s
  BY NoneAssumption DEF Base, ThreadsOK, Put
<1>4. QED
  BY <1>1, <1>2, <1>3 DEF ThreadsOK, Put

LEMMA ThreadQueues ==
  ASSUME Base, NEW t \in Threads, NEW th, Put(t, th), up[t].at = "idle",
         th.at = "queued", th.dir \in Dirs, lock' = lock
  PROVE  ThreadsOK'
<1>1. \A s \in Threads : up'[s].at \notin {"idle", "clear"} => up'[s].dir \in Dirs
  BY DEF Base, ThreadsOK, Put
<1>2. up'[t].at \notin {"idle", "queued"} <=> lock' = t
  BY DEF Base, ThreadsOK, Put
<1>3. \A s \in Threads \ {t} : up'[s].at \notin {"idle", "queued"} <=> lock' = s
  BY DEF Base, ThreadsOK, Put
<1>4. QED
  BY <1>1, <1>2, <1>3 DEF Base, ThreadsOK, Put

LEMMA SpawningMoves ==
  ASSUME Base, NEW c \in Callers, NEW s \in Spawn,
         s.at # "no" => s.dir \in Dirs, c = "stop" => s.at # "recover",
         spawning' = [spawning EXCEPT ![c] = s]
  PROVE  SpawningOK'
BY DEF Base, SpawningOK, Callers

(* What the three ways to change one entry of spawning leave of the others.  *)
LEMMA SpawningAt ==
  ASSUME Base, NEW c \in Callers, NEW p \in {"slot", "count"}, spawning[c].at # "no"
  PROVE  LET s == [spawning[c] EXCEPT !.at = p] IN
         s \in Spawn /\ s.at = p /\ s.dir = spawning[c].dir /\ s.dir \in Dirs
BY DEF Base, SpawningOK, Spawn

LEMMA Bounds == MaxTurns \in Nat
BY TurnsAssumption

LEMMA InitBase == Init => Base
<1> SUFFICES ASSUME Init PROVE Base
  OBVIOUS
<1>1. ControllerOK
  BY DEF Init, ControllerOK
<1>2. ServerOK
  BY DEF Init, ServerOK, Audio
<1>3. HistoryOK
  <2>1. turns = 0 /\ excused = FALSE /\ early = {}
    BY DEF Init
  <2>2. turns \in 0..MaxTurns
    BY <2>1, Bounds
  <2>3. excused \in BOOLEAN
    BY <2>1
  <2>4. early \subseteq Dirs
    BY <2>1
  <2>5. QED
    BY <2>2, <2>3, <2>4 DEF HistoryOK
<1>4. SpawningOK
  BY Nothings DEF Init, SpawningOK, Callers
<1>5. ThreadsOK
  BY Nothings, NoneAssumption DEF Init, ThreadsOK
<1>6. QED
  BY <1>1, <1>2, <1>3, <1>4, <1>5 DEF Base

(* An upload thread keeps the types.                                       *)
LEMMA RunBase ==
  ASSUME Base, NEW t \in Threads, Run(t)
  PROVE  Base'
<1> USE DEF Base
<1>1. CASE Lock(t)
  <2>1. Goto(t, "gate") \/ Goto(t, "send")
    BY <1>1 DEF Lock
  <2>2. Moved(t, "gate") \/ Moved(t, "send")
    BY <2>1, GotoMoves DEF ThreadsOK, Points
  <2>3. ThreadsOK'
    BY <1>1, <2>2, ThreadRuns DEF Lock, Points
  <2>4. QED
    BY <1>1, <2>3 DEF Lock, ControllerOK, ServerOK, HistoryOK, SpawningOK, diskVars,
                      serverVars, history
<1>2. CASE Gate(t)
  <2>1. ThreadsOK'
    BY <1>2, ThreadGoes DEF Gate, Points
  <2>2. QED
    BY <1>2, <2>1 DEF Gate, ControllerOK, ServerOK, HistoryOK, SpawningOK, diskVars,
                      serverVars, history
<1>3. CASE Ensure(t)
  <2>1. Goto(t, "recheck") \/ Goto(t, "sub") \/ Goto(t, "wait")
    BY <1>3 DEF Ensure
  <2>2. ThreadsOK'
    BY <1>3, <2>1, ThreadGoes DEF Ensure, Points
  <2>3. QED
    BY <1>3, <2>2 DEF Ensure, ControllerOK, ServerOK, HistoryOK, SpawningOK, diskVars,
                      history
<1>4. CASE Ready(t)
  <2>1. ThreadsOK'
    BY <1>4, ThreadGoes DEF Ready, Points
  <2>2. QED
    BY <1>4, <2>1 DEF Ready, ControllerOK, ServerOK, HistoryOK, SpawningOK, diskVars,
                      serverVars, history
<1>5. CASE NotReady(t)
  <2>1. ThreadsOK'
    BY <1>5, ThreadGoes DEF NotReady, Points
  <2>2. QED
    BY <1>5, <2>1 DEF NotReady, ControllerOK, ServerOK, HistoryOK, SpawningOK, diskVars,
                      history
<1>6. CASE Recheck(t)
  <2>1. Goto(t, "send") \/ Goto(t, "yield") \/ Goto(t, "gate")
    BY <1>6 DEF Recheck
  <2>2. ThreadsOK'
    BY <1>6, <2>1, ThreadGoes DEF Recheck, Points
  <2>3. UNCHANGED <<mode, active, opening, closing, spawning, uploading, lock, ui>>
        /\ UNCHANGED <<diskVars, serverVars, turns, early>>
    BY <1>6 DEF Recheck
  <2>4. ControllerOK' /\ SpawningOK'
    BY <2>3 DEF ControllerOK, SpawningOK
  <2>5. ServerOK'
    BY <2>3 DEF ServerOK, diskVars, serverVars
  <2>6. excused' \in BOOLEAN
    BY <1>6 DEF Recheck, HistoryOK
  <2>7. HistoryOK'
    BY <2>3, <2>6 DEF HistoryOK
  <2>8. QED
    BY <2>2, <2>4, <2>5, <2>7
<1>7. CASE Yield(t)
  <2>1. ThreadsOK'
    BY <1>7, ThreadGoes DEF Yield, Points
  <2>2. QED
    BY <1>7, <2>1 DEF Yield, ControllerOK, ServerOK, HistoryOK, SpawningOK, diskVars,
                      history
<1>9. CASE Send(t)
  <2>1. Moved(t, "finish")
    BY <1>9, SendMoves DEF Send, ThreadsOK
  <2>2. up[t].at \notin {"idle", "clear"} /\ lock = t /\ lock' = t
    BY <1>9 DEF Send, ThreadsOK
  <2>3. ThreadsOK'
    BY <2>1, <2>2, ThreadRuns DEF Points
  <2>4. QED
    BY <1>9, <2>3 DEF Send, ControllerOK, ServerOK, HistoryOK, SpawningOK, diskVars,
                      serverVars, history
<1>10. CASE Finish(t)
  <2>1. ThreadsOK'
    BY <1>10, ThreadGoes DEF Finish, Points
  <2>2. up[t].dir \in Dirs
    BY <1>10 DEF Finish, ThreadsOK
  <2>3. landed' \subseteq Dirs
    BY <1>10, <2>2 DEF Finish, ServerOK
  <2>4. QED
    BY <1>10, <2>1, <2>3 DEF Finish, ControllerOK, ServerOK, HistoryOK, SpawningOK, diskVars,
                             history
<1>11. CASE Process(t)
  <2>1. ThreadsOK'
    BY <1>11, ThreadGoes DEF Process, Points
  <2>2. busy' \in BOOLEAN
    <3>1. busy \in BOOLEAN
      BY DEF ServerOK
    <3>2. busy' = busy \/ busy' = TRUE
      BY <1>11 DEF Process
    <3>3. QED
      BY <3>1, <3>2
  <2>3. QED
    BY <1>11, <2>1, <2>2 DEF Process, ControllerOK, ServerOK, HistoryOK, SpawningOK, diskVars,
                       history
<1>12. CASE Fails(t)
  <2>1. ThreadsOK'
    BY <1>12, ThreadGoes DEF Fails, Points
  <2>2. QED
    BY <1>12, <2>1 DEF Fails, ControllerOK, ServerOK, HistoryOK, SpawningOK, diskVars,
                       serverVars, history
<1>13. CASE Mark(t)
  <2>1. ThreadsOK'
    BY <1>13, ThreadGoes DEF Mark, Points
  <2>2. up[t].dir \in Dirs
    BY <1>13 DEF Mark, ThreadsOK
  <2>3. QED
    BY <1>13, <2>1, <2>2 DEF Mark, ControllerOK, ServerOK, HistoryOK, SpawningOK,
                             serverVars, history
<1>14. CASE Subtract(t)
  <2>1. lock = t
    BY <1>14 DEF Subtract, ThreadsOK
  <2>2. ThreadsOK'
    <3>1. CASE uploads = 1
      <4> DEFINE last == [NoThread EXCEPT !.at = "clear"]
      <4>1. up' = [up EXCEPT ![t] = last] /\ lock' = lock
        BY <1>14, <3>1 DEF Subtract
      <4>2. last \in Thread /\ last.at = "clear"
        BY Nothings
      <4> HIDE DEF last
      <4>3. Put(t, last)
        BY <4>1, <4>2, PutThread DEF ThreadsOK
      <4>4. lock' = t
        BY <2>1, <4>1
      <4>5. QED
        BY <2>1, <4>2, <4>3, <4>4, ThreadRests
    <3>2. CASE uploads # 1
      <4>1. up' = [up EXCEPT ![t] = NoThread] /\ lock' = None
        BY <1>14, <3>2 DEF Subtract
      <4>2. Put(t, NoThread)
        BY <4>1, Nothings, PutThread DEF ThreadsOK
      <4>3. QED
        BY <2>1, <4>1, <4>2, Nothings, ThreadRests
    <3>3. QED
      BY <3>1, <3>2
  <2>3. QED
    BY <1>14, <2>2 DEF Subtract, ControllerOK, ServerOK, HistoryOK, SpawningOK, diskVars,
                       serverVars, history
<1>15. CASE Clear(t)
  <2>1. lock = t
    BY <1>15 DEF Clear, ThreadsOK
  <2>2. Put(t, NoThread)
    BY <1>15, Nothings, PutThread DEF Clear, ThreadsOK
  <2>3. ThreadsOK'
    BY <1>15, <2>1, <2>2, Nothings, ThreadRests DEF Clear
  <2>4. QED
    BY ZenonT(40), <1>15, <2>3 DEF Clear, ControllerOK, ServerOK, HistoryOK, SpawningOK, diskVars,
                       serverVars, history
<1>16. QED
  BY <1>1, <1>2, <1>3, <1>4, <1>5, <1>6, <1>7, <1>9, <1>10, <1>11, <1>12, <1>13,
     <1>14, <1>15 DEF Run

LEMMA EndedBase ==
  ASSUME Base, NEW onDisk \in [Dirs -> Audio], NEW backend \in {"none", "starting", "up", "orphan"},
         Ended(onDisk, backend)
  PROVE  Base'
<1> USE DEF Base
<1>1. ControllerOK'
  BY DEF Ended, ControllerOK
<1>2. ServerOK'
  BY DEF Ended, ServerOK
<1>3. HistoryOK'
  <2>1. turns' \in 0..MaxTurns
    BY Bounds DEF Ended, HistoryOK
  <2>2. excused' = FALSE /\ early' = early
    BY DEF Ended
  <2>3. QED
    BY <2>1, <2>2 DEF HistoryOK
<1>4. SpawningOK'
  BY Nothings DEF Ended, SpawningOK, Callers
<1>5. ThreadsOK'
  BY Nothings, NoneAssumption DEF Ended, ThreadsOK
<1>6. QED
  BY <1>1, <1>2, <1>3, <1>4, <1>5

(* Beginning an upload: by stop, or by retry.                              *)
LEMMA SpawnBase ==
  ASSUME Base, NEW c \in Callers, SpawnSlot(c) \/ \E t \in Threads : SpawnCount(c, t)
  PROVE  Base'
<1> USE DEF Base
<1>1. CASE SpawnSlot(c)
  <2> DEFINE s == [spawning[c] EXCEPT !.at = "count"]
  <2>1. s \in Spawn /\ s.at = "count" /\ s.dir \in Dirs
    BY <1>1, SpawningAt DEF SpawnSlot
  <2>2. spawning' = [spawning EXCEPT ![c] = s]
    BY <1>1 DEF SpawnSlot
  <2> HIDE DEF s
  <2>3. SpawningOK'
    BY <2>1, <2>2, SpawningMoves
  <2>4. QED
    BY <1>1, <2>3 DEF SpawnSlot, ControllerOK, ServerOK, HistoryOK, ThreadsOK, diskVars,
                      serverVars, history
<1>2. ASSUME NEW t \in Threads, SpawnCount(c, t) PROVE Base'
  <2> DEFINE th == [at |-> "queued", dir |-> spawning[c].dir, sent |-> "part"]
  <2>1. spawning[c].dir \in Dirs
    BY <1>2 DEF SpawnCount, SpawningOK
  <2>2. th \in Thread /\ th.at = "queued" /\ th.dir \in Dirs
    BY <2>1, Queues
  <2>3. up' = [up EXCEPT ![t] = th] /\ lock' = lock /\ up[t].at = "idle"
    BY <1>2 DEF SpawnCount
  <2> HIDE DEF th
  <2>4. ThreadsOK'
    <3>1. Put(t, th)
      BY <2>2, <2>3, PutThread DEF ThreadsOK
    <3>2. QED
      BY <2>2, <2>3, <3>1, ThreadQueues
  <2>5. SpawningOK'
    BY <1>2, Nothings, SpawningMoves DEF SpawnCount
  <2>6. QED
    BY <1>2, <2>4, <2>5 DEF SpawnCount, ControllerOK, ServerOK, HistoryOK, diskVars,
                            serverVars, history
<1>3. QED
  BY <1>1, <1>2

LEMMA RecoverBase ==
  ASSUME Base, NEW c \in Clicks, Recover(c)
  PROVE  Base'
<1> USE DEF Base
<1>1. c \in Callers /\ spawning[c].at # "no" /\ spawning[c].dir \in Dirs
  BY DEF Recover, SpawningOK, Callers
<1>2. disk' \in [Dirs -> Audio]
  BY <1>1 DEF Recover, ServerOK, Audio
<1>3. SpawningOK'
  <2>1. CASE spawning' = [spawning EXCEPT ![c] = NoSpawn]
    BY <1>1, <2>1, Nothings, SpawningMoves
  <2>2. CASE spawning' = [spawning EXCEPT ![c].at = "slot"]
    <3> DEFINE s == [spawning[c] EXCEPT !.at = "slot"]
    <3>1. s \in Spawn /\ s.at = "slot" /\ s.dir \in Dirs
      BY <1>1, SpawningAt
    <3>2. spawning' = [spawning EXCEPT ![c] = s]
      BY <2>2
    <3> HIDE DEF s
    <3>3. QED
      BY <1>1, <3>1, <3>2, SpawningMoves
  <2>3. QED
    BY <2>1, <2>2 DEF Recover
<1>4. QED
  BY <1>2, <1>3 DEF Recover, ControllerOK, ServerOK, HistoryOK, ThreadsOK, serverVars, history

(* Every step keeps the types.                                             *)
LEMMA NextBase == Base /\ [Next]_vars => Base'
<1> SUFFICES ASSUME Base, [Next]_vars PROVE Base'
  OBVIOUS
<1> USE DEF Base
<1>1. CASE StartAsk
  BY <1>1 DEF StartAsk, ControllerOK, ServerOK, HistoryOK, SpawningOK, ThreadsOK, diskVars,
              serverVars, history
<1>3. CASE StopTake
  <2>1. excused' = FALSE /\ turns' = turns /\ early' = early
    BY <1>3 DEF StopTake
  <2>2. HistoryOK'
    BY <2>1 DEF HistoryOK
  <2>3. QED
    BY <1>3, <2>2 DEF StopTake, ControllerOK, ServerOK, SpawningOK, ThreadsOK, diskVars,
                      serverVars
<1>4. CASE \E usable \in BOOLEAN : StopClose(usable)
  <2>1. PICK usable \in BOOLEAN : StopClose(usable)
    BY <1>4
  <2>2. closing \in Dirs
    BY <2>1 DEF StopClose, ControllerOK
  <2>3. disk' \in [Dirs -> Audio]
    BY <2>1, <2>2 DEF StopClose, ServerOK, Audio
  <2>4. SpawningOK'
    <3>1. CASE spawning' = spawning
      BY <3>1 DEF SpawningOK
    <3>2. CASE spawning' = [spawning EXCEPT !["stop"] = [at |-> "slot", dir |-> closing]]
      BY <2>2, <3>2, SpawningMoves DEF Callers, Spawn
    <3>3. QED
      BY <2>1, <3>1, <3>2 DEF StopClose
  <2>5. QED
    BY <2>1, <2>3, <2>4 DEF StopClose, ControllerOK, ServerOK, HistoryOK, ThreadsOK,
                            serverVars, history
<1>5. ASSUME NEW d \in Dirs, StartGo(d) PROVE Base'
  <2>1. disk' \in [Dirs -> Audio]
    BY <1>5 DEF StartGo, ServerOK, Audio
  <2>2. active' \in Dirs \cup {None}
    BY <1>5 DEF StartGo, ControllerOK
  <2>3. excused' \in BOOLEAN
    BY <1>5 DEF StartGo, HistoryOK
  <2>4. turns' = turns /\ early' = early
    BY <1>5 DEF StartGo
  <2>5. HistoryOK'
    BY <2>3, <2>4 DEF HistoryOK
  <2>6. QED
    BY <1>5, <2>1, <2>2, <2>5 DEF StartGo, ControllerOK, ServerOK, SpawningOK, ThreadsOK
<1>6. ASSUME NEW c \in Clicks, NEW d \in Dirs, Retry(c, d) PROVE Base'
  <2> DEFINE s == [at |-> "recover", dir |-> d]
  <2>1. s \in Spawn /\ s.at # "no" /\ s.dir \in Dirs
    BY DEF Spawn
  <2>2. spawning' = [spawning EXCEPT ![c] = s]
    BY <1>6 DEF Retry
  <2>3. c # "stop" /\ c \in Callers
    BY ClicksAssumption DEF Callers
  <2> HIDE DEF s
  <2>8. SpawningOK'
    BY <2>1, <2>2, <2>3, SpawningMoves
  <2>4. turns' \in 0..MaxTurns
    BY <1>6, Bounds DEF Retry, HistoryOK
  <2>5. early' \subseteq Dirs
    BY <1>6 DEF Retry, HistoryOK
  <2>6. HistoryOK'
    BY <1>6, <2>4, <2>5 DEF Retry, HistoryOK
  <2>7. QED
    BY <1>6, <2>8, <2>6 DEF Retry, ControllerOK, ServerOK, ThreadsOK, diskVars, serverVars
<1>7. ASSUME NEW d \in Dirs, Discard(d) PROVE Base'
  BY <1>7 DEF Discard, ctlVars, ControllerOK, ServerOK, HistoryOK, SpawningOK, ThreadsOK,
              serverVars, history, Audio
<1>8. ASSUME NEW c \in Clicks, Recover(c) PROVE Base'
  BY <1>8, RecoverBase
<1>9. ASSUME NEW c \in Callers, SpawnSlot(c) \/ \E t \in Threads : SpawnCount(c, t) PROVE Base'
  BY <1>9, SpawnBase
<1>10. ASSUME NEW t \in Threads, Run(t) PROVE Base'
  BY <1>10, RunBase
<1>11. CASE UiCheck
  <2>1. turns' \in 0..MaxTurns
    BY <1>11, Bounds DEF UiCheck, HistoryOK
  <2>2. HistoryOK'
    BY <1>11, <2>1 DEF UiCheck, HistoryOK
  <2>3. QED
    BY <1>11, <2>2 DEF UiCheck, ControllerOK, ServerOK, SpawningOK, ThreadsOK, diskVars,
                       serverVars
<1>12. CASE UiEnsure
  BY <1>12 DEF UiEnsure, ControllerOK, ServerOK, HistoryOK, SpawningOK, ThreadsOK, diskVars,
               history
<1>13. CASE UiReady
  <2>1. excused' \in BOOLEAN /\ turns' = turns /\ early' = early
    <3>1. excused \in BOOLEAN
      BY DEF HistoryOK
    <3>2. excused' = excused \/ excused' = TRUE
      BY <1>13, <3>1 DEF UiReady
    <3>3. QED
      BY <1>13, <3>1, <3>2 DEF UiReady
  <2>2. HistoryOK'
    BY <2>1 DEF HistoryOK
  <2>3. QED
    BY <1>13, <2>2 DEF UiReady, ControllerOK, ServerOK, SpawningOK, ThreadsOK, diskVars
<1>14. CASE ChildUp \/ ChildDies
  BY <1>14 DEF ChildUp, ChildDies, ctlVars, ControllerOK, ServerOK, HistoryOK, SpawningOK,
               ThreadsOK, diskVars, history
<1>15. CASE WatchAsk \/ WatchStop
  BY ZenonT(40), <1>15 DEF WatchAsk, WatchStop, ctlVars, ControllerOK, ServerOK, HistoryOK, SpawningOK,
               ThreadsOK, diskVars, history
<1>16. CASE Request \/ JobsEnd
  <2>1. busy' = TRUE \/ busy' = FALSE
    BY <1>16 DEF Request, JobsEnd
  <2>2. busy' \in BOOLEAN
    BY <2>1
  <2>3. QED
    BY <1>16, <2>2 DEF Request, JobsEnd, ctlVars, ControllerOK, ServerOK, HistoryOK, SpawningOK,
                       ThreadsOK, diskVars, history
<1>17. ASSUME NEW closed \in {"complete", "bare"}, Quit(closed) PROVE Base'
  <2> DEFINE onDisk == [d \in Dirs |-> IF disk[d] # "writing" THEN disk[d]
                          ELSE IF d = active THEN closed ELSE "left"]
             backend == IF Owned THEN "none" ELSE child
  <2>1. onDisk \in [Dirs -> Audio] /\ backend \in {"none", "starting", "up", "orphan"}
    BY DEF ServerOK, Audio
  <2>2. Ended(onDisk, backend)
    BY <1>17 DEF Quit
  <2>3. QED
    BY <2>1, <2>2, EndedBase
<1>18. CASE Kill
  <2> DEFINE onDisk == [d \in Dirs |-> IF disk[d] = "writing" THEN "left" ELSE disk[d]]
             backend == IF Owned THEN "orphan" ELSE child
  <2>1. onDisk \in [Dirs -> Audio] /\ backend \in {"none", "starting", "up", "orphan"}
    BY DEF ServerOK, Audio
  <2>2. Ended(onDisk, backend)
    BY <1>18 DEF Kill
  <2>3. QED
    BY <2>1, <2>2, EndedBase
<1>19. CASE UNCHANGED vars
  BY <1>19 DEF vars, ctlVars, diskVars, serverVars, history, ControllerOK, ServerOK,
               HistoryOK, SpawningOK, ThreadsOK
<1>20. QED
  BY <1>1, <1>3, <1>4, <1>5, <1>6, <1>7, <1>8, <1>9, <1>10, <1>11, <1>12, <1>13,
     <1>14, <1>15, <1>16, <1>17, <1>18, <1>19 DEF Next

-----------------------------------------------------------------------------
(* The number of uploads, and the slot of the UI.                          *)

Working == {t \in Threads : up[t].at \notin {"idle", "clear"}}

(* uploads counts the threads that are queued or running.                  *)
Counted == IsFiniteSet(Working) /\ uploads = Cardinality(Working)

(* The slot is set only while someone is still there to empty it.          *)
Shown ==
    /\ uploading => \/ uploads # 0
                    \/ \E t \in Threads : up[t].at = "clear"
                    \/ \E c \in Callers : spawning[c].at = "count"
    /\ closing # None => spawning["stop"].at = "no"

LEMMA UploadsIsNat == Counted => uploads \in Nat
BY FS_CardinalityType DEF Counted

LEMMA WorkerCounts == ASSUME Counted, NEW t \in Working PROVE uploads # 0
BY FS_EmptySet DEF Counted

(* What a step of a thread does to the threads.                            *)
LEMMA RunMoves ==
  ASSUME Base, NEW t \in Threads, Run(t)
  PROVE  \/ Subtract(t)
         \/ Clear(t)
         \/ /\ \E p \in Points : Moved(t, p)
            /\ up[t].at \notin {"idle", "clear"}
            /\ UNCHANGED <<closing, spawning, uploads>>
<1> SUFFICES ASSUME ~Subtract(t), ~Clear(t)
             PROVE  /\ \E p \in Points : Moved(t, p)
                    /\ up[t].at \notin {"idle", "clear"}
                    /\ UNCHANGED <<closing, spawning, uploads>>
  OBVIOUS
<1>1. CASE Send(t)
  <2>1. Moved(t, "finish")
    BY <1>1, SendMoves DEF Send, Base, ThreadsOK
  <2>2. QED
    BY <1>1, <2>1 DEF Send, Points
<1>2. CASE ~Send(t)
  <2>1. /\ \E p \in Points : Goto(t, p)
        /\ up[t].at \notin {"idle", "clear"}
        /\ UNCHANGED <<closing, spawning, uploads>>
    <3>1. CASE Lock(t) \/ Gate(t) \/ Ready(t) \/ NotReady(t)
      BY <3>1 DEF Lock, Gate, Ready, NotReady, Points
    <3>2. CASE Ensure(t)
      BY <3>2 DEF Ensure, Points
    <3>3. CASE Recheck(t)
      BY <3>3 DEF Recheck, Points
    <3>4. CASE Yield(t) \/ Finish(t) \/ Process(t)
      BY <3>4 DEF Yield, Finish, Process, Points
    <3>5. CASE Fails(t) \/ Mark(t)
      BY <3>5 DEF Fails, Mark, Points
    <3>6. QED
      BY <1>2, <3>1, <3>2, <3>3, <3>4, <3>5 DEF Run
  <2>2. QED
    BY <2>1, GotoMoves DEF Base, ThreadsOK
<1>3. QED
  BY <1>1, <1>2

LEMMA SubtractPuts ==
  ASSUME Base, NEW t \in Threads, Subtract(t)
  PROVE  /\ \E th \in Thread : Put(t, th) /\ th.at = IF uploads = 1 THEN "clear" ELSE "idle"
         /\ t \in Working /\ uploads' = uploads - 1 /\ UNCHANGED <<closing, spawning>>
<1>1. CASE uploads = 1
  <2> DEFINE last == [NoThread EXCEPT !.at = "clear"]
  <2>1. up' = [up EXCEPT ![t] = last]
    BY <1>1 DEF Subtract
  <2>2. last \in Thread /\ last.at = "clear"
    BY Nothings
  <2> HIDE DEF last
  <2>3. Put(t, last)
    BY <2>1, <2>2, PutThread DEF Base, ThreadsOK
  <2>4. QED
    BY <1>1, <2>2, <2>3 DEF Subtract, Working
<1>2. CASE uploads # 1
  <2>1. up' = [up EXCEPT ![t] = NoThread]
    BY <1>2 DEF Subtract
  <2>2. Put(t, NoThread)
    BY <2>1, Nothings, PutThread DEF Base, ThreadsOK
  <2>3. QED
    BY <1>2, <2>2, Nothings DEF Subtract, Working
<1>3. QED
  BY <1>1, <1>2

LEMMA ClearPuts ==
  ASSUME Base, NEW t \in Threads, Clear(t)
  PROVE  Put(t, NoThread) /\ t \notin Working /\ uploading' = FALSE
         /\ UNCHANGED <<closing, spawning, uploads>>
<1>1. Put(t, NoThread)
  BY Nothings, PutThread DEF Clear, Base, ThreadsOK
<1>2. QED
  BY <1>1 DEF Clear, Working

LEMMA SpawnPuts ==
  ASSUME Base, NEW c \in Callers, NEW t \in Threads, SpawnCount(c, t)
  PROVE  /\ \E th \in Thread : Put(t, th) /\ th.at = "queued" /\ th.dir = spawning[c].dir
         /\ t \notin Working /\ uploads' = uploads + 1 /\ UNCHANGED closing
         /\ spawning' = [spawning EXCEPT ![c] = NoSpawn]
<1> DEFINE th == [at |-> "queued", dir |-> spawning[c].dir, sent |-> "part"]
<1>1. spawning[c].dir \in Dirs
  BY DEF SpawnCount, Base, SpawningOK
<1>2. th \in Thread /\ th.at = "queued" /\ th.dir = spawning[c].dir
  BY <1>1, Queues
<1>3. up' = [up EXCEPT ![t] = th]
  BY DEF SpawnCount
<1> HIDE DEF th
<1>4. Put(t, th)
  BY <1>2, <1>3, PutThread DEF Base, ThreadsOK
<1>5. QED
  BY <1>2, <1>4 DEF SpawnCount, Working

(* Nothing else touches the threads, but the end of the app.               *)
LEMMA ThreadsRest ==
  ASSUME [Next]_vars
  PROVE  \/ \E t \in Threads : Run(t)
         \/ \E c \in Callers, t \in Threads : SpawnCount(c, t)
         \/ \E onDisk, backend : Ended(onDisk, backend)
         \/ (up' = up /\ uploads' = uploads)
<1>1. CASE StartAsk \/ StopTake \/ \E usable \in BOOLEAN : StopClose(usable)
  BY <1>1 DEF StartAsk, StopTake, StopClose
<1>2. CASE \E d \in Dirs : StartGo(d) \/ Discard(d) \/ \E c \in Clicks : Retry(c, d)
  BY <1>2 DEF StartGo, Retry, Discard, ctlVars
<1>3. CASE (\E c \in Clicks : Recover(c)) \/ \E c \in Callers : SpawnSlot(c)
  BY <1>3 DEF Recover, SpawnSlot
<1>4. CASE UiCheck \/ UiEnsure \/ UiReady
  BY <1>4 DEF UiCheck, UiEnsure, UiReady
<1>5. CASE ChildUp \/ ChildDies \/ WatchAsk \/ WatchStop \/ Request \/ JobsEnd
  BY <1>5 DEF ChildUp, ChildDies, WatchAsk, WatchStop, Request, JobsEnd, ctlVars
<1>6. CASE (\E closed \in {"complete", "bare"} : Quit(closed)) \/ Kill
  BY <1>6 DEF Quit, Kill
<1>7. CASE UNCHANGED vars
  BY <1>7 DEF vars, ctlVars
<1>8. QED
  BY <1>1, <1>2, <1>3, <1>4, <1>5, <1>6, <1>7 DEF Next

LEMMA InitCounted == Init => Counted
<1> SUFFICES ASSUME Init PROVE Counted
  OBVIOUS
<1>1. Working = {}
  BY Nothings DEF Init, Working
<1>2. QED
  BY <1>1, FS_EmptySet DEF Init, Counted

LEMMA NextCounted ==
  ASSUME Base, Counted, [Next]_vars
  PROVE  Counted'
<1>1. ASSUME NEW t \in Threads, Run(t) PROVE Counted'
  <2>1. CASE Subtract(t)
    <3>1. PICK th \in Thread : Put(t, th) /\ th.at = IF uploads = 1 THEN "clear" ELSE "idle"
      BY <2>1, SubtractPuts
    <3>2. Working' = Working \ {t}
      BY <3>1 DEF Put, Working
    <3>3. t \in Working /\ uploads' = uploads - 1
      BY <2>1, SubtractPuts
    <3>4. QED
      BY <3>2, <3>3, FS_RemoveElement DEF Counted
  <2>2. CASE Clear(t)
    <3>1. Put(t, NoThread) /\ t \notin Working /\ uploads' = uploads
      BY <2>2, ClearPuts
    <3>2. Working' = Working
      BY <3>1, Nothings DEF Put, Working
    <3>3. QED
      BY <3>1, <3>2 DEF Counted
  <2>3. ASSUME NEW p \in Points, Moved(t, p), up[t].at \notin {"idle", "clear"},
               uploads' = uploads
        PROVE  Counted'
    <3>1. Working' = Working
      BY <2>3 DEF Moved, Working, Points
    <3>2. QED
      BY <2>3, <3>1 DEF Counted
  <2>4. QED
    BY <1>1, <2>1, <2>2, <2>3, RunMoves
<1>2. ASSUME NEW c \in Callers, NEW t \in Threads, SpawnCount(c, t) PROVE Counted'
  <2>1. PICK th \in Thread : Put(t, th) /\ th.at = "queued"
    BY <1>2, SpawnPuts
  <2>2. Working' = Working \cup {t}
    BY <2>1 DEF Put, Working
  <2>3. t \notin Working /\ uploads' = uploads + 1
    BY <1>2, SpawnPuts
  <2>4. QED
    BY <2>2, <2>3, FS_AddElement DEF Counted
<1>3. ASSUME NEW onDisk, NEW backend, Ended(onDisk, backend) PROVE Counted'
  <2>1. Working' = {}
    BY <1>3, Nothings DEF Ended, Working
  <2>2. QED
    BY <1>3, <2>1, FS_EmptySet DEF Ended, Counted
<1>4. CASE up' = up /\ uploads' = uploads
  BY <1>4 DEF Counted, Working
<1>5. QED
  BY <1>1, <1>2, <1>3, <1>4, ThreadsRest

LEMMA InitShown == Init => Shown
BY DEF Init, Shown

LEMMA NextShown ==
  ASSUME Base, Counted, Shown, [Next]_vars
  PROVE  Shown'
<1>1. ASSUME NEW t \in Threads, Run(t) PROVE Shown'
  <2>1. CASE Subtract(t)
    <3>1. PICK th \in Thread : Put(t, th) /\ th.at = IF uploads = 1 THEN "clear" ELSE "idle"
      BY <2>1, SubtractPuts
    <3>2. uploads' = uploads - 1 /\ closing' = closing /\ spawning' = spawning
      BY <2>1, SubtractPuts
    <3>3. uploads' # 0 \/ up'[t].at = "clear"
      BY <3>1, <3>2, UploadsIsNat DEF Put
    <3>4. QED
      BY <3>2, <3>3 DEF Shown
  <2>2. CASE Clear(t)
    BY <2>2, ClearPuts DEF Shown
  <2>3. ASSUME up[t].at \notin {"idle", "clear"}, UNCHANGED <<closing, spawning, uploads>>
        PROVE  Shown'
    <3>1. uploads' # 0
      BY <2>3, WorkerCounts DEF Working
    <3>2. QED
      BY <2>3, <3>1 DEF Shown
  <2>4. QED
    BY <1>1, <2>1, <2>2, <2>3, RunMoves
<1>2. ASSUME NEW c \in Callers, NEW t \in Threads, SpawnCount(c, t) PROVE Shown'
  <2>1. uploads' # 0
    BY <1>2, SpawnPuts, UploadsIsNat
  <2>2. (closing # None => spawning["stop"].at = "no")'
    BY <1>2, SpawnPuts, Nothings DEF Shown, Base, SpawningOK, Callers
  <2>3. QED
    BY <2>1, <2>2 DEF Shown
<1>3. ASSUME NEW onDisk, NEW backend, Ended(onDisk, backend) PROVE Shown'
  BY <1>3 DEF Ended, Shown
<1>4. ASSUME up' = up, uploads' = uploads, UNCHANGED <<closing, spawning, uploading>> PROVE Shown'
  BY <1>4 DEF Shown
<1>5. CASE StopTake
  BY <1>5 DEF StopTake, Shown
<1>6. ASSUME NEW usable, StopClose(usable) PROVE Shown'
  <2>1. spawning["stop"].at = "no"
    BY <1>6 DEF StopClose, Shown
  <2>2. \A c \in Callers : spawning[c].at = "count" => spawning'[c].at = "count"
    BY <1>6, <2>1 DEF StopClose, Base, SpawningOK, Callers
  <2>3. QED
    BY <1>6, <2>2 DEF StopClose, Shown
<1>7. ASSUME NEW d \in Dirs, NEW k \in Clicks, Retry(k, d) PROVE Shown'
  <2>1. \A c \in Callers : spawning[c].at = "count" => spawning'[c].at = "count"
    BY <1>7 DEF Retry, Base, SpawningOK, Callers
  <2>2. spawning'["stop"] = spawning["stop"]
    BY <1>7, ClicksAssumption DEF Retry, Base, SpawningOK, Callers
  <2>3. QED
    BY <1>7, <2>1, <2>2 DEF Retry, Shown
<1>8. ASSUME NEW k \in Clicks, Recover(k) PROVE Shown'
  <2>1. \A c \in Callers : spawning[c].at = "count" => spawning'[c].at = "count"
    BY <1>8 DEF Recover, Base, SpawningOK, Callers
  <2>2. spawning'["stop"] = spawning["stop"]
    BY <1>8, ClicksAssumption DEF Recover, Base, SpawningOK, Callers
  <2>3. QED
    BY <1>8, <2>1, <2>2 DEF Recover, Shown
<1>9. ASSUME NEW c \in Callers, SpawnSlot(c) PROVE Shown'
  <2>1. spawning'[c].at = "count"
    BY <1>9 DEF SpawnSlot, Base, SpawningOK, Spawn
  <2>2. spawning["stop"].at = "no" => spawning'["stop"].at = "no"
    BY <1>9 DEF SpawnSlot, Base, SpawningOK, Callers
  <2>3. QED
    BY <1>9, <2>1, <2>2 DEF SpawnSlot, Shown
<1>10. CASE \/ StartAsk
            \/ \E d \in Dirs : StartGo(d) \/ Discard(d)
            \/ UiCheck \/ UiEnsure \/ UiReady
            \/ ChildUp \/ ChildDies \/ WatchAsk \/ WatchStop \/ Request \/ JobsEnd
            \/ UNCHANGED vars
  BY <1>4, <1>10 DEF StartAsk, StartGo, Discard, UiCheck, UiEnsure, UiReady,
     ChildUp, ChildDies, WatchAsk, WatchStop, Request, JobsEnd, vars, ctlVars
<1>11. QED
  BY <1>1, <1>2, <1>3, <1>5, <1>6, <1>7, <1>8, <1>9, <1>10 DEF Next, Quit, Kill

LEMMA TypesCounts == Spec => [](Base /\ Counted)
<1>1. Init => Base /\ Counted
  BY InitBase, InitCounted
<1>2. Base /\ Counted /\ [Next]_vars => (Base /\ Counted)'
  BY NextBase, NextCounted
<1>3. QED
  BY <1>1, <1>2, PTL DEF Spec

(* Every variable of the desktop app has its type, and whoever works on an *)
(* upload holds the lock.  That the count of uploads is a number needs that*)
(* it is the number of the threads that are queued or running.             *)
THEOREM DesktopTypes == Spec => []TypeOK
<1>1. Base /\ Counted => TypeOK
  BY UploadsIsNat DEF Base, ControllerOK, ServerOK, HistoryOK, SpawningOK, ThreadsOK, TypeOK
<1>2. QED
  BY <1>1, TypesCounts, PTL

(* The UI shows no upload when none is queued, running or about to be: the *)
(* slot that stop, retry and the upload itself set is emptied by the last  *)
(* upload to end, however starts and ends of several of them interleave.   *)
THEOREM SlotTheorem == Spec => []SlotIsFreed
<1>1. Init => Shown
  BY InitShown
<1>2. Base /\ Counted /\ Shown /\ [Next]_vars => Shown'
  BY NextShown
<1>3. Shown => SlotIsFreed
  BY DEF Shown, SlotIsFreed
<1>4. QED
  BY <1>1, <1>2, <1>3, TypesCounts, PTL DEF Spec

-----------------------------------------------------------------------------
(* What is marked as uploaded was uploaded whole.                          *)

(* Nobody writes to the audio of the folder any more, or it was retried too *)
(* early.                                                                  *)
Sound(d) == disk[d] \in {"complete", "bare", "gone"} \/ d \in early

(* Or it is not repaired yet. *)
Repairable(d) == disk[d] = "left" \/ Sound(d)

(* The server has the audio of the folder, or there is none to have.       *)
Arrived(d) == d \in landed \cup early \/ disk[d] \in {"bare", "gone"}

OpenIsWritten ==
    /\ active # None => disk[active] = "writing" /\ active # closing
    /\ closing # None => disk[closing] \in {"writing", "gone"}
    /\ opening # "no" => active = None

SpawnsSound ==
    \A c \in Callers :
        /\ spawning[c].at \in {"slot", "count"} => Sound(spawning[c].dir)
        /\ spawning[c].at = "recover" => Repairable(spawning[c].dir)

OnTrack(th) ==
    th.at \notin {"idle", "clear"} =>
        /\ Sound(th.dir)
        /\ th.at = "finish" => (th.sent = "whole" \/ Arrived(th.dir))
        /\ th.at \in {"process", "mark"} => Arrived(th.dir)

Whole ==
    /\ OpenIsWritten
    /\ SpawnsSound
    /\ \A t \in Threads : OnTrack(up[t])
    /\ \A d \in uploaded : Arrived(d) /\ disk[d] # "gone"

LEMMA InitWhole == Init => Whole
<1> SUFFICES ASSUME Init PROVE Whole
  OBVIOUS
<1>1. OpenIsWritten
  BY DEF Init, OpenIsWritten
<1>2. SpawnsSound
  BY Nothings DEF Init, SpawnsSound
<1>3. \A t \in Threads : OnTrack(up[t])
  BY Nothings DEF Init, OnTrack
<1>4. uploaded = {}
  BY DEF Init
<1>5. QED
  BY <1>1, <1>2, <1>3, <1>4 DEF Whole

(* What a step may make of the audio of a folder.                          *)
Aged(d) ==
    /\ disk[d] \in {"bare", "gone"} => disk'[d] \in {"bare", "gone"}
    /\ disk[d] = "complete" => disk'[d] \in {"complete", "gone"}
    /\ disk[d] = "left" => disk'[d] \in {"left", "complete", "gone"}
    /\ disk[d] # "gone" /\ disk'[d] = "gone" => d \notin uploaded'

LEMMA DiskAges ==
  ASSUME Base, [Next]_vars, NEW d \in Dirs
  PROVE  Aged(d)
<1>1. ASSUME disk' = disk PROVE Aged(d)
  BY <1>1 DEF Aged
<1>2. CASE StartAsk \/ StopTake
  BY <1>1, <1>2 DEF StartAsk, StopTake, diskVars
<1>3. ASSUME NEW usable, StopClose(usable) PROVE Aged(d)
  BY <1>3 DEF StopClose, Aged, Base, ServerOK, ControllerOK
<1>4. ASSUME NEW e \in Dirs, StartGo(e) PROVE Aged(d)
  BY <1>4 DEF StartGo, Aged, Base, ServerOK
<1>5. ASSUME NEW e \in Dirs, Discard(e) PROVE Aged(d)
  BY <1>5 DEF Discard, Aged, Base, ServerOK
<1>6. ASSUME NEW c \in Clicks, Recover(c) PROVE Aged(d)
  BY <1>6 DEF Recover, Aged, Base, ServerOK
<1>7. ASSUME NEW closed \in {"complete", "bare"}, Quit(closed) PROVE Aged(d)
  BY <1>7 DEF Quit, Ended, Aged, Base, ServerOK
<1>8. CASE Kill
  BY <1>8 DEF Kill, Ended, Aged, Base, ServerOK
<1>9. ASSUME NEW t \in Threads, Run(t) PROVE Aged(d)
  <2>1. CASE Lock(t) \/ Gate(t) \/ Ensure(t) \/ Ready(t) \/ NotReady(t) \/ Recheck(t)
    BY <1>1, <2>1 DEF Lock, Gate, Ensure, Ready, NotReady, Recheck, diskVars
  <2>2. CASE Yield(t) \/ Send(t) \/ Finish(t) \/ Process(t)
    BY <1>1, <2>2 DEF Yield, Send, Finish, Process, diskVars
  <2>3. CASE Fails(t) \/ Mark(t) \/ Subtract(t) \/ Clear(t)
    BY <1>1, <2>3 DEF Fails, Mark, Subtract, Clear, diskVars
  <2>4. QED
    BY <1>9, <2>1, <2>2, <2>3 DEF Run
<1>10. ASSUME NEW c, \/ \E e \in Dirs : Retry(c, e)
                     \/ SpawnSlot(c)
                     \/ \E t \in Threads : SpawnCount(c, t)
       PROVE  Aged(d)
  BY <1>1, <1>10 DEF Retry, SpawnSlot, SpawnCount, diskVars
<1>11. CASE UiCheck \/ UiEnsure \/ UiReady
  BY <1>1, <1>11 DEF UiCheck, UiEnsure, UiReady, diskVars
<1>12. CASE ChildUp \/ ChildDies \/ WatchAsk \/ WatchStop \/ Request \/ JobsEnd
  BY <1>1, <1>12 DEF ChildUp, ChildDies, WatchAsk, WatchStop, Request, JobsEnd, diskVars
<1>13. CASE UNCHANGED vars
  BY <1>1, <1>13 DEF vars, diskVars
<1>14. QED
  BY <1>2, <1>3, <1>4, <1>5, <1>6, <1>7, <1>8, <1>9, <1>10, <1>11, <1>12, <1>13 DEF Next

LEMMA HistoryGrows ==
  ASSUME [Next]_vars
  PROVE  early \subseteq early' /\ landed \subseteq landed'
<1> DEFINE Q == early \subseteq early' /\ landed \subseteq landed'
<1> SUFFICES Q
  OBVIOUS
<1>1. ASSUME UNCHANGED <<early, landed>> PROVE Q
  BY <1>1
<1>2. CASE StartAsk \/ StopTake \/ \E usable \in BOOLEAN : StopClose(usable)
  BY <1>1, <1>2 DEF StartAsk, StopTake, StopClose, serverVars, history
<1>3. CASE \E d \in Dirs : StartGo(d) \/ Discard(d)
  BY <1>1, <1>3 DEF StartGo, Discard, serverVars, history
<1>4. CASE \E d \in Dirs, c \in Clicks : Retry(c, d)
  BY <1>4 DEF Retry, serverVars
<1>5. CASE (\E c \in Clicks : Recover(c)) \/ \E c \in Callers : SpawnSlot(c) \/ \E t \in Threads : SpawnCount(c, t)
  BY <1>1, <1>5 DEF Recover, SpawnSlot, SpawnCount, serverVars, history
<1>6. ASSUME NEW t \in Threads, Run(t) PROVE Q
  <2>1. CASE Finish(t)
    BY <2>1 DEF Finish, history
  <2>2. CASE Lock(t) \/ Gate(t) \/ Ensure(t) \/ Ready(t) \/ NotReady(t) \/ Recheck(t)
    BY <1>1, <2>2 DEF Lock, Gate, Ensure, Ready, NotReady, Recheck, serverVars, history
  <2>3. CASE Yield(t) \/ Send(t) \/ Process(t) \/ Fails(t)
    BY <1>1, <2>3 DEF Yield, Send, Process, Fails, serverVars, history
  <2>4. CASE Mark(t) \/ Subtract(t) \/ Clear(t)
    BY <1>1, <2>4 DEF Mark, Subtract, Clear, serverVars, history
  <2>5. QED
    BY <1>6, <2>1, <2>2, <2>3, <2>4 DEF Run
<1>7. CASE UiCheck \/ UiEnsure \/ UiReady
  BY <1>1, <1>7 DEF UiCheck, UiEnsure, UiReady, serverVars, history
<1>8. CASE ChildUp \/ ChildDies \/ WatchAsk \/ WatchStop \/ Request \/ JobsEnd
  BY <1>1, <1>8 DEF ChildUp, ChildDies, WatchAsk, WatchStop, Request, JobsEnd, history
<1>9. CASE (\E closed \in {"complete", "bare"} : Quit(closed)) \/ Kill
  BY <1>1, <1>9 DEF Quit, Kill, Ended
<1>10. CASE UNCHANGED vars
  BY <1>1, <1>10 DEF vars, serverVars, history
<1> HIDE DEF Q
<1>11. QED
  BY <1>2, <1>3, <1>4, <1>5, <1>6, <1>7, <1>8, <1>9, <1>10 DEF Next

(* What was closed stays closed, what has arrived stays there.             *)
LEMMA Settled ==
  ASSUME Base, [Next]_vars, NEW d \in Dirs
  PROVE  /\ Sound(d) => Sound(d)'
         /\ Repairable(d) => Repairable(d)'
         /\ Arrived(d) => Arrived(d)'
         /\ d \in early => d \in early'
BY DiskAges, HistoryGrows DEF Aged, Sound, Repairable, Arrived

LEMMA NextOpen ==
  ASSUME Base, OpenIsWritten, [Next]_vars
  PROVE  OpenIsWritten'
<1> USE DEF OpenIsWritten
<1>1. ASSUME UNCHANGED <<disk, active, closing, opening>> PROVE OpenIsWritten'
  BY <1>1
<1>2. CASE StartAsk
  BY <1>2 DEF StartAsk, diskVars
<1>3. ASSUME NEW d \in Dirs, StartGo(d) PROVE OpenIsWritten'
  <2>1. active = None /\ closing' = closing /\ opening' = "no" /\ closing # d
    BY <1>3, NoneAssumption DEF StartGo
  <2>2. CASE active' = d /\ disk' = [disk EXCEPT ![d] = "writing"]
    BY <2>1, <2>2 DEF Base, ServerOK, ControllerOK
  <2>3. CASE active' = active /\ \E a \in {"fresh", "bare", "complete", "writing"} : disk' = [disk EXCEPT ![d] = a]
    BY <2>1, <2>3 DEF Base, ServerOK, ControllerOK
  <2>4. QED
    BY <1>3, <2>2, <2>3 DEF StartGo
<1>4. CASE StopTake
  BY <1>4, NoneAssumption DEF StopTake, diskVars, Unlocked
<1>5. ASSUME NEW usable, StopClose(usable) PROVE OpenIsWritten'
  <2>1. closing' = None /\ active' = active /\ opening' = opening
    BY <1>5 DEF StopClose
  <2>2. active # None => disk'[active] = disk[active]
    BY <1>5 DEF StopClose, Base, ServerOK, ControllerOK
  <2>3. QED
    BY <2>1, <2>2
<1>6. ASSUME NEW d \in Dirs, Discard(d) PROVE OpenIsWritten'
  BY <1>6 DEF Discard, ctlVars, Base, ServerOK, ControllerOK
<1>7. ASSUME NEW c \in Clicks, Recover(c) PROVE OpenIsWritten'
  BY <1>7 DEF Recover, Base, ServerOK, ControllerOK
<1>8. CASE (\E closed \in {"complete", "bare"} : Quit(closed)) \/ Kill
  BY <1>8 DEF Quit, Kill, Ended
<1>9. ASSUME NEW c, \/ \E d \in Dirs : Retry(c, d)
                    \/ SpawnSlot(c)
                    \/ \E t \in Threads : SpawnCount(c, t)
      PROVE  OpenIsWritten'
  BY <1>1, <1>9 DEF Retry, SpawnSlot, SpawnCount, diskVars
<1>11. ASSUME NEW t \in Threads, Run(t) PROVE OpenIsWritten'
  <2>1. CASE Lock(t) \/ Gate(t) \/ Ensure(t) \/ Ready(t) \/ NotReady(t) \/ Recheck(t)
    BY <1>1, <2>1 DEF Lock, Gate, Ensure, Ready, NotReady, Recheck, diskVars
  <2>2. CASE Yield(t) \/ Send(t) \/ Finish(t) \/ Process(t)
    BY <1>1, <2>2 DEF Yield, Send, Finish, Process, diskVars
  <2>3. CASE Fails(t) \/ Mark(t) \/ Subtract(t) \/ Clear(t)
    BY <1>1, <2>3 DEF Fails, Mark, Subtract, Clear, diskVars
  <2>4. QED
    BY <1>11, <2>1, <2>2, <2>3 DEF Run
<1>12. CASE UiCheck \/ UiEnsure \/ UiReady
  BY <1>1, <1>12 DEF UiCheck, UiEnsure, UiReady, diskVars
<1>13. CASE ChildUp \/ ChildDies \/ WatchAsk \/ WatchStop \/ Request \/ JobsEnd
  BY <1>1, <1>13 DEF ChildUp, ChildDies, WatchAsk, WatchStop, Request, JobsEnd, diskVars, ctlVars
<1>14. CASE UNCHANGED vars
  BY <1>1, <1>14 DEF vars, diskVars, ctlVars
<1> HIDE DEF OpenIsWritten
<1>15. QED
  BY <1>2, <1>3, <1>4, <1>5, <1>6, <1>7, <1>8, <1>9, <1>11, <1>12, <1>13, <1>14 DEF Next

SpawnSound(s) ==
    /\ s.at \in {"slot", "count"} => Sound(s.dir)
    /\ s.at = "recover" => Repairable(s.dir)

(* One caller goes on, with a folder that is sound; the others wait.       *)
LEMMA SpawnsStep ==
  ASSUME Base, SpawnsSound, [Next]_vars, NEW c \in Callers, SpawnSound(spawning[c])',
         \A e \in Callers \ {c} : spawning'[e] = spawning[e]
  PROVE  SpawnsSound'
<1>1. ASSUME NEW e \in Callers PROVE SpawnSound(spawning[e])'
  <2>1. CASE e = c
    BY <2>1
  <2>2. CASE e # c
    <3>1. spawning'[e] = spawning[e] /\ (spawning[e].at # "no" => spawning[e].dir \in Dirs)
      BY <2>2 DEF Base, SpawningOK
    <3>2. QED
      BY <3>1, Settled DEF SpawnsSound, SpawnSound
  <2>3. QED
    BY <2>1, <2>2
<1>2. QED
  BY <1>1 DEF SpawnsSound, SpawnSound

LEMMA SpawnsKeep ==
  ASSUME Base, SpawnsSound, [Next]_vars, spawning' = spawning
  PROVE  SpawnsSound'
BY Settled DEF SpawnsSound, Base, SpawningOK

LEMMA NextSpawns ==
  ASSUME Base, OpenIsWritten, SpawnsSound, [Next]_vars
  PROVE  SpawnsSound'
<1>1. ASSUME NEW usable, StopClose(usable) PROVE SpawnsSound'
  <2>1. CASE spawning' = spawning
    BY <2>1, SpawnsKeep
  <2>2. CASE usable /\ spawning' = [spawning EXCEPT !["stop"] = [at |-> "slot", dir |-> closing]]
    <3>1. closing \in Dirs
      BY <1>1 DEF StopClose, Base, ControllerOK
    <3>2. disk'[closing] \in {"complete", "gone"}
      BY <1>1, <2>2, <3>1 DEF StopClose, OpenIsWritten, Base, ServerOK
    <3>3. /\ "stop" \in Callers /\ spawning'["stop"] = [at |-> "slot", dir |-> closing]
          /\ \A e \in Callers \ {"stop"} : spawning'[e] = spawning[e]
      BY <2>2 DEF Base, SpawningOK, Callers
    <3>4. SpawnSound(spawning["stop"])'
      BY <3>2, <3>3 DEF SpawnSound, Sound
    <3>5. QED
      BY <3>3, <3>4, SpawnsStep
  <2>3. QED
    BY <1>1, <2>1, <2>2 DEF StopClose
<1>2. ASSUME NEW c \in Clicks, NEW d \in Dirs, Retry(c, d) PROVE SpawnsSound'
  <2>1. /\ c \in Callers /\ spawning'[c] = [at |-> "recover", dir |-> d]
        /\ \A e \in Callers \ {c} : spawning'[e] = spawning[e]
    BY <1>2 DEF Retry, Base, SpawningOK, Callers
  <2>2. Repairable(d)'
    BY <1>2 DEF Retry, diskVars, Repairable, Sound, Base, ServerOK, Audio
  <2>3. SpawnSound(spawning[c])'
    BY <2>1, <2>2 DEF SpawnSound
  <2>4. QED
    BY <2>1, <2>3, SpawnsStep
<1>3. ASSUME NEW c \in Clicks, Recover(c) PROVE SpawnsSound'
  <2>1. /\ c \in Callers /\ spawning[c] \in Spawn
        /\ \A e \in Callers \ {c} : spawning'[e] = spawning[e]
    BY <1>3 DEF Recover, Base, SpawningOK, Callers
  <2>2. SpawnSound(spawning[c])'
    <3>1. CASE spawning' = [spawning EXCEPT ![c] = NoSpawn]
      BY <2>1, <3>1, Nothings DEF SpawnSound, Base, SpawningOK
    <3>2. CASE /\ disk' = [disk EXCEPT ![spawning[c].dir] = IF @ = "left" THEN "complete" ELSE @]
               /\ spawning' = [spawning EXCEPT ![c].at = "slot"]
      <4>1. PICK d \in Dirs : d = spawning[c].dir /\ Repairable(d)
        BY <1>3, <2>1 DEF Recover, SpawnsSound, Base, SpawningOK
      <4>2. Sound(d)'
        BY <1>3, <3>2, <4>1 DEF Recover, Repairable, Sound, Base, ServerOK, history
      <4>3. spawning'[c].at = "slot" /\ spawning'[c].dir = d
        BY <2>1, <3>2, <4>1 DEF Spawn, Base, SpawningOK
      <4>4. QED
        BY <4>2, <4>3 DEF SpawnSound
    <3>3. QED
      BY <1>3, <3>1, <3>2 DEF Recover
  <2>3. QED
    BY <2>1, <2>2, SpawnsStep
<1>4. ASSUME NEW c \in Callers, SpawnSlot(c) PROVE SpawnsSound'
  <2>1. /\ spawning[c].at = "slot" /\ spawning'[c].at = "count"
        /\ spawning'[c].dir = spawning[c].dir /\ spawning[c].dir \in Dirs
    BY <1>4 DEF SpawnSlot, Base, SpawningOK, Spawn
  <2>2. \A e \in Callers \ {c} : spawning'[e] = spawning[e]
    BY <1>4 DEF SpawnSlot, Base, SpawningOK
  <2>3. SpawnSound(spawning[c])'
    BY <2>1, Settled DEF SpawnsSound, SpawnSound
  <2>4. QED
    BY <2>2, <2>3, SpawnsStep
<1>5. ASSUME NEW c \in Callers, NEW t \in Threads, SpawnCount(c, t) PROVE SpawnsSound'
  <2>1. spawning'[c].at = "no" /\ \A e \in Callers \ {c} : spawning'[e] = spawning[e]
    BY <1>5, SpawnPuts, Nothings DEF Base, SpawningOK
  <2>2. SpawnSound(spawning[c])'
    BY <2>1 DEF SpawnSound
  <2>3. QED
    BY <2>1, <2>2, SpawnsStep
<1>6. ASSUME NEW onDisk, NEW backend, Ended(onDisk, backend) PROVE SpawnsSound'
  BY <1>6, Nothings DEF Ended, SpawnsSound
<1>7. CASE StartAsk \/ StopTake \/ \E d \in Dirs : StartGo(d) \/ Discard(d)
  BY <1>7, SpawnsKeep DEF StartAsk, StopTake, StartGo, Discard, ctlVars
<1>8. ASSUME NEW t \in Threads, Run(t) PROVE SpawnsSound'
  BY <1>8, RunMoves, SubtractPuts, ClearPuts, SpawnsKeep
<1>9. CASE UiCheck \/ UiEnsure \/ UiReady
  BY <1>9, SpawnsKeep DEF UiCheck, UiEnsure, UiReady
<1>10. CASE ChildUp \/ ChildDies \/ WatchAsk \/ WatchStop \/ Request \/ JobsEnd
  BY <1>10, SpawnsKeep DEF ChildUp, ChildDies, WatchAsk, WatchStop, Request, JobsEnd, ctlVars
<1>11. CASE UNCHANGED vars
  BY <1>11, SpawnsKeep DEF vars, ctlVars
<1>12. QED
  BY <1>1, <1>2, <1>3, <1>4, <1>5, <1>6, <1>7, <1>8, <1>9, <1>10, <1>11 DEF Next, Quit, Kill

LEMMA TrackKeeps ==
  ASSUME Base, NEW s \in Threads, OnTrack(up[s]), [Next]_vars, up'[s] = up[s]
  PROVE  OnTrack(up[s])'
<1>1. up[s].at \notin {"idle", "clear"} => up[s].dir \in Dirs
  BY DEF Base, ThreadsOK
<1>2. QED
  BY <1>1, Settled DEF OnTrack

(* A thread that goes on stays on track when what it goes on to allows it.  *)
LEMMA TrackMoves ==
  ASSUME Base, NEW t \in Threads, OnTrack(up[t]), [Next]_vars, NEW p \in Points, Moved(t, p),
         up[t].at \notin {"idle", "clear"},
         p = "finish" => (up'[t].sent = "whole" \/ Arrived(up[t].dir)),
         p \in {"process", "mark"} => (Arrived(up[t].dir) \/ up[t].dir \in landed')
  PROVE  OnTrack(up[t])'
<1>1. up[t].dir \in Dirs /\ Sound(up[t].dir)
  BY DEF Base, ThreadsOK, OnTrack
<1>2. PICK d \in Dirs : d = up[t].dir /\ d = up'[t].dir
  BY <1>1 DEF Moved
<1>3. Sound(d)'
  BY <1>1, <1>2, Settled
<1>4. p = "finish" => (up'[t].sent = "whole" \/ Arrived(d)')
  BY <1>2, Settled
<1>5. p \in {"process", "mark"} => Arrived(d)'
  BY <1>2, Settled DEF Arrived
<1>6. up'[t].at = p
  BY DEF Moved
<1>7. QED
  BY <1>2, <1>3, <1>4, <1>5, <1>6 DEF OnTrack

LEMMA RunTrack ==
  ASSUME Base, NEW t \in Threads, OnTrack(up[t]), [Next]_vars, Run(t)
  PROVE  OnTrack(up[t])'
<1>1. up[t].at \notin {"idle", "clear"} => up[t].dir \in Dirs
  BY DEF Base, ThreadsOK
<1>2. CASE Send(t)
  <2> DEFINE s == IF disk[up[t].dir] = "complete" THEN "whole" ELSE "part"
  <2>1. up' = [up EXCEPT ![t].at = "finish", ![t].sent = s] /\ s \in {"part", "whole"}
    BY <1>2 DEF Send
  <2>2. s = "whole" \/ Arrived(up[t].dir)
    BY <1>2 DEF Send, OnTrack, Sound, Arrived
  <2> HIDE DEF s
  <2>3. Moved(t, "finish") /\ up'[t].sent = s
    BY <2>1, SendMoves DEF Base, ThreadsOK
  <2>4. QED
    BY <1>2, <2>2, <2>3, TrackMoves DEF Send, Points
<1>3. CASE Finish(t)
  <2>1. Moved(t, "process")
    BY <1>3, GotoMoves DEF Finish, Points, Base, ThreadsOK
  <2>2. Arrived(up[t].dir) \/ up[t].dir \in landed'
    BY <1>3 DEF Finish, OnTrack
  <2>3. QED
    BY <1>3, <2>1, <2>2, TrackMoves DEF Finish, Points
<1>4. CASE Process(t)
  <2>1. Moved(t, "mark")
    BY <1>4, GotoMoves DEF Process, Points, Base, ThreadsOK
  <2>2. Arrived(up[t].dir)
    BY <1>4 DEF Process, OnTrack
  <2>3. QED
    BY <1>4, <2>1, <2>2, TrackMoves DEF Process, Points
<1>5. ASSUME NEW p \in Points \ {"finish", "process", "mark"}, Goto(t, p),
             up[t].at \notin {"idle", "clear"}
      PROVE  OnTrack(up[t])'
  BY <1>5, GotoMoves, TrackMoves DEF Base, ThreadsOK
<1>6. CASE Lock(t) \/ Gate(t) \/ Ready(t) \/ NotReady(t)
  BY <1>5, <1>6 DEF Lock, Gate, Ready, NotReady, Points
<1>7. CASE Ensure(t)
  BY <1>5, <1>7 DEF Ensure, Points
<1>8. CASE Recheck(t)
  BY <1>5, <1>8 DEF Recheck, Points
<1>9. CASE Yield(t) \/ Fails(t) \/ Mark(t)
  BY <1>5, <1>9 DEF Yield, Fails, Mark, Points
<1>10. CASE Subtract(t)
  <2>1. up'[t].at \in {"idle", "clear"}
    BY <1>10, SubtractPuts DEF Put
  <2>2. QED
    BY <2>1 DEF OnTrack
<1>11. CASE Clear(t)
  BY <1>11, ClearPuts, Nothings DEF Put, OnTrack
<1>12. QED
  BY <1>2, <1>3, <1>4, <1>6, <1>7, <1>8, <1>9, <1>10, <1>11 DEF Run

LEMMA NextTrack ==
  ASSUME Base, SpawnsSound, \A t \in Threads : OnTrack(up[t]), [Next]_vars, NEW s \in Threads
  PROVE  OnTrack(up[s])'
<1>1. ASSUME NEW t \in Threads, Run(t) PROVE OnTrack(up[s])'
  <2>1. CASE s = t
    BY <1>1, <2>1, RunTrack
  <2>2. CASE s # t
    <3>1. up'[s] = up[s]
      BY <1>1, <2>2, RunMoves, SubtractPuts, ClearPuts DEF Put, Moved
    <3>2. QED
      BY <3>1, TrackKeeps
  <2>3. QED
    BY <2>1, <2>2
<1>2. ASSUME NEW c \in Callers, NEW t \in Threads, SpawnCount(c, t) PROVE OnTrack(up[s])'
  <2>1. PICK th \in Thread : Put(t, th) /\ th.at = "queued" /\ th.dir = spawning[c].dir
    BY <1>2, SpawnPuts
  <2>2. CASE s = t
    <3>1. th.dir \in Dirs /\ Sound(th.dir)
      BY <1>2, <2>1 DEF SpawnCount, SpawnsSound, Base, SpawningOK
    <3>2. Sound(th.dir)'
      BY <3>1, Settled
    <3>3. QED
      BY <2>1, <2>2, <3>2 DEF Put, OnTrack
  <2>3. CASE s # t
    BY <2>1, <2>3, TrackKeeps DEF Put
  <2>4. QED
    BY <2>2, <2>3
<1>3. ASSUME NEW onDisk, NEW backend, Ended(onDisk, backend) PROVE OnTrack(up[s])'
  BY <1>3, Nothings DEF Ended, OnTrack
<1>4. CASE up' = up
  BY <1>4, TrackKeeps
<1>5. QED
  BY <1>1, <1>2, <1>3, <1>4, ThreadsRest

LEMMA NextMarked ==
  ASSUME Base, \A t \in Threads : OnTrack(up[t]),
         \A d \in uploaded : Arrived(d) /\ disk[d] # "gone", [Next]_vars, NEW e \in uploaded'
  PROVE  Arrived(e)' /\ disk'[e] # "gone"
<1>1. CASE e \in uploaded
  <2>1. e \in Dirs
    BY <1>1 DEF Base, ServerOK
  <2>2. QED
    BY <1>1, <2>1, Settled, DiskAges DEF Aged
<1>2. ASSUME NEW t \in Threads, Mark(t) PROVE Arrived(e)' /\ disk'[e] # "gone"
  <2>1. up[t].dir \in Dirs /\ Arrived(up[t].dir)
    BY <1>2 DEF Mark, OnTrack, Base, ThreadsOK
  <2>2. e \in uploaded \/ (e = up[t].dir /\ disk'[e] # "gone")
    BY <1>2 DEF Mark
  <2>3. QED
    BY <1>1, <2>1, <2>2, Settled
<1>3. ASSUME uploaded' \subseteq uploaded PROVE e \in uploaded
  BY <1>3
<1>4. ASSUME NEW t \in Threads, Run(t), ~Mark(t) PROVE e \in uploaded
  <2>1. CASE Lock(t) \/ Gate(t) \/ Ensure(t) \/ Ready(t) \/ NotReady(t) \/ Recheck(t)
    BY <1>3, <2>1 DEF Lock, Gate, Ensure, Ready, NotReady, Recheck, diskVars
  <2>2. CASE Yield(t) \/ Send(t) \/ Finish(t) \/ Process(t)
    BY <1>3, <2>2 DEF Yield, Send, Finish, Process, diskVars
  <2>3. CASE Fails(t) \/ Subtract(t) \/ Clear(t)
    BY <1>3, <2>3 DEF Fails, Subtract, Clear, diskVars
  <2>4. QED
    BY <1>4, <2>1, <2>2, <2>3 DEF Run
<1>5. ASSUME StartAsk \/ StopTake \/ \E usable \in BOOLEAN : StopClose(usable) PROVE e \in uploaded
  BY <1>3, <1>5 DEF StartAsk, StopTake, StopClose, diskVars
<1>6. ASSUME \E d \in Dirs : StartGo(d) \/ Discard(d) \/ \E c \in Clicks : Retry(c, d)
      PROVE  e \in uploaded
  BY <1>3, <1>6 DEF StartGo, Retry, Discard, diskVars
<1>7. ASSUME \/ \E c \in Clicks : Recover(c)
             \/ \E c \in Callers : SpawnSlot(c) \/ \E t \in Threads : SpawnCount(c, t)
      PROVE  e \in uploaded
  BY <1>3, <1>7 DEF Recover, SpawnSlot, SpawnCount, diskVars
<1>8. ASSUME UiCheck \/ UiEnsure \/ UiReady PROVE e \in uploaded
  BY <1>3, <1>8 DEF UiCheck, UiEnsure, UiReady, diskVars
<1>9. ASSUME ChildUp \/ ChildDies \/ WatchAsk \/ WatchStop \/ Request \/ JobsEnd
      PROVE  e \in uploaded
  BY <1>3, <1>9 DEF ChildUp, ChildDies, WatchAsk, WatchStop, Request, JobsEnd, diskVars
<1>10. ASSUME (\E closed \in {"complete", "bare"} : Quit(closed)) \/ Kill PROVE e \in uploaded
  BY <1>3, <1>10 DEF Quit, Kill, Ended
<1>11. ASSUME UNCHANGED vars PROVE e \in uploaded
  BY <1>3, <1>11 DEF vars, diskVars
<1>12. QED
  BY <1>1, <1>2, <1>4, <1>5, <1>6, <1>7, <1>8, <1>9, <1>10, <1>11 DEF Next

LEMMA NextWhole == Base /\ Whole /\ [Next]_vars => Whole'
<1> SUFFICES ASSUME Base, Whole, [Next]_vars PROVE Whole'
  OBVIOUS
<1>1. OpenIsWritten'
  BY NextOpen DEF Whole
<1>2. SpawnsSound'
  BY NextSpawns DEF Whole
<1>3. \A t \in Threads : OnTrack(up[t])'
  BY NextTrack DEF Whole
<1>4. \A d \in uploaded' : Arrived(d)' /\ disk'[d] # "gone"
  BY NextMarked DEF Whole
<1>5. QED
  BY <1>1, <1>2, <1>3, <1>4 DEF Whole

(* A folder that holds audio and is marked as uploaded, and so never        *)
(* offered for upload again, is whole in a meeting the server finished:     *)
(* through failures of the upload, discards, quits and kills, with any      *)
(* number of retries under way.  Excepted is every folder that was retried  *)
(* while it was still written.                                              *)
THEOREM UploadedTheorem == Spec => []UploadedIsWhole
<1>1. Init => Whole
  BY InitWhole
<1>2. Whole => UploadedIsWhole
  BY DEF Whole, UploadedIsWhole, Arrived
<1>3. QED
  BY <1>1, <1>2, NextWhole, TypesCounts, PTL DEF Spec

-----------------------------------------------------------------------------
(* During a recording the backend rests.                                   *)

Lit == {"ensure", "wait", "recheck", "yield"}

(* A backend that starts has someone who waits for it; a list that may yet  *)
(* start one is an excuse; and one that comes up after start has asked in   *)
(* vain is watched by an upload, unless it was a list that started it.      *)
Light ==
    /\ active # None /\ ~excused => ui = "idle"
    /\ child = "starting" => (ui = "wait" \/ \E t \in Threads : up[t].at = "wait")
    /\ opening = "silent" /\ child = "up" /\ ~excused =>
          (ui = "wait" \/ \E t \in Threads : up[t].at \in Lit)
    /\ RecordingIsLight

LEMMA InitLight == Init => Light
BY DEF Init, Light, RecordingIsLight

LEMMA LightKeeps ==
  ASSUME Light, UNCHANGED <<active, excused, ui, child, up>>,
         opening' = "silent" /\ child = "up" => opening = "silent"
  PROVE  Light'
BY DEF Light, RecordingIsLight, Owned

(* A thread that has no backend to answer for may do what it likes.        *)
LEMMA LightMoves ==
  ASSUME Light, NEW t \in Threads, up[t].at \notin Lit,
         \A s \in Threads \ {t} : up'[s] = up[s],
         UNCHANGED <<active, opening, excused, ui, child>>
  PROVE  Light'
<1>1. \A s \in Threads : up[s].at \in Lit => up'[s] = up[s]
  OBVIOUS
<1>2. (child = "starting" => (ui = "wait" \/ \E s \in Threads : up[s].at = "wait"))'
  BY <1>1 DEF Light, Lit
<1>3. RecordingIsLight'
  BY <1>1 DEF Light, Lit, RecordingIsLight, Owned
<1>4. (opening = "silent" /\ child = "up" /\ ~excused =>
          (ui = "wait" \/ \E s \in Threads : up[s].at \in Lit))'
  BY <1>1 DEF Light
<1>5. QED
  BY <1>2, <1>3, <1>4 DEF Light

(* One that has goes on, and the backend is right where it goes.           *)
LEMMA LightSteps ==
  ASSUME Light, NEW t \in Threads, NEW p \in Points, Moved(t, p), UNCHANGED <<active, opening, ui>>,
         active # None /\ ~excused' => ~excused,
         child' = "starting" => (ui = "wait" \/ p = "wait" \/ \E s \in Threads \ {t} : up[s].at = "wait"),
         active # None /\ ~excused' /\ child' \in {"starting", "up"} =>
             (p \in Lit \/ \E s \in Threads \ {t} : up[s].at \in Lit),
         opening = "silent" => (p \in Lit \/ child' # "up")
  PROVE  Light'
<1>1. up'[t].at = p /\ \A s \in Threads \ {t} : up'[s] = up[s]
  BY DEF Moved
<1>2. (child = "starting" => (ui = "wait" \/ \E s \in Threads : up[s].at = "wait"))'
  BY <1>1
<1>3. RecordingIsLight'
  BY <1>1 DEF Lit, RecordingIsLight, Owned
<1>4. (active # None /\ ~excused => ui = "idle")'
  BY DEF Light
<1>5. (opening = "silent" /\ child = "up" /\ ~excused =>
          (ui = "wait" \/ \E s \in Threads : up[s].at \in Lit))'
  BY <1>1
<1>6. QED
  BY <1>2, <1>3, <1>4, <1>5 DEF Light

LEMMA RunLight ==
  ASSUME Base, Light, NEW t \in Threads, Run(t)
  PROVE  Light'
<1>1. CASE Lock(t) \/ Gate(t)
  <2>1. up[t].at \notin Lit /\ UNCHANGED <<active, opening, excused, ui, child>>
    BY <1>1 DEF Lock, Gate, Lit, history, serverVars
  <2>2. QED
    BY <1>1, <2>1, RunMoves, LightMoves DEF Moved, Subtract, Clear, Lock, Gate
<1>2. CASE Send(t) \/ Finish(t) \/ Process(t) \/ Fails(t) \/ Mark(t)
  <2>1. up[t].at \notin Lit /\ UNCHANGED <<active, opening, excused, ui, child>>
    BY <1>2 DEF Send, Finish, Process, Fails, Mark, Lit, history, serverVars
  <2>2. QED
    BY <1>2, <2>1, RunMoves, LightMoves
       DEF Moved, Subtract, Clear, Send, Finish, Process, Fails, Mark
<1>3. CASE Subtract(t) \/ Clear(t)
  <2>1. up[t].at \notin Lit /\ UNCHANGED <<active, opening, excused, ui, child>>
    BY <1>3 DEF Subtract, Clear, Lit, history, serverVars
  <2>2. \A s \in Threads \ {t} : up'[s] = up[s]
    BY <1>3, SubtractPuts, ClearPuts DEF Put
  <2>3. QED
    BY <2>1, <2>2, LightMoves
<1>4. CASE Ensure(t)
  <2>1. UNCHANGED <<active, opening, excused, ui>> /\ up[t].at = "ensure"
    BY <1>4 DEF Ensure, history
  <2>2. CASE child = "up"
    <3>1. Moved(t, "recheck") /\ child' = child
      BY <1>4, <2>2, GotoMoves DEF Ensure, Points, Base, ThreadsOK
    <3>2. QED
      BY <2>1, <2>2, <3>1, LightSteps DEF Points, Lit
  <2>3. CASE child = "orphan"
    <3>1. Moved(t, "sub") /\ child' = child
      BY <1>4, <2>3, GotoMoves DEF Ensure, Points, Base, ThreadsOK
    <3>2. QED
      BY <2>1, <2>3, <3>1, LightSteps DEF Points, Lit
  <2>4. CASE child \notin {"up", "orphan"}
    <3>1. Moved(t, "wait")
      BY <1>4, <2>4, GotoMoves DEF Ensure, Points, Base, ThreadsOK
    <3>2. QED
      BY <2>1, <3>1, LightSteps DEF Points, Lit
  <2>5. QED
    BY <2>2, <2>3, <2>4
<1>5. CASE Ready(t)
  <2>1. Moved(t, "recheck")
    BY <1>5, GotoMoves DEF Ready, Points, Base, ThreadsOK
  <2>2. QED
    BY <1>5, <2>1, LightSteps DEF Ready, Points, Lit, serverVars, history
<1>6. CASE NotReady(t)
  <2>1. Moved(t, "sub")
    BY <1>6, GotoMoves DEF NotReady, Points, Base, ThreadsOK
  <2>2. child' \notin {"starting", "up"}
    BY <1>6 DEF NotReady, Owned
  <2>3. QED
    BY <1>6, <2>1, <2>2, LightSteps DEF NotReady, Points, history
<1>7. CASE Recheck(t)
  <2>1. /\ UNCHANGED <<active, opening, ui, child>> /\ up[t].at = "recheck"
        /\ opening = "no" /\ (excused => excused')
    <3>1. /\ UNCHANGED <<active, opening, ui, child>> /\ up[t].at = "recheck"
          /\ opening = "no"
      BY <1>7 DEF Recheck, serverVars, Unlocked
    <3>2. excused' = excused \/ excused' = (excused \/ child = "up")
      BY <1>7 DEF Recheck
    <3>3. excused => excused'
      BY <3>2, Zenon
    <3>4. QED
      BY <3>1, <3>3
  <2>2. child' = "starting" => (ui = "wait" \/ \E s \in Threads \ {t} : up[s].at = "wait")
    BY <2>1 DEF Light
  <2>3. CASE active = None /\ Goto(t, "send")
    <3>1. Moved(t, "send")
      BY <2>3, GotoMoves DEF Points, Base, ThreadsOK
    <3>2. QED
      BY <2>1, <2>2, <2>3, <3>1, LightSteps DEF Points
  <2>4. CASE Goto(t, "yield")
    <3>1. Moved(t, "yield")
      BY <2>4, GotoMoves DEF Points, Base, ThreadsOK
    <3>2. QED
      BY <2>1, <2>2, <3>1, LightSteps DEF Points, Lit
  <2>5. CASE Goto(t, "gate") /\ excused' = (excused \/ child = "up")
    <3>1. Moved(t, "gate")
      BY <2>5, GotoMoves DEF Points, Base, ThreadsOK
    <3>2. child = "up" => excused'
      BY <2>5
    <3>3. active # None /\ ~excused' /\ child' \in {"starting", "up"} =>
              \E s \in Threads \ {t} : up[s].at \in Lit
      BY <2>1, <2>2, <3>2 DEF Light, Lit
    <3>4. QED
      BY <2>1, <2>2, <3>1, <3>3, LightSteps DEF Points
  <2>6. QED
    BY <1>7, <2>3, <2>4, <2>5 DEF Recheck
<1>8. CASE Yield(t)
  <2>1. Moved(t, "gate")
    BY <1>8, GotoMoves DEF Yield, Points, Base, ThreadsOK
  <2>2. child' \notin {"starting", "up"}
    BY <1>8 DEF Yield, Owned
  <2>3. QED
    BY <1>8, <2>1, <2>2, LightSteps DEF Yield, Points, history
<1>9. QED
  BY <1>1, <1>2, <1>3, <1>4, <1>5, <1>6, <1>7, <1>8 DEF Run

LEMMA NextLight ==
  ASSUME Base, OpenIsWritten, Light, [Next]_vars
  PROVE  Light'
<1>1. ASSUME NEW d \in Dirs, StartGo(d) PROVE Light'
  <2>1. UNCHANGED <<ui, up>> /\ (child' = child \/ child' = "none")
    BY <1>1 DEF StartGo
  <2>2. (child = "starting" => (ui = "wait" \/ \E t \in Threads : up[t].at = "wait"))'
    BY <2>1 DEF Light
  <2>3. opening' = "no"
    BY <1>1 DEF StartGo
  <2>4. CASE active' = active
    <3>1. active = None
      BY <1>1 DEF StartGo, OpenIsWritten
    <3>2. QED
      BY <2>2, <2>3, <2>4, <3>1 DEF Light, RecordingIsLight
  <2>5. CASE excused' = (excused \/ opening = "busy" \/ ui # "idle")
    <3>1. (active # None /\ ~excused => ui = "idle")'
      BY <2>1, <2>5
    <3>2. RecordingIsLight'
      <4>1. SUFFICES ASSUME child' \in {"starting", "up"}, ~excused'
                     PROVE  \E t \in Threads : up[t].at \in Lit
        BY <2>1 DEF RecordingIsLight, Owned, Lit
      <4>2. child' = child /\ opening = "silent" /\ ui = "idle" /\ ~excused
        BY <1>1, <2>1, <2>5, <4>1 DEF StartGo, Owned
      <4>3. QED
        BY <4>1, <4>2 DEF Light, Lit
    <3>3. QED
      BY <2>2, <2>3, <3>1, <3>2 DEF Light
  <2>6. QED
    BY <1>1, <2>4, <2>5 DEF StartGo
<1>2. CASE StopTake
  <2>1. active' = None /\ opening' = "no" /\ UNCHANGED <<ui, up, child>>
    BY <1>2 DEF StopTake, serverVars, Unlocked
  <2>2. QED
    BY <2>1 DEF Light, RecordingIsLight
<1>3. ASSUME NEW t \in Threads, Run(t) PROVE Light'
  BY <1>3, RunLight
<1>4. ASSUME NEW c, NEW t \in Threads, SpawnCount(c, t) PROVE Light'
  <2>1. UNCHANGED <<active, opening, excused, ui, child>> /\ up[t].at \notin Lit
    BY <1>4 DEF SpawnCount, serverVars, history, Lit
  <2>2. \A s \in Threads \ {t} : up'[s] = up[s]
    BY <1>4 DEF SpawnCount, Base, ThreadsOK
  <2>3. QED
    BY <2>1, <2>2, LightMoves
<1>5. CASE UiCheck
  <2>1. active = None /\ active' = None /\ opening' = "no" /\ ui = "idle" /\ UNCHANGED <<child, up>>
    BY <1>5 DEF UiCheck, serverVars, Unlocked
  <2>2. QED
    BY <2>1 DEF Light, RecordingIsLight
<1>6. CASE UiEnsure
  <2>1. ui = "ensure" /\ UNCHANGED <<active, opening, excused, up>>
    BY <1>6 DEF UiEnsure, history
  <2>2. active = None \/ excused
    BY <2>1 DEF Light
  <2>3. (child' = child /\ child # "starting") \/ ui' = "wait"
    BY <1>6 DEF UiEnsure
  <2>4. QED
    BY <2>1, <2>2, <2>3 DEF Light, RecordingIsLight
<1>7. CASE UiReady
  <2>1. ui = "wait" /\ UNCHANGED <<active, opening, up>> /\ child' # "starting"
        /\ (child' = child \/ child' = "none")
        /\ excused' = (excused \/ (opening # "no" /\ child = "up"))
    BY <1>7 DEF UiReady
  <2>2. active = None \/ excused
    BY <2>1 DEF Light
  <2>3. QED
    BY <2>1, <2>2 DEF Light, RecordingIsLight
<1>8. CASE ChildUp \/ ChildDies \/ WatchStop
  <2>1. UNCHANGED <<active, opening, excused, ui, up>>
    BY <1>8 DEF ChildUp, ChildDies, WatchStop, ctlVars, history
  <2>2. (child = "starting" /\ child' = "up") \/ child' \notin {"starting", "up"}
    BY <1>8 DEF ChildUp, ChildDies, WatchStop, Owned
  <2>3. QED
    BY <2>1, <2>2 DEF Light, RecordingIsLight, Owned, Lit
<1>9. ASSUME NEW onDisk, NEW backend, backend # "starting", Ended(onDisk, backend) PROVE Light'
  BY <1>9 DEF Ended, Light, RecordingIsLight
<1>10. CASE (\E closed \in {"complete", "bare"} : Quit(closed)) \/ Kill
  <2>1. (IF Owned THEN "none" ELSE child) # "starting" /\ (IF Owned THEN "orphan" ELSE child) # "starting"
    BY DEF Owned
  <2>2. QED
    BY <1>9, <1>10, <2>1 DEF Quit, Kill
<1>11. CASE StartAsk \/ \E usable \in BOOLEAN : StopClose(usable)
  BY <1>11, LightKeeps DEF StartAsk, StopClose, serverVars, history
<1>12. CASE (\E c \in Clicks : Recover(c)) \/ \E c \in Callers : SpawnSlot(c)
  BY <1>12, LightKeeps DEF Recover, SpawnSlot, serverVars, history
<1>13. CASE \E d \in Dirs : Discard(d) \/ \E c \in Clicks : Retry(c, d)
  BY <1>13, LightKeeps DEF Retry, Discard, ctlVars, serverVars, history
<1>14. CASE WatchAsk \/ Request \/ JobsEnd \/ UNCHANGED vars
  BY <1>14, LightKeeps DEF WatchAsk, Request, JobsEnd, vars, ctlVars, serverVars, history
<1>15. QED
  BY <1>1, <1>2, <1>3, <1>4, <1>5, <1>6, <1>7, <1>8, <1>10, <1>11, <1>12, <1>13, <1>14 DEF Next

(* While a recording runs the backend of the app, with its models, runs     *)
(* beside it only while the upload that started it has yet to look again,   *)
(* or because of excused: it had jobs or gave no answer when it was asked   *)
(* to stop, or a list of meetings that had asked before the recording began *)
(* started it - the last against what ensure_backend means to rule out.     *)
THEOREM LightTheorem == Spec => []RecordingIsLight
<1>1. Init => OpenIsWritten /\ Light
  BY InitWhole, InitLight DEF Whole
<1>2. Base /\ OpenIsWritten /\ Light /\ [Next]_vars => (OpenIsWritten /\ Light)'
  BY NextOpen, NextLight
<1>3. Light => RecordingIsLight
  BY DEF Light
<1>4. QED
  BY <1>1, <1>2, <1>3, TypesCounts, PTL DEF Spec

=============================================================================

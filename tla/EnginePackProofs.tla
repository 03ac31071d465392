-------------------------- MODULE EnginePackProofs --------------------------
(***************************************************************************)
(* Theorems about EnginePack, for any processes, lengths and bounds.       *)
(***************************************************************************)
EXTENDS EnginePack, FiniteSetTheorems, TLAPS

-----------------------------------------------------------------------------
(* Types, and where a process may be.                                      *)

Points == {"start", "open", "read", "replace", "moved", "cleanup", "use", "rmtree", "unzip",
           "extract", "pip", "mark", "write", "export", "processor", "load"}

Download == {"open", "read", "replace", "moved", "cleanup"}

Names == Inodes \cup {None}

FolderOK ==
    /\ part \in [Files -> Names] /\ dest \in [Files -> Names]
    /\ contents \in [Inodes -> SUBSET Nat]
    /\ program \subseteq Entries
    /\ libs \in [PipKinds -> {"none", "some", "all"}]
    /\ marker \in Kinds \cup {"none", "torn"}
    /\ ir \subseteq {"model", "processor"}

ProcsOK ==
    /\ job \in [Procs -> Jobs]
    /\ at \in [Procs -> Points]
    /\ fd \in [Procs -> Names]
    /\ done \in [Procs -> Nat]

(* Where a process may be, by what it was started for.                     *)
Placed(p) ==
    /\ job[p] = "idle" <=> at[p] = "start"
    /\ job[p] = "model" => at[p] \in Download \cup {"use"}
    /\ job[p] = "vulkan" => at[p] \in Download \cup {"rmtree", "unzip", "extract", "pip",
                                                    "mark", "write"}
    /\ job[p] \in PipKinds => at[p] \in {"pip", "mark", "write"}
    /\ job[p] = "convert" => at[p] \in {"export", "processor", "load"}
    /\ job[p] = "idle" => fd[p] = None
    /\ at[p] = "read" => fd[p] # None
    /\ at[p] \in {"start", "open", "rmtree", "unzip"} => done[p] = 0

Base == FolderOK /\ ProcsOK /\ \A p \in Procs : Placed(p)


(* The other processes stay where they are.                                *)
Kept(p) ==
    \A q \in Procs \ {p} : /\ job'[q] = job[q] /\ at'[q] = at[q]
                           /\ fd'[q] = fd[q] /\ done'[q] = done[q]

LEMMA PointsAre ==
  /\ Jobs = {"idle", "model", "convert", "cpu", "openvino", "vulkan"}
  /\ Kinds = {"cpu", "openvino", "vulkan"}
  /\ Work("idle") = "idle" /\ Work("model") = "model" /\ Work("convert") = "convert"
  /\ \A k \in Kinds : Work(k) = "install"
BY DEF Jobs, Kinds, PipKinds, Work

LEMMA GoMoves ==
  ASSUME Base, NEW p \in Procs, NEW point \in Points, Go(p, point)
  PROVE  /\ ProcsOK' /\ Kept(p)
         /\ at'[p] = point /\ job'[p] = job[p] /\ fd'[p] = fd[p] /\ done'[p] = done[p]
         /\ crowded' = crowded /\ damaged' = damaged
BY DEF Go, Base, ProcsOK, Kept

LEMMA OverMoves ==
  ASSUME Base, NEW p \in Procs, Over(p)
  PROVE  /\ ProcsOK' /\ Kept(p) /\ Placed(p)'
         /\ at'[p] = "start" /\ job'[p] = "idle" /\ fd'[p] = None /\ done'[p] = 0
         /\ crowded' = crowded
<1>1. ProcsOK' /\ Kept(p) /\ at'[p] = "start" /\ job'[p] = "idle" /\ fd'[p] = None /\ done'[p] = 0
  BY DEF Over, Base, ProcsOK, Kept, Points, Jobs, Names
<1>2. QED
  BY <1>1 DEF Over, Placed, PipKinds

LEMMA OthersPlaced ==
  ASSUME Base, NEW p \in Procs, Kept(p), Placed(p)'
  PROVE  \A q \in Procs : Placed(q)'
BY DEF Base, Kept, Placed

LEMMA InitBase == Init => Base
<1> SUFFICES ASSUME Init PROVE Base
  OBVIOUS
<1>1. FolderOK
  BY DEF Init, FolderOK, Names
<1>2. ProcsOK
  BY DEF Init, ProcsOK, Jobs, Points, Names
<1>3. \A p \in Procs : Placed(p)
  BY DEF Init, Placed, PipKinds
<1>4. QED
  BY <1>1, <1>2, <1>3 DEF Base

Ordinary(p) == FolderOK' /\ ProcsOK' /\ Kept(p) /\ Placed(p)' /\ crowded' = crowded
            /\ job'[p] \in {job[p], "idle"}

(* What every step of a process has in common.                             *)
LEMMA StepKeeps ==
  ASSUME Base, NEW p \in Procs, Step(p) \/ Stop(p)
  PROVE  Ordinary(p)
<1> USE PointsAre DEF Ordinary
<1> DEFINE f == FileOf(p)
<1>0. f \in Files /\ Placed(p) /\ FolderOK /\ ProcsOK
  BY DEF FileOf, Files, Base
<1>1. CASE Open(p)
  <2>1. PICK i \in Inodes : /\ part' = [part EXCEPT ![f] = i]
                            /\ contents' = [contents EXCEPT ![i] = {}]
                            /\ fd' = [fd EXCEPT ![p] = i]
    BY <1>1 DEF Open
  <2>2. FolderOK'
    BY <1>0, <1>1, <2>1 DEF Open, FolderOK, Names
  <2>3. ProcsOK'
    BY <1>0, <1>1, <2>1 DEF Open, ProcsOK, Names, Points
  <2>4. at'[p] = "read" /\ job' = job /\ fd'[p] = i /\ at[p] = "open"
    BY <1>0, <1>1, <2>1 DEF Open, ProcsOK
  <2>5. Placed(p)'
    BY <1>0, <2>4, NoneAssumption DEF Placed, Download, PipKinds
  <2>6. Kept(p)
    BY <1>0, <1>1, <2>1 DEF Open, ProcsOK, Kept
  <2>7. QED
    BY <1>1, <2>2, <2>3, <2>5, <2>6 DEF Open
<1>2. CASE Read(p)
  <2>1. done[p] + 1 \in Nat /\ fd[p] \in Inodes
    BY <1>0, <1>2 DEF Read, Placed, ProcsOK, Names
  <2>2. FolderOK'
    BY <1>0, <1>2, <2>1 DEF Read, FolderOK
  <2>3. ProcsOK' /\ Kept(p)
    BY <1>0, <1>2, <2>1 DEF Read, ProcsOK, Kept
  <2>4. Placed(p)'
    BY <1>0, <1>2 DEF Read, Placed
  <2>5. QED
    BY <1>2, <2>2, <2>3, <2>4 DEF Read
<1>3. ASSUME NEW point \in {"cleanup", "replace", "moved"}, Go(p, point), at[p] \in Download
      PROVE  ProcsOK' /\ Kept(p) /\ Placed(p)' /\ crowded' = crowded /\ job'[p] \in {job[p], "idle"}
  BY <1>0, <1>3, GoMoves DEF Points, Placed, Download, PipKinds
<1>4. CASE Broken(p)
  BY <1>0, <1>3, <1>4 DEF Broken, Download, FolderOK, diskVars
<1>5. CASE Verify(p)
  <2>1. Go(p, "cleanup") \/ Go(p, "replace")
    BY <1>5 DEF Verify
  <2>2. QED
    BY <1>0, <1>3, <1>5, <2>1 DEF Verify, Download, FolderOK, diskVars
<1>6. CASE Replace(p)
  <2>1. Go(p, "cleanup") \/ Go(p, "moved")
    BY <1>6 DEF Replace
  <2>2. FolderOK'
    BY <1>0, <1>6 DEF Replace, FolderOK, Names, diskVars
  <2>3. QED
    BY <1>3, <1>6, <2>1, <2>2 DEF Replace, Download
<1>7. CASE Cleanup(p)
  <2>1. FolderOK'
    BY <1>0, <1>7 DEF Cleanup, FolderOK, Names
  <2>2. CASE at[p] = "cleanup"
    BY <1>7, <2>1, <2>2, OverMoves DEF Cleanup
  <2>3. CASE at[p] = "moved"
    <3>1. /\ at' = [at EXCEPT ![p] = IF job[p] = "model" THEN "use" ELSE "rmtree"]
          /\ fd' = [fd EXCEPT ![p] = None]
          /\ done' = [done EXCEPT ![p] = 0]
          /\ UNCHANGED <<job, starts, crowded>>
      BY <1>7, <2>3 DEF Cleanup
    <3>2. ProcsOK' /\ Kept(p)
      BY <1>0, <3>1 DEF ProcsOK, Kept, Points, Names
    <3>3. Placed(p)'
      BY <1>0, <2>3, <3>1 DEF Placed, ProcsOK, Download, PipKinds
    <3>4. QED
      BY <2>1, <3>1, <3>2, <3>3
  <2>4. QED
    BY <1>7, <2>2, <2>3 DEF Cleanup
<1>8. CASE Use(p)
  BY <1>0, <1>8, OverMoves DEF Use, FolderOK, diskVars
<1>9. CASE Rmtree(p)
  <2>1. FolderOK'
    BY <1>0, <1>9 DEF Rmtree, FolderOK
  <2>2. at'[p] = "unzip" /\ job'[p] = job[p] /\ fd'[p] = fd[p] /\ done'[p] = done[p] /\ ProcsOK' /\ Kept(p)
        /\ crowded' = crowded
    BY <1>9, GoMoves DEF Rmtree, Points
  <2>3. Placed(p)'
    BY <1>0, <1>9, <2>2 DEF Rmtree, Placed, Download, PipKinds
  <2>4. QED
    BY <2>1, <2>2, <2>3
<1>10. CASE OpenZip(p)
  <2>1. ProcsOK' /\ Kept(p)
    BY <1>0, <1>10 DEF OpenZip, ProcsOK, Kept, Points, FolderOK, Files
  <2>2. Placed(p)'
    BY <1>0, <1>10 DEF OpenZip, Placed, ProcsOK, Download, PipKinds
  <2>3. QED
    BY <1>0, <1>10, <2>1, <2>2 DEF OpenZip, FolderOK, diskVars
<1>11. ASSUME NEW e \in Entries, Extract(p, e) PROVE Ordinary(p)
  <2>1. FolderOK'
    BY <1>0, <1>11 DEF Extract, FolderOK
  <2>2. ProcsOK' /\ Kept(p)
    BY <1>0, <1>11 DEF Extract, ProcsOK, Kept
  <2>3. Placed(p)'
    BY <1>0, <1>11 DEF Extract, Placed
  <2>4. QED
    BY <1>11, <2>1, <2>2, <2>3 DEF Extract
<1>12. CASE ExtractFails(p)
  <2>1. FolderOK'
    BY <1>0, <1>12 DEF ExtractFails, FolderOK, Names, Files
  <2>2. QED
    BY <1>12, <2>1, OverMoves DEF ExtractFails, CutShort
<1>13. ASSUME NEW diarize \in BOOLEAN, Extracted(p, diarize) PROVE Ordinary(p)
  <2>1. FolderOK'
    BY <1>0, <1>13 DEF Extracted, FolderOK, Names, Files
  <2>2. CASE FindBinary
    <3>1. /\ at' = [at EXCEPT ![p] = IF diarize THEN "pip" ELSE "mark"]
          /\ fd' = [fd EXCEPT ![p] = None]
          /\ done' = [done EXCEPT ![p] = 0]
          /\ UNCHANGED <<job, starts, crowded, damaged>> /\ at[p] = "extract"
      BY <1>13, <2>2 DEF Extracted
    <3>2. ProcsOK' /\ Kept(p)
      BY <1>0, <3>1 DEF ProcsOK, Kept, Points, Names
    <3>3. Placed(p)'
      BY <1>0, <3>1 DEF Placed, ProcsOK, Download, PipKinds
    <3>4. QED
      BY <2>1, <3>1, <3>2, <3>3
  <2>3. CASE ~FindBinary
    BY <1>13, <2>1, <2>3, OverMoves DEF Extracted, CutShort
  <2>4. QED
    BY <2>2, <2>3
<1>14. ASSUME NEW point \in {"pip", "mark", "write"}, Go(p, point), at[p] \in {"pip", "mark", "write"}
       PROVE  ProcsOK' /\ Kept(p) /\ Placed(p)' /\ crowded' = crowded /\ job'[p] \in {job[p], "idle"}
  BY <1>0, <1>14, GoMoves DEF Points, Placed, Download, PipKinds
<1>15. CASE Pip(p)
  <2>1. Go(p, "pip") \/ Go(p, "mark")
    BY <1>15 DEF Pip
  <2>2. libs' \in [PipKinds -> {"none", "some", "all"}]
    BY <1>0, <1>15 DEF Pip, FolderOK
  <2>3. FolderOK'
    BY <1>0, <1>15, <2>2 DEF Pip, FolderOK
  <2>4. QED
    BY <1>14, <1>15, <2>1, <2>3 DEF Pip
<1>16. CASE PipFails(p)
  BY <1>0, <1>16, OverMoves DEF PipFails, CutShort, FolderOK, diskVars
<1>17. CASE Mark(p)
  <2>1. FolderOK'
    BY <1>0, <1>17 DEF Mark, FolderOK
  <2>2. QED
    BY <1>14, <1>17, <2>1 DEF Mark
<1>18. CASE Written(p)
  <2>1. job[p] \in Kinds
    BY <1>0, <1>18 DEF Written, Placed, Download, ProcsOK, PipKinds
  <2>2. FolderOK'
    BY <1>0, <1>18, <2>1 DEF Written, FolderOK
  <2>3. QED
    BY <1>18, <2>2, OverMoves DEF Written
<1>19. ASSUME NEW point \in {"processor", "load"}, Go(p, point), at[p] \in {"export", "processor"}
       PROVE  ProcsOK' /\ Kept(p) /\ Placed(p)' /\ crowded' = crowded /\ job'[p] \in {job[p], "idle"}
  BY <1>0, <1>19, GoMoves DEF Points, Placed, Download, PipKinds
<1>20. CASE Export(p)
  <2>1. FolderOK'
    BY <1>0, <1>20 DEF Export, FolderOK
  <2>2. QED
    BY <1>19, <1>20, <2>1 DEF Export
<1>21. CASE SaveProcessor(p)
  <2>1. FolderOK'
    BY <1>0, <1>21 DEF SaveProcessor, FolderOK
  <2>2. QED
    BY <1>19, <1>21, <2>1 DEF SaveProcessor
<1>22. CASE ConvertFails(p) \/ Load(p) \/ Stop(p)
  BY <1>0, <1>22, OverMoves DEF ConvertFails, Load, Stop, CutShort, FolderOK, diskVars
<1>23. QED
  BY <1>1, <1>2, <1>4, <1>5, <1>6, <1>7, <1>8, <1>9, <1>10, <1>11, <1>12, <1>13, <1>15, <1>16,
     <1>17, <1>18, <1>20, <1>21, <1>22 DEF Step

(* A command is started: the folder is as it was, and company is noted.    *)
LEMMA StartKeeps ==
  ASSUME Base, NEW p \in Procs, NEW j \in Jobs \ {"idle"}, Start(p, j)
  PROVE  /\ Base' /\ Kept(p) /\ UNCHANGED <<diskVars, fd, done, damaged>>
         /\ job[p] = "idle" /\ fd[p] = None /\ job'[p] = j
         /\ at'[p] \in {"use", "open", "load", "export", "pip"}
         /\ at'[p] = "load" => (j = "convert" /\ "model" \in ir)
         /\ j = "vulkan" => at'[p] = "open"
         /\ crowded \subseteq crowded'
         /\ \A q \in Procs \ {p} : Work(job[q]) = Work(j) => Work(j) \in crowded'
<1> USE PointsAre
<1>0. ProcsOK /\ FolderOK /\ Placed(p)
  BY DEF Base
<1>1. UNCHANGED <<diskVars, fd, done, damaged>> /\ job[p] = "idle" /\ fd[p] = None
  BY <1>0 DEF Start, Placed
<1>2. crowded' = crowded \cup {Work(j) : q \in {r \in Procs \ {p} : Work(job[r]) = Work(j)}}
  BY DEF Start
<1>3. \A q \in Procs \ {p} : Work(job[q]) = Work(j) => Work(j) \in crowded'
  BY <1>2
<1> DEFINE a == CASE j = "model" -> IF ModelExists THEN "use" ELSE "open"
                  [] j = "vulkan" -> "open"
                  [] j = "convert" -> IF "model" \in ir THEN "load" ELSE "export"
                  [] j \in PipKinds -> "pip"
<1>4. at' = [at EXCEPT ![p] = a] /\ job' = [job EXCEPT ![p] = j]
  BY DEF Start
<1>5. \/ j = "model" /\ a \in {"use", "open"}
      \/ j = "vulkan" /\ a = "open"
      \/ j = "convert" /\ a = "load" /\ "model" \in ir
      \/ j = "convert" /\ a = "export"
      \/ j \in PipKinds /\ a = "pip"
  BY DEF PipKinds
<1> HIDE DEF a
<1>6. ProcsOK' /\ Kept(p) /\ at'[p] = a /\ job'[p] = j
  BY <1>0, <1>1, <1>4, <1>5 DEF ProcsOK, Kept, Points
<1>7. Placed(p)'
  BY <1>0, <1>1, <1>5, <1>6 DEF Placed, Download, PipKinds
<1>8. Base'
  <2>1. \A q \in Procs : Placed(q)'
    BY <1>6, <1>7, OthersPlaced
  <2>2. FolderOK'
    BY <1>0, <1>1 DEF FolderOK, diskVars
  <2>3. QED
    BY <1>6, <2>1, <2>2 DEF Base
<1>9. crowded \subseteq crowded'
  BY <1>2
<1>10. at'[p] \in {"use", "open", "load", "export", "pip"}
  BY <1>5, <1>6
<1>11. at'[p] = "load" => (j = "convert" /\ "model" \in ir)
  BY <1>5, <1>6
<1>12. j = "vulkan" => at'[p] = "open"
  BY <1>5, <1>6 DEF PipKinds
<1>13. QED
  BY <1>1, <1>3, <1>6, <1>8, <1>9, <1>10, <1>11, <1>12

LEMMA NextBase == Base /\ [Next]_vars => Base'
<1> SUFFICES ASSUME Base, [Next]_vars PROVE Base'
  OBVIOUS
<1>1. ASSUME NEW p \in Procs, Step(p) \/ Stop(p) PROVE Base'
  BY <1>1, StepKeeps, OthersPlaced DEF Ordinary, Base
<1>2. ASSUME NEW p \in Procs, NEW j \in Jobs \ {"idle"}, Start(p, j) PROVE Base'
  BY <1>2, StartKeeps
<1>3. CASE UNCHANGED vars
  BY <1>3 DEF vars, diskVars, procVars, Base, FolderOK, ProcsOK, Placed
<1>4. QED
  BY <1>1, <1>2, <1>3 DEF Next

-----------------------------------------------------------------------------
(* Company.                                                                *)

(* Two processes that do the same work are noted.                          *)
Noted ==
    \A p, q \in Procs :
        p # q /\ job[p] # "idle" /\ Work(job[p]) = Work(job[q]) => Work(job[p]) \in crowded

LEMMA NextNoted == Base /\ Noted /\ [Next]_vars => Noted'
<1> SUFFICES ASSUME Base, Noted, [Next]_vars, NEW q \in Procs, NEW r \in Procs, q # r,
                    job'[q] # "idle", Work(job'[q]) = Work(job'[r])
             PROVE  Work(job'[q]) \in crowded'
  BY DEF Noted
<1>0. \A j \in Jobs : Work(j) = "idle" <=> j = "idle"
  BY PointsAre
<1>1. ASSUME NEW p \in Procs, Step(p) \/ Stop(p) PROVE Work(job'[q]) \in crowded'
  <2>1. \A s \in Procs : job'[s] \in {job[s], "idle"} /\ job[s] \in Jobs
    BY <1>1, StepKeeps DEF Ordinary, Kept, Base, ProcsOK
  <2>2. job'[r] # "idle"
    <3>1. job'[q] \in Jobs
      BY <2>1
    <3>2. Work(job'[q]) # "idle" /\ Work("idle") = "idle"
      BY <1>0, <3>1, PointsAre
    <3>3. QED
      BY <3>2
  <2>3. job'[q] = job[q] /\ job'[r] = job[r] /\ crowded' = crowded
    BY <1>1, <2>1, <2>2, StepKeeps DEF Ordinary
  <2>4. QED
    BY <2>3 DEF Noted
<1>2. ASSUME NEW p \in Procs, NEW j \in Jobs \ {"idle"}, Start(p, j)
      PROVE  Work(job'[q]) \in crowded'
  <2>1. /\ job'[p] = j /\ crowded \subseteq crowded' /\ \A s \in Procs \ {p} : job'[s] = job[s]
        /\ \A s \in Procs \ {p} : Work(job[s]) = Work(j) => Work(j) \in crowded'
    BY <1>2, StartKeeps DEF Kept
  <2>2. CASE q # p /\ r # p
    BY <2>1, <2>2 DEF Noted
  <2>3. CASE q = p \/ r = p
    BY <2>1, <2>3
  <2>4. QED
    BY <2>2, <2>3
<1>3. CASE UNCHANGED vars
  BY <1>3 DEF vars, procVars, Noted
<1>4. QED
  BY <1>1, <1>2, <1>3 DEF Next

(* Work that was never crowded is done by one process at most.             *)
LEMMA Alone ==
  ASSUME Base, Noted, NEW p \in Procs, NEW q \in Procs, job[p] # "idle",
         Work(job[p]) = Work(job[q]), Work(job[p]) \notin crowded
  PROVE  p = q
BY DEF Noted

LEMMA InitNoted == Init => Noted
BY DEF Init, Noted

-----------------------------------------------------------------------------
(* The download of a model.                                                *)

OfModel(i) == \/ i = part["model"] \/ i = dest["model"]
              \/ \E p \in Procs : job[p] = "model" /\ fd[p] = i
OfZip(i) == \/ i = part["zip"] \/ i = dest["zip"]
            \/ \E p \in Procs : job[p] # "model" /\ fd[p] = i

(* No contents are shared between the model and the archive, nor between   *)
(* the model and what is being downloaded.                                 *)
Apart ==
    /\ \A i \in Inodes : ~(OfModel(i) /\ OfZip(i))
    /\ part["model"] # None => part["model"] # dest["model"]

LEMMA InitApart == Init => Apart
BY NoneAssumption DEF Init, Apart, OfModel, OfZip, Files

LEMMA FilesAre == Files = {"model", "zip"} /\ \A p \in Procs : FileOf(p) \in Files
BY DEF Files, FileOf

(* A process that lets go of something shares nothing new.                 *)
LEMMA ApartShrinks ==
  ASSUME Base, Apart, NEW p \in Procs, Kept(p), ProcsOK',
         job'[p] = job[p] \/ (fd'[p] = None),
         fd'[p] \in {fd[p], None},
         part' = part \/ (\E f \in Files : part' = [part EXCEPT ![f] = None]),
         dest' = dest \/ (\E f \in Files : dest' = [dest EXCEPT ![f] = None])
  PROVE  Apart'
<1>1. \A f \in Files : part'[f] \in {part[f], None} /\ dest'[f] \in {dest[f], None}
  BY DEF Base, FolderOK
<1>2. \A i \in Inodes : OfModel(i)' => OfModel(i)
  BY <1>1, FilesAre, NoneAssumption DEF OfModel, Kept
<1>3. \A i \in Inodes : OfZip(i)' => OfZip(i)
  BY <1>1, FilesAre, NoneAssumption DEF OfZip, Kept
<1>4. QED
  BY <1>1, <1>2, <1>3, FilesAre DEF Apart

LEMMA NextApart == Base /\ Apart /\ [Next]_vars => Apart'
<1> SUFFICES ASSUME Base, Apart, [Next]_vars PROVE Apart'
  OBVIOUS
<1>0. ProcsOK /\ FolderOK
  BY DEF Base
<1>1. ASSUME NEW p \in Procs, Step(p) \/ Stop(p) PROVE Apart'
  <2>0. Ordinary(p) /\ Placed(p)
    BY <1>1, StepKeeps DEF Base
  <2>1. CASE Open(p)
    <3> DEFINE f == FileOf(p)
    <3>1. PICK i \in Inodes : /\ IF part[f] # None THEN i = part[f] ELSE i \notin InUse
                              /\ part' = [part EXCEPT ![f] = i]
                              /\ fd' = [fd EXCEPT ![p] = i]
      BY <2>1 DEF Open
    <3>2. dest' = dest /\ job' = job /\ f \in Files /\ (f = "model" <=> job[p] = "model")
      BY <2>1 DEF Open, FileOf, Files
    <3> HIDE DEF f
    <3>3. \A e \in Files : part'[e] = IF e = f THEN i ELSE part[e]
      BY <1>0, <3>1 DEF FolderOK
    <3>4. \A q \in Procs : fd'[q] = IF q = p THEN i ELSE fd[q]
      BY <1>0, <3>1 DEF ProcsOK
    <3>5. \A e \in Inodes : OfModel(e)' => (OfModel(e) \/ (e = i /\ f = "model"))
      BY <3>2, <3>3, <3>4, FilesAre DEF OfModel
    <3>6. \A e \in Inodes : OfZip(e)' => (OfZip(e) \/ (e = i /\ f = "zip"))
      BY <3>2, <3>3, <3>4, FilesAre DEF OfZip
    <3>7. CASE part[f] # None
      <4>1. i = part[f]
        BY <3>1, <3>7
      <4>2. (f = "model" => OfModel(i)) /\ (f = "zip" => OfZip(i))
        BY <4>1 DEF OfModel, OfZip
      <4>3. part'["model"] = part["model"]
        BY <3>3, <4>1, FilesAre
      <4>4. QED
        BY <3>2, <3>5, <3>6, <4>2, <4>3 DEF Apart
    <3>8. CASE part[f] = None
      <4>1. i \notin InUse
        BY <3>1, <3>8
      <4>2. ~OfModel(i) /\ ~OfZip(i)
        BY <4>1, FilesAre DEF InUse, OfModel, OfZip
      <4>3. f = "model" => i # dest["model"]
        BY <4>1, FilesAre DEF InUse
      <4>4. QED
        BY <3>2, <3>3, <3>5, <3>6, <4>2, <4>3, FilesAre DEF Apart
    <3>9. QED
      BY <3>7, <3>8
  <2>2. CASE Replace(p)
    <3> DEFINE f == FileOf(p)
    <3>1. f \in Files /\ fd' = fd /\ job' = job
      BY <2>2, FilesAre DEF Replace, Go
    <3> HIDE DEF f
    <3>2. CASE part[f] = None
      BY <2>0, <2>2, <3>1, <3>2, ApartShrinks DEF Replace, f, diskVars, Ordinary
    <3>3. CASE part[f] # None
      <4>1. dest' = [dest EXCEPT ![f] = part[f]] /\ part' = [part EXCEPT ![f] = None]
        BY <2>2, <3>3 DEF Replace, f
      <4>2. /\ \A e \in Files : dest'[e] = IF e = f THEN part[e] ELSE dest[e]
            /\ \A e \in Files : part'[e] = IF e = f THEN None ELSE part[e]
        BY <1>0, <4>1 DEF FolderOK
      <4>3. \A i \in Inodes : OfModel(i)' => OfModel(i)
        BY <3>1, <4>2, FilesAre, NoneAssumption DEF OfModel
      <4>4. \A i \in Inodes : OfZip(i)' => OfZip(i)
        BY <3>1, <4>2, FilesAre, NoneAssumption DEF OfZip
      <4>5. QED
        BY <4>2, <4>3, <4>4, FilesAre DEF Apart
    <3>4. QED
      BY <3>2, <3>3
  <2>3. CASE OpenZip(p)
    <3>1. fd' = [fd EXCEPT ![p] = dest["zip"]] /\ UNCHANGED <<part, dest, job>> /\ job[p] = "vulkan"
      BY <1>0, <2>0, <2>3, PointsAre DEF OpenZip, diskVars, Placed, ProcsOK, Download, PipKinds
    <3>2. \A i \in Inodes : (OfModel(i)' => OfModel(i)) /\ (OfZip(i)' => OfZip(i))
      BY <1>0, <3>1 DEF OfModel, OfZip, ProcsOK
    <3>3. QED
      BY <3>1, <3>2 DEF Apart
  <2>4. ASSUME UNCHANGED <<part, dest, fd, job>> PROVE Apart'
    BY <2>4 DEF Apart, OfModel, OfZip
  <2>5. CASE Read(p) \/ Broken(p) \/ Verify(p) \/ Rmtree(p) \/ \E e \in Entries : Extract(p, e)
    BY <2>4, <2>5 DEF Read, Broken, Verify, Rmtree, Extract, Go, diskVars
  <2>6. CASE Pip(p) \/ Mark(p) \/ Export(p) \/ SaveProcessor(p)
    BY <2>4, <2>6 DEF Pip, Mark, Export, SaveProcessor, Go
  <2>7. ASSUME part' = part \/ (\E f \in Files : part' = [part EXCEPT ![f] = None]),
               dest' = dest \/ (\E f \in Files : dest' = [dest EXCEPT ![f] = None]),
               Over(p)
        PROVE  Apart'
    BY <2>0, <2>7, OverMoves, ApartShrinks DEF Ordinary
  <2>8. CASE Use(p) \/ PipFails(p) \/ Written(p) \/ ConvertFails(p) \/ Load(p) \/ Stop(p)
    BY <2>7, <2>8 DEF Use, PipFails, Written, ConvertFails, Load, Stop, CutShort, diskVars
  <2>9. CASE Cleanup(p)
    <3>1. part' = [part EXCEPT ![FileOf(p)] = None] /\ dest' = dest
      BY <2>9 DEF Cleanup
    <3>2. CASE at[p] = "cleanup"
      BY <2>7, <2>9, <3>1, <3>2, FilesAre DEF Cleanup
    <3>3. CASE at[p] # "cleanup"
      <4>1. job'[p] = job[p] /\ fd'[p] = None
        BY <1>0, <2>9, <3>3 DEF Cleanup, ProcsOK
      <4>2. QED
        BY <2>0, <3>1, <4>1, FilesAre, ApartShrinks DEF Ordinary
    <3>4. QED
      BY <3>2, <3>3
  <2>10. CASE ExtractFails(p)
    BY <2>7, <2>10, FilesAre DEF ExtractFails, CutShort
  <2>11. ASSUME NEW diarize \in BOOLEAN, Extracted(p, diarize) PROVE Apart'
    <3>1. dest' = [dest EXCEPT !["zip"] = None] /\ part' = part
      BY <2>11 DEF Extracted
    <3>2. CASE FindBinary
      <4>1. job'[p] = job[p] /\ fd'[p] = None
        BY <1>0, <2>11, <3>2 DEF Extracted, ProcsOK
      <4>2. QED
        BY <2>0, <3>1, <4>1, FilesAre, ApartShrinks DEF Ordinary
    <3>3. CASE ~FindBinary
      BY <2>7, <2>11, <3>1, <3>3, FilesAre DEF Extracted, CutShort
    <3>4. QED
      BY <3>2, <3>3
  <2>12. QED
    BY <1>1, <2>1, <2>2, <2>3, <2>5, <2>6, <2>8, <2>9, <2>10, <2>11 DEF Step
<1>2. ASSUME NEW p \in Procs, NEW j \in Jobs \ {"idle"}, Start(p, j) PROVE Apart'
  <2>1. UNCHANGED <<part, dest, fd>> /\ fd[p] = None /\ \A q \in Procs \ {p} : job'[q] = job[q]
    BY <1>2, StartKeeps DEF diskVars, Kept
  <2>2. \A i \in Inodes : (OfModel(i)' => OfModel(i)) /\ (OfZip(i)' => OfZip(i))
    BY <2>1, NoneAssumption DEF OfModel, OfZip
  <2>3. QED
    BY <2>1, <2>2 DEF Apart
<1>3. CASE UNCHANGED vars
  BY <1>3 DEF vars, diskVars, procVars, Apart, OfModel, OfZip
<1>4. QED
  BY <1>1, <1>2, <1>3 DEF Next

(* One process at a time: the .part file is what it has received.          *)
OneDownload(p) ==
    job[p] = "model" =>
        /\ at[p] = "read" => fd[p] = part["model"] /\ contents[fd[p]] = 1..done[p]
        /\ at[p] = "replace" => part["model"] # None /\ contents[part["model"]] = Whole

Downloaded ==
    "model" \notin crowded =>
        /\ dest["model"] # None => contents[dest["model"]] = Whole
        /\ \A p \in Procs : OneDownload(p)

LEMMA InitDownloaded == Init => Downloaded
BY FilesAre DEF Init, Downloaded, OneDownload

(* Who does not download a model touches neither its name nor its contents. *)
LEMMA OtherSide ==
  ASSUME Base, Apart, NEW p \in Procs, Step(p) \/ Stop(p), job[p] # "model"
  PROVE  /\ part'["model"] = part["model"] /\ dest'["model"] = dest["model"]
         /\ \A i \in Inodes : i \in {part["model"], dest["model"]} => contents'[i] = contents[i]
<1>0. ProcsOK /\ FolderOK /\ Placed(p) /\ FileOf(p) = "zip"
  BY DEF Base, FileOf
<1>1. CASE Open(p)
  <2>1. PICK i \in Inodes : /\ IF part["zip"] # None THEN i = part["zip"] ELSE i \notin InUse
                            /\ part' = [part EXCEPT !["zip"] = i]
                            /\ contents' = [contents EXCEPT ![i] = {}]
    BY <1>0, <1>1 DEF Open
  <2>2. dest' = dest
    BY <1>1 DEF Open
  <2>3. i \notin {part["model"], dest["model"]}
    BY <2>1, FilesAre DEF Apart, OfModel, OfZip, InUse
  <2>4. QED
    BY <1>0, <2>1, <2>2, <2>3, FilesAre DEF FolderOK
<1>2. CASE Read(p)
  <2>1. fd[p] \in Inodes /\ OfZip(fd[p])
    BY <1>0, <1>2 DEF Read, Placed, ProcsOK, Names, OfZip
  <2>2. fd[p] \notin {part["model"], dest["model"]}
    BY <2>1 DEF Apart, OfModel
  <2>3. QED
    BY <1>0, <1>2, <2>1, <2>2 DEF Read, FolderOK
<1>3. CASE Replace(p)
  BY <1>0, <1>3, FilesAre DEF Replace, FolderOK, diskVars
<1>4. CASE Cleanup(p) \/ ExtractFails(p) \/ \E diarize \in BOOLEAN : Extracted(p, diarize)
  BY <1>0, <1>4, FilesAre DEF Cleanup, ExtractFails, Extracted, FolderOK
<1>5. CASE \/ Broken(p) \/ Verify(p) \/ Use(p) \/ Rmtree(p) \/ OpenZip(p)
           \/ \E e \in Entries : Extract(p, e)
  BY <1>5 DEF Broken, Verify, Use, Rmtree, OpenZip, Extract, diskVars
<1>6. CASE Pip(p) \/ PipFails(p) \/ Mark(p) \/ Written(p) \/ Export(p) \/ SaveProcessor(p)
  BY <1>6 DEF Pip, PipFails, Mark, Written, Export, SaveProcessor, diskVars
<1>7. CASE ConvertFails(p) \/ Load(p) \/ Stop(p)
  BY <1>7 DEF ConvertFails, Load, Stop, diskVars
<1>8. QED
  BY <1>1, <1>2, <1>3, <1>4, <1>5, <1>6, <1>7 DEF Step

(* The one process that downloads a model.                                 *)
LEMMA OwnSide ==
  ASSUME Base, Apart, NEW p \in Procs, Step(p) \/ Stop(p), job[p] = "model", OneDownload(p),
         dest["model"] # None => contents[dest["model"]] = Whole
  PROVE  /\ OneDownload(p)'
         /\ (dest["model"] # None => contents[dest["model"]] = Whole)'
<1> DEFINE Goal == /\ OneDownload(p)'
                   /\ (dest["model"] # None => contents[dest["model"]] = Whole)'
<1> SUFFICES Goal
  OBVIOUS
<1>0. ProcsOK /\ FolderOK /\ Placed(p) /\ FileOf(p) = "model"
  BY DEF Base, FileOf
<1>1. CASE Open(p)
  <2>1. PICK i \in Inodes : /\ IF part["model"] # None THEN i = part["model"] ELSE i \notin InUse
                            /\ part' = [part EXCEPT !["model"] = i]
                            /\ contents' = [contents EXCEPT ![i] = {}]
                            /\ fd' = [fd EXCEPT ![p] = i]
    BY <1>0, <1>1 DEF Open
  <2>2. dest' = dest /\ at'[p] = "read" /\ done'[p] = 0
    BY <1>0, <1>1 DEF Open, ProcsOK, Placed
  <2>3. i # dest["model"]
    BY <2>1, FilesAre DEF Apart, InUse
  <2>4. part'["model"] = i /\ fd'[p] = i /\ contents'[i] = {}
    BY <1>0, <2>1, FilesAre DEF FolderOK, ProcsOK
  <2>5. dest["model"] # None => contents'[dest["model"]] = contents[dest["model"]]
    BY <1>0, <2>1, <2>3, FilesAre DEF FolderOK, Names
  <2>6. 1..0 = {}
    OBVIOUS
  <2>7. QED
    BY <2>2, <2>4, <2>5, <2>6 DEF OneDownload
<1>2. CASE Read(p)
  <2>1. /\ contents' = [contents EXCEPT ![fd[p]] = @ \cup {done[p] + 1}]
        /\ done'[p] = done[p] + 1 /\ UNCHANGED <<part, dest, fd, at>> /\ at[p] = "read"
    BY <1>0, <1>2 DEF Read, ProcsOK
  <2>2. fd[p] = part["model"] /\ contents[fd[p]] = 1..done[p] /\ fd[p] \in Inodes
    BY <1>0, <2>1 DEF OneDownload, Placed, ProcsOK, Names
  <2>3. contents'[fd[p]] = 1..done'[p]
    <3>1. done[p] \in Nat
      BY <1>0 DEF ProcsOK
    <3>2. contents'[fd[p]] = (1..done[p]) \cup {done[p] + 1}
      BY <1>0, <2>1, <2>2 DEF FolderOK
    <3>3. (1..done[p]) \cup {done[p] + 1} = 1..(done[p] + 1)
      BY <3>1
    <3>4. QED
      BY <2>1, <3>2, <3>3
  <2>4. dest["model"] # None => contents'[dest["model"]] = contents[dest["model"]]
    BY <1>0, <2>1, <2>2, FilesAre, NoneAssumption DEF FolderOK, Names, Apart
  <2>5. QED
    BY <2>1, <2>2, <2>3, <2>4 DEF OneDownload
<1>3. ASSUME UNCHANGED diskVars, at'[p] \notin {"read", "replace"} PROVE Goal
  BY <1>3 DEF diskVars, OneDownload
<1>4. CASE Broken(p)
  BY <1>0, <1>3, <1>4, GoMoves DEF Broken, Points
<1>5. CASE Verify(p)
  <2>1. Go(p, "replace") /\ UNCHANGED diskVars /\ at[p] = "read" /\ done[p] = Blocks
    BY <1>0, <1>5 DEF Verify
  <2>2. at'[p] = "replace"
    BY <2>1, GoMoves DEF Points
  <2>3. part["model"] # None /\ contents[part["model"]] = Whole
    BY <1>0, <2>1 DEF OneDownload, Placed, Whole
  <2>4. QED
    BY <2>1, <2>2, <2>3 DEF OneDownload, diskVars
<1>6. CASE Replace(p)
  <2>1. part["model"] # None /\ contents[part["model"]] = Whole
    BY <1>6 DEF Replace, OneDownload
  <2>2. dest' = [dest EXCEPT !["model"] = part["model"]] /\ contents' = contents /\ Go(p, "moved")
    BY <1>0, <1>6, <2>1 DEF Replace
  <2>3. at'[p] = "moved"
    BY <2>2, GoMoves DEF Points
  <2>4. QED
    BY <1>0, <2>1, <2>2, <2>3, FilesAre DEF OneDownload, FolderOK
<1>7. CASE Cleanup(p)
  <2>1. dest' = dest /\ contents' = contents
    BY <1>7 DEF Cleanup
  <2>2. at'[p] \notin {"read", "replace"}
    BY <1>0, <1>7, OverMoves DEF Cleanup, ProcsOK
  <2>3. QED
    BY <2>1, <2>2 DEF OneDownload
<1>8. CASE Use(p) \/ Stop(p)
  BY <1>3, <1>8, OverMoves DEF Use, Stop, CutShort
<1>9. at[p] \in Download \cup {"use"}
  BY <1>0 DEF Placed
<1>10. ~Rmtree(p) /\ ~OpenZip(p) /\ ~ExtractFails(p) /\ ~(\E e \in Entries : Extract(p, e))
       /\ ~(\E diarize \in BOOLEAN : Extracted(p, diarize))
  BY <1>9 DEF Rmtree, OpenZip, ExtractFails, Extract, Extracted, Download
<1>11. ~Pip(p) /\ ~PipFails(p) /\ ~Mark(p) /\ ~Written(p) /\ ~Export(p) /\ ~SaveProcessor(p)
       /\ ~ConvertFails(p) /\ ~Load(p)
  BY <1>9 DEF Pip, PipFails, Mark, Written, Export, SaveProcessor, ConvertFails, Load, Download
<1> HIDE DEF Goal
<1>12. QED
  BY <1>1, <1>2, <1>4, <1>5, <1>6, <1>7, <1>8, <1>10, <1>11 DEF Step

LEMMA NextDownloaded == Base /\ Noted /\ Apart /\ Downloaded /\ [Next]_vars => Downloaded'
<1> SUFFICES ASSUME Base, Noted, Apart, Downloaded, [Next]_vars, "model" \notin crowded'
             PROVE  /\ (dest["model"] # None => contents[dest["model"]] = Whole)'
                    /\ \A q \in Procs : OneDownload(q)'
  BY DEF Downloaded
<1> DEFINE Goal == /\ (dest["model"] # None => contents[dest["model"]] = Whole)'
                   /\ \A q \in Procs : OneDownload(q)'
<1> SUFFICES Goal
  OBVIOUS
<1>1. ASSUME NEW p \in Procs, Step(p) \/ Stop(p) PROVE Goal
  <2>1. Ordinary(p)
    BY <1>1, StepKeeps
  <2>2. /\ dest["model"] # None => contents[dest["model"]] = Whole
        /\ \A q \in Procs : OneDownload(q)
    BY <2>1 DEF Ordinary, Downloaded
  <2>3. CASE job[p] = "model"
    <3>1. \A q \in Procs \ {p} : job'[q] # "model"
      BY <2>1, <2>3, Alone, PointsAre DEF Ordinary, Kept
    <3>2. QED
      BY <1>1, <2>2, <2>3, <3>1, OwnSide DEF OneDownload
  <2>4. CASE job[p] # "model"
    <3>1. /\ part'["model"] = part["model"] /\ dest'["model"] = dest["model"]
          /\ \A i \in Inodes : i \in {part["model"], dest["model"]} => contents'[i] = contents[i]
      BY <1>1, <2>4, OtherSide
    <3>2. part["model"] \in Names /\ dest["model"] \in Names
      BY FilesAre DEF Base, FolderOK
    <3>3. ASSUME NEW q \in Procs \ {p} PROVE OneDownload(q)'
      <4>1. job'[q] = job[q] /\ at'[q] = at[q] /\ fd'[q] = fd[q] /\ done'[q] = done[q]
        BY <2>1 DEF Ordinary, Kept
      <4>2. at[q] = "read" => fd[q] \in Inodes
        BY DEF Base, ProcsOK, Placed, Names
      <4>3. QED
        BY ZenonT(40), <2>2, <3>1, <3>2, <4>1, <4>2 DEF OneDownload, Names
    <3>4. OneDownload(p)'
      BY <2>1, <2>4 DEF Ordinary, OneDownload
    <3>5. QED
      BY <2>2, <3>1, <3>2, <3>3, <3>4 DEF Names
  <2>5. QED
    BY <2>3, <2>4
<1>2. ASSUME NEW p \in Procs, NEW j \in Jobs \ {"idle"}, Start(p, j) PROVE Goal
  <2>1. /\ UNCHANGED <<part, dest, contents, fd, done>> /\ Kept(p) /\ crowded \subseteq crowded'
        /\ at'[p] \notin {"read", "replace"}
    BY <1>2, StartKeeps DEF diskVars
  <2>2. QED
    BY <2>1 DEF Kept, Downloaded, OneDownload
<1>3. CASE UNCHANGED vars
  BY <1>3 DEF vars, diskVars, procVars, Downloaded, OneDownload
<1> HIDE DEF Goal
<1>4. QED
  BY <1>1, <1>2, <1>3 DEF Next

LEMMA TypesCompany == Spec => [](Base /\ Noted)
<1>1. Init => Base /\ Noted
  BY InitBase, InitNoted
<1>2. Base /\ Noted /\ [Next]_vars => (Base /\ Noted)'
  BY NextBase, NextNoted
<1>3. QED
  BY <1>1, <1>2, PTL DEF Spec

(* A model that is in place, under the name the transcriber looks for, has  *)
(* every block: however downloads end early, and whatever .part file a      *)
(* process that was stopped has left, as long as they never overlap.        *)
THEOREM ModelTheorem == Spec => []AcceptedModelIsWhole
<1>1. Init => Apart /\ Downloaded
  BY InitApart, InitDownloaded
<1>2. Base /\ Noted /\ Apart /\ Downloaded /\ [Next]_vars => (Apart /\ Downloaded)'
  BY NextApart, NextDownloaded
<1>3. Downloaded => AcceptedModelIsWhole
  BY DEF Downloaded, AcceptedModelIsWhole, ModelExists
<1>4. QED
  BY <1>1, <1>2, <1>3, TypesCompany, PTL DEF Spec

-----------------------------------------------------------------------------
(* What an install leaves.                                                 *)

(* The packages of a kind are all there or none, unless an install of the   *)
(* kind runs or was cut short; and all there when it comes to the marker.   *)
PackagesRest(k) ==
    k \notin damaged /\ (\A p \in Procs : job[p] # k) =>
        /\ libs[k] \in {"none", "all"}
        /\ marker = k => libs[k] = "all"

PackagesGrow(p) ==
    job[p] \in PipKinds /\ at[p] \in {"mark", "write"} => libs[job[p]] = "all"

Packages ==
    "install" \notin crowded =>
        /\ \A k \in PipKinds : PackagesRest(k)
        /\ \A p \in Procs : PackagesGrow(p)

(* So is the program, while no install has begun to replace it.             *)
Past == {"unzip", "extract", "pip", "mark", "write"}

ProgramRests ==
    "vulkan" \notin damaged /\ (\A p \in Procs : job[p] = "vulkan" => at[p] \notin Past) =>
        /\ program \in {{}, Entries}
        /\ marker = "vulkan" => program = Entries

ProgramGrows(p) ==
    job[p] = "vulkan" =>
        /\ at[p] = "unzip" => program = {}
        /\ at[p] = "extract" => program = IF done[p] = 0 THEN {}
                                          ELSE IF done[p] = 1 THEN {"exe"} ELSE Entries
        /\ at[p] \in {"pip", "mark", "write"} => program = Entries

Program == "install" \notin crowded => ProgramRests /\ \A p \in Procs : ProgramGrows(p)

LEMMA InitInstall == Init => Packages /\ Program
<1>1. Init => Packages
  BY DEF Init, Packages, PackagesRest, PackagesGrow, Kinds, PipKinds
<1>2. Init => Program
  BY DEF Init, Program, ProgramRests, ProgramGrows
<1>3. QED
  BY <1>1, <1>2

LEMMA TwoEntries == Cardinality(Entries) = 2
<1>1. Cardinality({"exe"}) = 1 /\ IsFiniteSet({"exe"})
  BY FS_Singleton
<1>2. Entries = {"exe"} \cup {"lib"} /\ "lib" \notin {"exe"}
  BY DEF Entries
<1>3. QED
  BY <1>1, <1>2, FS_AddElement

(* A process leaves the engines of the other kinds alone.                  *)
LEMMA OtherKind ==
  ASSUME Base, NEW p \in Procs, Step(p) \/ Stop(p), NEW k \in Jobs \ {"idle"}, job[p] # k
  PROVE  /\ k \in PipKinds => libs'[k] = libs[k]
         /\ k = "vulkan" => program' = program
         /\ k = "convert" => ir' = ir
         /\ marker' = marker \/ marker' # k
         /\ k \in damaged => k \in damaged'
<1>0. ProcsOK /\ FolderOK /\ Placed(p)
  BY DEF Base
<1>1. CASE Open(p) \/ Read(p) \/ Broken(p) \/ Verify(p) \/ Replace(p)
  BY <1>1 DEF Open, Read, Broken, Verify, Replace, Go, diskVars
<1>2. CASE Cleanup(p) \/ Use(p) \/ OpenZip(p)
  BY <1>2 DEF Cleanup, Use, OpenZip, Over, diskVars
<1>3. CASE Rmtree(p)
  <2>1. job[p] = "vulkan"
    BY <1>0, <1>3, PointsAre DEF Rmtree, Placed, ProcsOK, Download, PipKinds
  <2>2. QED
    BY <1>3, <2>1 DEF Rmtree, Go
<1>4. ASSUME NEW e \in Entries, Extract(p, e) PROVE k # "vulkan" /\ UNCHANGED <<libs, ir, marker, damaged>>
  BY <1>0, <1>4, PointsAre DEF Extract, Placed, ProcsOK, Download, PipKinds
<1>5. CASE ExtractFails(p) \/ PipFails(p) \/ ConvertFails(p) \/ Stop(p)
  BY <1>5 DEF ExtractFails, PipFails, ConvertFails, Stop, CutShort, diskVars
<1>6. ASSUME NEW diarize \in BOOLEAN, Extracted(p, diarize)
      PROVE  UNCHANGED <<libs, program, ir, marker>> /\ damaged \subseteq damaged'
  BY <1>6 DEF Extracted, CutShort
<1>7. CASE Pip(p)
  BY <1>0, <1>7 DEF Pip, Go, FolderOK
<1>8. CASE Mark(p)
  <2>1. k # "torn"
    BY PointsAre
  <2>2. QED
    BY <1>8, <2>1 DEF Mark, Go
<1>9. CASE Written(p)
  BY <1>9 DEF Written
<1>10. CASE Export(p) \/ SaveProcessor(p)
  <2>1. job[p] = "convert"
    BY <1>0, <1>10, PointsAre DEF Export, SaveProcessor, Placed, ProcsOK, Download, PipKinds
  <2>2. QED
    BY <1>10, <2>1 DEF Export, SaveProcessor, Go
<1>11. CASE Load(p)
  BY <1>11 DEF Load, Over, diskVars
<1>12. QED
  BY <1>1, <1>2, <1>3, <1>4, <1>5, <1>6, <1>7, <1>8, <1>9, <1>10, <1>11 DEF Step

(* The one install of packages there is.                                   *)
LEMMA OwnPackages ==
  ASSUME Base, NEW p \in Procs, Step(p) \/ Stop(p), NEW k \in PipKinds, job[p] = k, PackagesGrow(p)
  PROVE  PackagesRest(k)' /\ PackagesGrow(p)'
<1>0. ProcsOK /\ FolderOK /\ Placed(p) /\ Ordinary(p)
  BY StepKeeps DEF Base
<1>9. k # "idle" /\ k # "torn" /\ k # "vulkan"
  BY DEF PipKinds
<1>1. CASE Pip(p)
  <2>1. job'[p] = k /\ (at'[p] = "pip" \/ (at'[p] = "mark" /\ libs'[k] = "all"))
    BY <1>0, <1>1, GoMoves DEF Pip, Points, FolderOK
  <2>2. PackagesRest(k)'
    BY <2>1 DEF PackagesRest
  <2>3. QED
    BY <2>1, <2>2 DEF PackagesGrow
<1>2. CASE PipFails(p) \/ Stop(p)
  <2>1. k \in damaged' /\ job'[p] = "idle"
    BY <1>2, OverMoves DEF PipFails, Stop, CutShort
  <2>2. QED
    BY <1>9, <2>1 DEF PackagesRest, PackagesGrow, PipKinds
<1>3. CASE Mark(p)
  <2>1. job'[p] = k /\ at'[p] = "write" /\ libs' = libs /\ libs[k] = "all"
    BY <1>3, GoMoves DEF Mark, Points, PackagesGrow
  <2>2. QED
    BY <2>1 DEF PackagesRest, PackagesGrow
<1>4. CASE Written(p)
  <2>1. job'[p] = "idle" /\ libs' = libs /\ libs[k] = "all"
    BY <1>4, OverMoves DEF Written, PackagesGrow
  <2>2. QED
    BY <2>1 DEF PackagesRest, PackagesGrow, PipKinds
<1>5. at[p] \in {"pip", "mark", "write"}
  BY <1>0 DEF Placed
<1>6. ~Open(p) /\ ~Read(p) /\ ~Broken(p) /\ ~Verify(p) /\ ~Replace(p) /\ ~Cleanup(p) /\ ~Use(p)
      /\ ~Rmtree(p) /\ ~OpenZip(p) /\ ~ExtractFails(p)
  BY <1>5 DEF Open, Read, Broken, Verify, Replace, Cleanup, Use, Rmtree, OpenZip, ExtractFails
<1>7. ~(\E e \in Entries : Extract(p, e)) /\ ~(\E diarize \in BOOLEAN : Extracted(p, diarize))
      /\ ~Export(p) /\ ~SaveProcessor(p) /\ ~ConvertFails(p) /\ ~Load(p)
  BY <1>5 DEF Extract, Extracted, Export, SaveProcessor, ConvertFails, Load
<1>8. QED
  BY <1>1, <1>2, <1>3, <1>4, <1>6, <1>7 DEF Step

LEMMA NextPackages == Base /\ Noted /\ Packages /\ [Next]_vars => Packages'
<1> SUFFICES ASSUME Base, Noted, Packages, [Next]_vars, "install" \notin crowded'
             PROVE  /\ \A k \in PipKinds : PackagesRest(k)'
                    /\ \A q \in Procs : PackagesGrow(q)'
  BY DEF Packages
<1> DEFINE Goal == /\ \A k \in PipKinds : PackagesRest(k)'
                   /\ \A q \in Procs : PackagesGrow(q)'
<1> SUFFICES Goal
  OBVIOUS
<1>0. PipKinds \subseteq Jobs \ {"idle"} /\ PipKinds \subseteq Kinds
  BY PointsAre DEF PipKinds
<1>1. ASSUME NEW p \in Procs, Step(p) \/ Stop(p) PROVE Goal
  <2>1. Ordinary(p)
    BY <1>1, StepKeeps
  <2>2. "install" \notin crowded
    BY <2>1 DEF Ordinary
  <2>3. (\A k \in PipKinds : PackagesRest(k)) /\ \A q \in Procs : PackagesGrow(q)
    BY <2>2 DEF Packages
  <2>4. ASSUME NEW k \in PipKinds, job[p] # k PROVE PackagesRest(k)'
    <3>1. libs'[k] = libs[k] /\ (marker' = marker \/ marker' # k) /\ (k \in damaged => k \in damaged')
      BY <1>0, <1>1, <2>4, OtherKind
    <3>2. (\A q \in Procs : job'[q] # k) => (\A q \in Procs : job[q] # k)
      BY <2>1, <2>4 DEF Ordinary, Kept
    <3>3. PackagesRest(k)
      BY <2>3
    <3>4. QED
      BY <3>1, <3>2, <3>3 DEF PackagesRest
  <2>5. CASE job[p] \in PipKinds
    <3>1. PICK j \in PipKinds : job[p] = j
      BY <2>5
    <3>2. PackagesRest(j)' /\ PackagesGrow(p)'
      BY <1>1, <2>3, <3>1, OwnPackages
    <3>3. ASSUME NEW q \in Procs \ {p} PROVE job[q] \notin PipKinds
      <4>1. job[p] # "idle" /\ Work(job[p]) = "install"
        BY <1>0, <3>1, PointsAre
      <4>2. job[q] \in PipKinds => Work(job[q]) = "install"
        BY <1>0, PointsAre
      <4>3. QED
        BY <2>2, <3>3, <4>1, <4>2, Alone
    <3>4. \A q \in Procs \ {p} : PackagesGrow(q)'
      BY <2>1, <3>3 DEF Ordinary, Kept, PackagesGrow
    <3>5. \A k \in PipKinds : PackagesRest(k)'
      BY <2>4, <3>1, <3>2
    <3>6. QED
      BY <3>2, <3>4, <3>5
  <2>6. CASE job[p] \notin PipKinds
    <3>1. \A k \in PipKinds : PackagesRest(k)'
      BY <2>4, <2>6
    <3>2. ASSUME NEW q \in Procs PROVE PackagesGrow(q)'
      <4>1. CASE q = p
        BY <2>1, <2>6, <4>1 DEF Ordinary, PackagesGrow, PipKinds
      <4>2. CASE q # p
        <5>1. job'[q] = job[q] /\ at'[q] = at[q]
          BY <2>1, <4>2 DEF Ordinary, Kept
        <5>2. ASSUME job[q] \in PipKinds PROVE libs'[job[q]] = libs[job[q]]
          BY <1>0, <1>1, <2>6, <5>2, OtherKind
        <5>3. PackagesGrow(q)
          BY <2>3
        <5>4. QED
          BY <5>1, <5>2, <5>3 DEF PackagesGrow
      <4>3. QED
        BY <4>1, <4>2
    <3>3. QED
      BY <3>1, <3>2
  <2>7. QED
    BY <2>5, <2>6
<1>2. ASSUME NEW p \in Procs, NEW j \in Jobs \ {"idle"}, Start(p, j) PROVE Goal
  <2>1. /\ UNCHANGED <<libs, marker, damaged>> /\ Kept(p) /\ crowded \subseteq crowded'
        /\ at'[p] \notin {"mark", "write"} /\ job[p] = "idle"
    BY <1>2, StartKeeps DEF diskVars
  <2>2. \A k \in PipKinds : PackagesRest(k)'
    BY <2>1 DEF Kept, Packages, PackagesRest, PipKinds
  <2>3. \A q \in Procs : PackagesGrow(q)'
    BY <2>1 DEF Kept, Packages, PackagesGrow
  <2>4. QED
    BY <2>2, <2>3
<1>3. CASE UNCHANGED vars
  BY <1>3 DEF vars, diskVars, procVars, Packages, PackagesRest, PackagesGrow
<1> HIDE DEF Goal
<1>4. QED
  BY <1>1, <1>2, <1>3 DEF Next

(* The one install of the program there is.                                *)
LEMMA OwnProgram ==
  ASSUME Base, NEW p \in Procs, Step(p) \/ Stop(p), job[p] = "vulkan", ProgramGrows(p),
         \A q \in Procs \ {p} : job[q] # "vulkan", ProgramRests
  PROVE  ProgramRests' /\ ProgramGrows(p)'
<1> DEFINE Goal == ProgramRests' /\ ProgramGrows(p)'
<1> SUFFICES Goal
  OBVIOUS
<1>0. ProcsOK /\ FolderOK /\ Placed(p) /\ Ordinary(p)
  BY StepKeeps DEF Base
<1>1. \A q \in Procs \ {p} : job'[q] # "vulkan"
  BY <1>0 DEF Ordinary, Kept
<1>2. ASSUME UNCHANGED <<program, marker, damaged>>, at[p] \notin Past,
             job'[p] = "vulkan" => at'[p] \notin Past
      PROVE  Goal
  <2>1. \A q \in Procs : job[q] = "vulkan" => at[q] \notin Past
    BY <1>2
  <2>2. ProgramRests'
    BY <1>2, <2>1 DEF ProgramRests
  <2>3. ProgramGrows(p)'
    BY <1>2 DEF ProgramGrows, Past
  <2>4. QED
    BY <2>2, <2>3
<1>3. ASSUME "vulkan" \in damaged', job'[p] = "idle" PROVE Goal
  BY <1>3 DEF ProgramRests, ProgramGrows
<1>4. ASSUME job'[p] = "vulkan", at'[p] \in Past, ProgramGrows(p)' PROVE Goal
  BY <1>4 DEF ProgramRests
<1>5. CASE Open(p) \/ Read(p)
  <2>1. at[p] \notin Past /\ at'[p] \notin Past /\ UNCHANGED <<program, marker, damaged>>
    BY <1>0, <1>5 DEF Open, Read, ProcsOK, Past
  <2>2. QED
    BY <1>2, <2>1
<1>6. CASE Broken(p) \/ Verify(p) \/ Replace(p)
  <2>1. at[p] \notin Past /\ UNCHANGED <<program, marker, damaged>>
    BY <1>6 DEF Broken, Verify, Replace, Go, Past, diskVars
  <2>2. Go(p, "cleanup") \/ Go(p, "replace") \/ Go(p, "moved")
    BY <1>6 DEF Broken, Verify, Replace
  <2>3. at'[p] \notin Past
    BY <2>2, GoMoves DEF Points, Past
  <2>4. QED
    BY <1>2, <2>1, <2>3
<1>7. CASE Cleanup(p)
  <2>1. at[p] \notin Past /\ UNCHANGED <<program, marker, damaged>>
    BY <1>7 DEF Cleanup, Past
  <2>2. at'[p] \notin Past
    BY <1>0, <1>7, OverMoves DEF Cleanup, ProcsOK, Past
  <2>3. QED
    BY <1>2, <2>1, <2>2
<1>8. CASE Use(p)
  BY <1>0, <1>8 DEF Use, Placed, Download
<1>9. CASE Rmtree(p)
  <2>1. job'[p] = "vulkan" /\ at'[p] = "unzip" /\ program' = {}
    BY <1>9, GoMoves DEF Rmtree, Points
  <2>2. QED
    BY <1>4, <2>1 DEF ProgramGrows, Past
<1>10. CASE OpenZip(p)
  <2>1. job'[p] = "vulkan" /\ at'[p] = "extract" /\ done'[p] = 0 /\ program' = {}
    BY <1>0, <1>10 DEF OpenZip, ProcsOK, Placed, ProgramGrows, diskVars
  <2>2. QED
    BY <1>4, <2>1 DEF ProgramGrows, Past
<1>11. ASSUME NEW e \in Entries, Extract(p, e) PROVE Goal
  <2>1. /\ job'[p] = "vulkan" /\ at'[p] = "extract" /\ done'[p] = done[p] + 1
        /\ done[p] \in Nat /\ done[p] < 2
        /\ program' = program \cup {e} /\ e = IF done[p] = 0 THEN "exe" ELSE "lib"
        /\ program = IF done[p] = 0 THEN {} ELSE IF done[p] = 1 THEN {"exe"} ELSE Entries
    BY <1>0, <1>11, TwoEntries DEF Extract, ProcsOK, ProgramGrows
  <2>2. CASE done[p] = 0
    BY <1>4, <2>1, <2>2 DEF ProgramGrows, Past
  <2>3. CASE done[p] = 1
    BY <1>4, <2>1, <2>3 DEF ProgramGrows, Past, Entries
  <2>4. QED
    BY <2>1, <2>2, <2>3
<1>12. CASE ExtractFails(p) \/ PipFails(p) \/ Stop(p)
  BY <1>3, <1>12, OverMoves DEF ExtractFails, PipFails, Stop, CutShort
<1>13. ASSUME NEW diarize \in BOOLEAN, Extracted(p, diarize) PROVE Goal
  <2>1. CASE FindBinary
    <3>1. job'[p] = "vulkan" /\ at'[p] \in {"pip", "mark"}
      BY <1>0, <1>13, <2>1 DEF Extracted, ProcsOK
    <3>2. at[p] = "extract" /\ done[p] = 2 /\ program' = program
      BY <1>13, TwoEntries DEF Extracted
    <3>3. program' = Entries
      BY <3>2 DEF ProgramGrows
    <3>4. QED
      BY <1>4, <3>1, <3>3 DEF ProgramGrows, Past
  <2>2. CASE ~FindBinary
    BY <1>3, <1>13, <2>2, OverMoves DEF Extracted, CutShort
  <2>3. QED
    BY <2>1, <2>2
<1>14. CASE Pip(p)
  <2>1. Go(p, "mark") /\ program' = program /\ program = Entries
    BY <1>14 DEF Pip, PipKinds, ProgramGrows
  <2>2. job'[p] = "vulkan" /\ at'[p] = "mark"
    BY <2>1, GoMoves DEF Points
  <2>3. QED
    BY <1>4, <2>1, <2>2 DEF ProgramGrows, Past
<1>15. CASE Mark(p)
  <2>1. job'[p] = "vulkan" /\ at'[p] = "write" /\ program' = program /\ program = Entries
    BY <1>15, GoMoves DEF Mark, Points, ProgramGrows
  <2>2. QED
    BY <1>4, <2>1 DEF ProgramGrows, Past
<1>16. CASE Written(p)
  <2>1. job'[p] = "idle" /\ program' = program /\ program = Entries
    BY <1>16, OverMoves DEF Written, ProgramGrows
  <2>2. QED
    BY <2>1 DEF ProgramRests, ProgramGrows
<1>17. CASE Export(p) \/ SaveProcessor(p) \/ ConvertFails(p) \/ Load(p)
  BY <1>0, <1>17 DEF Export, SaveProcessor, ConvertFails, Load, Placed, Download
<1> HIDE DEF Goal
<1>18. QED
  BY <1>5, <1>6, <1>7, <1>8, <1>9, <1>10, <1>11, <1>12, <1>13, <1>14, <1>15, <1>16, <1>17 DEF Step

LEMMA NextProgram == Base /\ Noted /\ Program /\ [Next]_vars => Program'
<1> SUFFICES ASSUME Base, Noted, Program, [Next]_vars, "install" \notin crowded'
             PROVE  ProgramRests' /\ \A q \in Procs : ProgramGrows(q)'
  BY DEF Program
<1> DEFINE Goal == ProgramRests' /\ \A q \in Procs : ProgramGrows(q)'
<1> SUFFICES Goal
  OBVIOUS
<1>1. ASSUME NEW p \in Procs, Step(p) \/ Stop(p) PROVE Goal
  <2>1. Ordinary(p)
    BY <1>1, StepKeeps
  <2>2. "install" \notin crowded
    BY <2>1 DEF Ordinary
  <2>3. ProgramRests /\ \A q \in Procs : ProgramGrows(q)
    BY <2>2 DEF Program
  <2>4. CASE job[p] = "vulkan"
    <3>1. ASSUME NEW q \in Procs \ {p} PROVE job[q] # "vulkan"
      <4>1. Work("vulkan") = "install"
        BY PointsAre
      <4>2. QED
        BY <2>2, <2>4, <3>1, <4>1, Alone
    <3>2. ProgramRests' /\ ProgramGrows(p)'
      BY <1>1, <2>3, <2>4, <3>1, OwnProgram
    <3>3. \A q \in Procs \ {p} : ProgramGrows(q)'
      BY <2>1, <3>1 DEF Ordinary, Kept, ProgramGrows
    <3>4. QED
      BY <3>2, <3>3
  <2>5. CASE job[p] # "vulkan"
    <3>1. /\ program' = program /\ (marker' = marker \/ marker' # "vulkan")
          /\ "vulkan" \in damaged => "vulkan" \in damaged'
      BY <1>1, <2>5, OtherKind, PointsAre
    <3>2. job'[p] # "vulkan" /\ \A q \in Procs \ {p} : job'[q] = job[q] /\ at'[q] = at[q] /\ done'[q] = done[q]
      BY <2>1, <2>5 DEF Ordinary, Kept
    <3>3. ProgramRests'
      BY <2>3, <2>5, <3>1, <3>2 DEF ProgramRests
    <3>4. \A q \in Procs : ProgramGrows(q)'
      BY <2>3, <3>1, <3>2 DEF ProgramGrows
    <3>5. QED
      BY <3>3, <3>4
  <2>6. QED
    BY <2>4, <2>5
<1>2. ASSUME NEW p \in Procs, NEW j \in Jobs \ {"idle"}, Start(p, j) PROVE Goal
  <2>1. /\ UNCHANGED <<program, marker, damaged, done>> /\ Kept(p) /\ crowded \subseteq crowded'
        /\ at'[p] \in {"use", "open", "load", "export", "pip"} /\ job[p] = "idle" /\ job'[p] = j
    BY <1>2, StartKeeps DEF diskVars
  <2>2. j = "vulkan" => at'[p] = "open"
    BY <1>2, StartKeeps
  <2>3. ProgramRests'
    BY <2>1, <2>2 DEF Kept, Program, ProgramRests, Past
  <2>4. \A q \in Procs : ProgramGrows(q)'
    BY <2>1, <2>2 DEF Kept, Program, ProgramGrows
  <2>5. QED
    BY <2>3, <2>4
<1>3. CASE UNCHANGED vars
  BY <1>3 DEF vars, diskVars, procVars, Program, ProgramRests, ProgramGrows
<1> HIDE DEF Goal
<1>4. QED
  BY <1>1, <1>2, <1>3 DEF Next

(* The marker names an engine that is completely there, and "installed" is  *)
(* said only of one that is, for installs of several kinds one after the    *)
(* other.  Excepted are a kind whose last install failed or was stopped     *)
(* halfway and was not done again, which the marker may name all the same,  *)
(* and any folder in which two installs ever ran at once.                   *)
THEOREM MarkerTheorem == Spec => []MarkerTellsTheTruth
<1>1. Packages /\ Program => MarkerTellsTheTruth
  <2> SUFFICES ASSUME Packages, Program, "install" \notin crowded
               PROVE  /\ \A k \in Kinds \ damaged :
                           marker = k /\ (\A p \in Procs : job[p] # k) => Installed(k)
                      /\ damaged \cap Kinds = {} /\ (\A p \in Procs : job[p] \notin Kinds)
                           => /\ Kind # "none" => Asr
                              /\ Asr => Installed(Chosen)
    BY DEF MarkerTellsTheTruth
  <2>1. (\A k \in PipKinds : PackagesRest(k)) /\ ProgramRests
    BY DEF Packages, Program
  <2>2. ASSUME NEW k \in Kinds \ damaged, marker = k, \A p \in Procs : job[p] # k
        PROVE  Installed(k)
    BY <2>1, <2>2, PointsAre DEF PackagesRest, ProgramRests, Installed, PipKinds
  <2>3. ASSUME damaged \cap Kinds = {}, \A p \in Procs : job[p] \notin Kinds
        PROVE  (Kind # "none" => Asr) /\ (Asr => Installed(Chosen))
    <3>1. marker \in Kinds => Installed(marker)
      BY <2>2, <2>3
    <3>2. libs["cpu"] \in {"none", "all"}
      BY <2>1, <2>3, PointsAre DEF PackagesRest, PipKinds
    <3>3. CASE marker \in Kinds
      <4>1. Kind = marker /\ Kind \in {"cpu", "openvino", "vulkan"}
        BY <3>3, PointsAre DEF Kind
      <4>2. Kind = "vulkan" => program = Entries
        BY <3>1, <3>3, <4>1 DEF Installed
      <4>3. Kind # "vulkan" => libs[Kind] = "all"
        BY <3>1, <3>3, <4>1 DEF Installed
      <4>4. Asr
        BY <4>1, <4>2, <4>3 DEF Asr, FindBinary, Entries
      <4>5. Chosen = Kind
        BY <4>1 DEF Chosen
      <4>6. QED
        BY <3>1, <3>3, <4>1, <4>4, <4>5
    <3>4. CASE marker \notin Kinds
      <4>1. Kind = "none" /\ Chosen = "cpu"
        BY <3>4 DEF Kind, Chosen
      <4>2. QED
        BY <3>2, <4>1 DEF Asr, Installed
    <3>5. QED
      BY <3>3, <3>4
  <2>4. QED
    BY <2>2, <2>3
<1>2. Init => Packages /\ Program
  BY InitInstall
<1>3. Base /\ Noted /\ Packages /\ Program /\ [Next]_vars => (Packages /\ Program)'
  BY NextPackages, NextProgram
<1>4. QED
  BY <1>1, <1>2, <1>3, TypesCompany, PTL DEF Spec

-----------------------------------------------------------------------------
(* The conversion.                                                         *)

Converted ==
    "convert" \notin damaged \cup crowded =>
        /\ (\A p \in Procs : at[p] # "processor") => ir \in {{}, {"model", "processor"}}
        /\ \A p \in Procs : /\ at[p] = "processor" => "model" \in ir
                            /\ at[p] = "load" => ir = {"model", "processor"}

LEMMA InitConverted == Init => Converted
BY DEF Init, Converted

LEMMA NextConverted == Base /\ Noted /\ Converted /\ [Next]_vars => Converted'
<1> SUFFICES ASSUME Base, Noted, Converted, [Next]_vars,
                    "convert" \notin damaged', "convert" \notin crowded'
             PROVE  /\ (\A p \in Procs : at'[p] # "processor") => ir' \in {{}, {"model", "processor"}}
                    /\ \A p \in Procs : /\ at'[p] = "processor" => "model" \in ir'
                                        /\ at'[p] = "load" => ir' = {"model", "processor"}
  BY DEF Converted
<1> DEFINE Goal == /\ (\A p \in Procs : at'[p] # "processor") => ir' \in {{}, {"model", "processor"}}
                   /\ \A p \in Procs : /\ at'[p] = "processor" => "model" \in ir'
                                       /\ at'[p] = "load" => ir' = {"model", "processor"}
<1> SUFFICES Goal
  OBVIOUS
<1>0. \A p \in Procs : at[p] \in {"export", "processor", "load"} <=> job[p] = "convert"
  BY PointsAre DEF Base, ProcsOK, Placed, Download, PipKinds
<1>1. ASSUME NEW p \in Procs, Step(p) \/ Stop(p) PROVE Goal
  <2>0. Ordinary(p) /\ Placed(p) /\ ProcsOK /\ FolderOK
    BY <1>1, StepKeeps DEF Base
  <2>1. "convert" \notin crowded
    BY <2>0 DEF Ordinary
  <2>2. CASE job[p] = "convert"
    <3>1. ASSUME NEW q \in Procs \ {p} PROVE at[q] \notin {"export", "processor", "load"}
      BY <1>0, <2>1, <2>2, <3>1, Alone, PointsAre
    <3>2. \A q \in Procs \ {p} : at'[q] \notin {"processor", "load"}
      BY <2>0, <3>1 DEF Ordinary, Kept
    <3>3. ~PipFails(p) /\ ~ConvertFails(p) /\ ~Stop(p)
      BY <2>2 DEF PipFails, ConvertFails, Stop, CutShort
    <3>4. at[p] \in {"export", "processor", "load"}
      BY <1>0, <2>2
    <3>5. CASE Export(p)
      <4>1. at'[p] = "processor" /\ "model" \in ir'
        BY <3>5, GoMoves DEF Export, Points
      <4>2. QED
        BY <3>2, <4>1
    <3>6. CASE SaveProcessor(p)
      <4>1. at'[p] = "load" /\ damaged' = damaged
        BY <3>6, GoMoves DEF SaveProcessor, Points
      <4>2. "model" \in ir /\ ir' = ir \cup {"processor"} /\ ir \subseteq {"model", "processor"}
        BY <2>0, <2>1, <3>6, <4>1 DEF SaveProcessor, Converted, FolderOK
      <4>3. ir' = {"model", "processor"}
        BY <4>2
      <4>4. QED
        BY <3>2, <4>1, <4>3
    <3>7. CASE Load(p)
      <4>1. at'[p] = "start" /\ damaged' = damaged /\ ir' = ir /\ at[p] = "load"
        BY <3>7, OverMoves DEF Load, diskVars
      <4>2. ir = {"model", "processor"}
        BY <2>1, <4>1 DEF Converted
      <4>3. QED
        BY <3>2, <4>1, <4>2
    <3>8. ~Open(p) /\ ~Read(p) /\ ~Broken(p) /\ ~Verify(p) /\ ~Replace(p) /\ ~Cleanup(p) /\ ~Use(p)
          /\ ~Rmtree(p) /\ ~OpenZip(p) /\ ~ExtractFails(p)
      BY <3>4 DEF Open, Read, Broken, Verify, Replace, Cleanup, Use, Rmtree, OpenZip, ExtractFails
    <3>9. ~(\E e \in Entries : Extract(p, e)) /\ ~(\E diarize \in BOOLEAN : Extracted(p, diarize))
          /\ ~Pip(p) /\ ~Mark(p) /\ ~Written(p)
      BY <3>4 DEF Extract, Extracted, Pip, Mark, Written
    <3>10. QED
      BY <1>1, <3>3, <3>5, <3>6, <3>7, <3>8, <3>9 DEF Step
  <2>3. CASE job[p] # "convert"
    <3>1. ir' = ir /\ "convert" \notin damaged
      BY <1>1, <2>3, OtherKind, PointsAre
    <3>2. Placed(p)' /\ job'[p] # "convert" /\ job'[p] \in Jobs
      BY <2>0, <2>3 DEF Ordinary, ProcsOK
    <3>3. at'[p] \notin {"processor", "load"}
      BY <3>2, PointsAre DEF Placed, Download, PipKinds
    <3>4. at[p] \notin {"processor", "load"}
      BY <1>0, <2>3
    <3>5. \A q \in Procs \ {p} : at'[q] = at[q]
      BY <2>0 DEF Ordinary, Kept
    <3>6. QED
      BY <2>1, <3>1, <3>3, <3>4, <3>5 DEF Converted
  <2>4. QED
    BY <2>2, <2>3
<1>2. ASSUME NEW p \in Procs, NEW j \in Jobs \ {"idle"}, Start(p, j) PROVE Goal
  <2>1. /\ ir' = ir /\ damaged' = damaged /\ Kept(p) /\ crowded \subseteq crowded'
        /\ at'[p] # "processor" /\ at[p] = "start"
        /\ at'[p] = "load" => (j = "convert" /\ "model" \in ir)
        /\ \A q \in Procs \ {p} : Work(job[q]) = Work(j) => Work(j) \in crowded'
    BY <1>2, StartKeeps DEF diskVars, Base, Placed
  <2>2. at'[p] = "load" => \A q \in Procs : at[q] # "processor"
    BY <1>0, <2>1, PointsAre
  <2>3. at'[p] = "load" => ir = {"model", "processor"}
    BY <2>1, <2>2 DEF Converted
  <2>4. \A q \in Procs \ {p} : at'[q] = at[q]
    BY <2>1 DEF Kept
  <2>5. QED
    BY <2>1, <2>3, <2>4 DEF Converted
<1>3. CASE UNCHANGED vars
  BY <1>3 DEF vars, diskVars, procVars, Converted
<1> HIDE DEF Goal
<1>4. QED
  BY <1>1, <1>2, <1>3 DEF Next

(* A conversion that a process finds in the folder has its processor too:   *)
(* the model file alone, which is what is looked for, says enough unless a  *)
(* conversion was cut short or ran beside another.                          *)
THEOREM ConversionTheorem == Spec => []ConversionLoads
<1>1. Converted => ConversionLoads
  BY DEF Converted, ConversionLoads
<1>2. Init => Converted
  BY InitConverted
<1>3. QED
  BY <1>1, <1>2, NextConverted, TypesCompany, PTL DEF Spec

=============================================================================

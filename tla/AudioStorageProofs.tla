------------------------- MODULE AudioStorageProofs -------------------------
(***************************************************************************)
(* Theorems about AudioStorage, for any sources, requests and bounds.      *)
(***************************************************************************)
EXTENDS AudioStorage, TLAPS

-----------------------------------------------------------------------------
(* Types.                                                                  *)

LEMMA VersionBounds == 0 \in Versions /\ Versions \subseteq Nat /\ NoFile \in File
BY BoundsAssumption DEF Versions, File, NoFile

LEMMA NextVersion ==
  ASSUME versions \in Versions, versions < MaxVersions
  PROVE  versions + 1 \in Versions
BY BoundsAssumption DEF Versions

LEMMA EndUploadType ==
  ASSUME up \in [Uploads -> Upload], NEW u \in Uploads, EndUpload(u)
  PROVE  /\ up' \in [Uploads -> Upload]
         /\ \A v \in Uploads : up'[v] = IF v = u THEN NoUpload ELSE up[v]
BY VersionBounds DEF EndUpload, NoUpload, Upload

LEMMA EndGetType ==
  ASSUME get \in [Readers -> Reader], NEW r \in Readers, EndGet(r)
  PROVE  /\ get' \in [Readers -> Reader]
         /\ \A q \in Readers : get'[q] = IF q = r THEN NoReader ELSE get[q]
BY VersionBounds DEF EndGet, NoReader, Reader

LEMMA AckedType ==
  ASSUME up \in [Uploads -> Upload], acked \in [Sources -> Versions],
         NEW u \in Uploads, Acked(u)
  PROVE  acked' \in [Sources -> Versions]
<1>1. up[u].version \in Versions
  BY DEF Upload
<1>2. QED
  BY <1>1 DEF Acked

LEMMA CopyType ==
  ASSUME NEW v \in Versions
  PROVE  Copy(v) \in File /\ Copy(v).version = v /\ (Copy(v).whole <=> v \notin torn)
BY DEF Copy, File

LEMMA WithoutTempType ==
  ASSUME NEW g \in [Readers -> Reader]
  PROVE  /\ WithoutTemp(g) \in [Readers -> Reader]
         /\ \A r \in Readers : /\ WithoutTemp(g)[r].at = g[r].at
                               /\ WithoutTemp(g)[r].source = g[r].source
                               /\ WithoutTemp(g)[r].temp = 0
BY VersionBounds DEF WithoutTemp, Reader

LEMMA RmtreeType ==
  ASSUME Rmtree
  PROVE  /\ wav' \in [Sources -> File] /\ part' \in [Sources -> File]
         /\ \A s \in Sources : wav'[s] = NoFile /\ part'[s] = NoFile
BY VersionBounds DEF Rmtree

(* An upload moves on: its record, and nobody else's.                      *)
LEMMA UploadAt ==
  ASSUME up \in [Uploads -> Upload], NEW u \in Uploads, NEW a \in {"send", "sending"},
         up' = [up EXCEPT ![u].at = a]
  PROVE  /\ up' \in [Uploads -> Upload]
         /\ up'[u].at = a /\ up'[u].source = up[u].source
         /\ \A v \in Uploads \ {u} : up'[v] = up[v]
BY DEF Upload

LEMMA UploadNumbered ==
  ASSUME up \in [Uploads -> Upload], NEW u \in Uploads, NEW n \in Versions,
         up' = [up EXCEPT ![u].at = "spool", ![u].version = n]
  PROVE  /\ up' \in [Uploads -> Upload]
         /\ up'[u].at = "spool" /\ up'[u].source = up[u].source
         /\ \A v \in Uploads \ {u} : up'[v] = up[v]
<1>1. up'[u] = [at |-> "spool", source |-> up[u].source, version |-> n, carries |-> up[u].carries]
  BY DEF Upload
<1>2. up' \in [Uploads -> Upload]
  BY <1>1 DEF Upload
<1>3. QED
  BY <1>1, <1>2

LEMMA UploadCarrying ==
  ASSUME up \in [Uploads -> Upload], NEW u \in Uploads, NEW n \in Versions,
         up' = [up EXCEPT ![u].at = "sending", ![u].carries = n]
  PROVE  /\ up' \in [Uploads -> Upload]
         /\ up'[u].at = "sending" /\ up'[u].source = up[u].source
         /\ \A v \in Uploads \ {u} : up'[v] = up[v]
<1>1. up'[u] = [at |-> "sending", source |-> up[u].source, version |-> up[u].version, carries |-> n]
  BY DEF Upload
<1>2. up' \in [Uploads -> Upload]
  BY <1>1 DEF Upload
<1>3. QED
  BY <1>1, <1>2

(* Whoever is under way is under way with a source.                        *)
Named ==
    /\ \A u \in Uploads : up[u].at # "idle" => up[u].source \in Sources
    /\ \A r \in Readers : get[r].at # "idle" => get[r].source \in Sources

Base == TypeOK /\ Named

LEMMA InitBase == Init => Base
<1> SUFFICES ASSUME Init PROVE Base
  OBVIOUS
<1>1. NoUpload \in Upload /\ NoReader \in Reader
  BY VersionBounds DEF NoUpload, NoReader, Upload, Reader
<1>2. NoUpload.at = "idle" /\ NoReader.at = "idle"
  BY DEF NoUpload, NoReader
<1>3. Named
  BY <1>2 DEF Init, Named
<1>4. \A u \in Uploads : up[u].at = "spool" <=> loop = u
  BY <1>2, NoneAssumption DEF Init
<1>5. up \in [Uploads -> Upload] /\ get \in [Readers -> Reader]
  BY <1>1 DEF Init
<1>6. object \in [Sources -> Versions] /\ acked \in [Sources -> Versions] /\ versions \in Versions
      /\ wav \in [Sources -> File] /\ part \in [Sources -> File] /\ crashes \in 0..MaxCrashes
  BY VersionBounds, BoundsAssumption DEF Init
<1>7. store \in Stores /\ row \in BOOLEAN /\ purge = "idle" /\ todo \subseteq Sources
      /\ loop \in Uploads \cup {None} /\ torn = {} /\ shared = {} /\ late \in BOOLEAN
  BY DEF Init
<1>8. TypeOK
  BY <1>4, <1>5, <1>6, <1>7 DEF TypeOK
<1>9. QED
  BY <1>3, <1>8 DEF Base

(* An upload whose record becomes good leaves the others as they are.      *)
LEMMA UploadMoves ==
  ASSUME Base, NEW u \in Uploads, get' = get,
         up' \in [Uploads -> Upload],
         \A v \in Uploads \ {u} : up'[v] = up[v],
         up'[u].at # "idle" => up'[u].source \in Sources,
         up'[u].at = "spool" <=> loop' = u,
         loop' = loop \/ (loop \in {u, None} /\ loop' \in {u, None})
  PROVE  Named' /\ \A v \in Uploads : up'[v].at = "spool" <=> loop' = v
<1>1. \A v \in Uploads \ {u} : up'[v].at = "spool" <=> loop' = v
  BY NoneAssumption DEF Base, TypeOK
<1>2. Named'
  BY DEF Base, Named
<1>3. QED
  BY <1>1, <1>2

LEMMA UploadStays ==
  ASSUME Base, NEW u \in Uploads, get' = get, loop' = loop, up[u].at # "spool",
         up' \in [Uploads -> Upload],
         \A v \in Uploads \ {u} : up'[v] = up[v],
         up'[u].at # "idle" => up'[u].source \in Sources,
         up'[u].at # "spool"
  PROVE  Named' /\ \A v \in Uploads : up'[v].at = "spool" <=> loop' = v
<1>1. \A v \in Uploads : up'[v].at = "spool" <=> loop' = v
  BY DEF Base, TypeOK
<1>2. Named'
  BY DEF Base, Named
<1>3. QED
  BY <1>1, <1>2

LEMMA UploadBase ==
  ASSUME Base, NEW u \in Uploads,
         \/ \E s \in Sources : UploadStart(u, s)
         \/ UploadRefused(u) \/ SpoolStart(u) \/ SpoolEnd(u) \/ SpoolFails(u)
         \/ Send(u) \/ SendFails(u) \/ Sent(u)
  PROVE  Base'
<1> USE DEF Base
<1>0. up[u] \in Upload /\ NoUpload.at = "idle" /\ u # None
  BY NoneAssumption DEF TypeOK, NoUpload
<1>1. ASSUME NEW s \in Sources, UploadStart(u, s) PROVE Base'
  <2>1. up' \in [Uploads -> Upload] /\ up'[u].at = "body" /\ up'[u].source = s
        /\ \A v \in Uploads \ {u} : up'[v] = up[v]
    BY <1>1, VersionBounds DEF TypeOK, UploadStart, NoUpload, Upload
  <2>2. loop = None /\ loop' = loop /\ get' = get
    BY <1>1 DEF UploadStart
  <2>3. Named' /\ \A v \in Uploads : up'[v].at = "spool" <=> loop' = v
    BY <1>0, <2>1, <2>2, UploadMoves
  <2>4. shared' \subseteq Sources /\ late' \in BOOLEAN
    BY <1>1 DEF TypeOK, UploadStart
  <2>5. UNCHANGED <<store, object, wav, part, row, get, purge, todo, versions, acked, torn,
                  crashes>>
    BY <1>1 DEF UploadStart, files
  <2>6. QED
    BY <2>1, <2>2, <2>3, <2>4, <2>5 DEF TypeOK
<1>2. CASE UploadRefused(u)
  <2>1. up' \in [Uploads -> Upload] /\ \A v \in Uploads : up'[v] = IF v = u THEN NoUpload ELSE up[v]
    BY <1>2, EndUploadType DEF TypeOK, UploadRefused
  <2>2. Named' /\ \A v \in Uploads : up'[v].at = "spool" <=> loop' = v
    BY <1>0, <1>2, <2>1, UploadMoves DEF TypeOK, UploadRefused
  <2>3. QED
    BY <1>2, <2>1, <2>2 DEF TypeOK, UploadRefused, files, history
<1>3. CASE SpoolStart(u)
  <2> DEFINE n == versions + 1
  <2>1. n \in Versions /\ versions' = n
    BY <1>3, NextVersion DEF TypeOK, SpoolStart
  <2>2. up' = [up EXCEPT ![u].at = "spool", ![u].version = n]
    BY <1>3, <2>1 DEF SpoolStart
  <2>3. up' \in [Uploads -> Upload] /\ up'[u].at = "spool" /\ up'[u].source = up[u].source
        /\ \A v \in Uploads \ {u} : up'[v] = up[v]
    BY <2>1, <2>2, UploadNumbered DEF TypeOK
  <2>4. loop = None /\ loop' = u /\ up[u].at = "body" /\ get' = get
    BY <1>3 DEF SpoolStart
  <2>5. Named' /\ \A v \in Uploads : up'[v].at = "spool" <=> loop' = v
    BY <2>3, <2>4, UploadMoves DEF Named
  <2>6. part' \in [Sources -> File]
    <3>1. part' = [part EXCEPT ![up[u].source] = [version |-> n, whole |-> FALSE]]
      BY <1>3, <2>1 DEF SpoolStart
    <3>2. [version |-> n, whole |-> FALSE] \in File
      BY <2>1 DEF File
    <3>3. QED
      BY <3>1, <3>2 DEF TypeOK
  <2>7. QED
    BY <1>3, <2>1, <2>3, <2>4, <2>5, <2>6 DEF TypeOK, SpoolStart
<1>4. CASE SpoolEnd(u)
  <2> DEFINE s == up[u].source
  <2>1. loop = u /\ loop' = None /\ get' = get /\ up[u].at = "spool" /\ s \in Sources
    BY <1>4 DEF TypeOK, Named, SpoolEnd
  <2>2. \/ EndUpload(u) /\ UNCHANGED acked
        \/ Acked(u) /\ EndUpload(u)
        \/ up' = [up EXCEPT ![u].at = "send"] /\ UNCHANGED acked
    BY <1>4 DEF SpoolEnd
  <2>3. /\ up' \in [Uploads -> Upload] /\ up'[u].at # "spool"
        /\ up'[u].at # "idle" => up'[u].source = s
        /\ \A v \in Uploads \ {u} : up'[v] = up[v]
    BY <1>0, <2>2, EndUploadType, UploadAt DEF TypeOK
  <2>4. acked' \in [Sources -> Versions]
    BY <2>2, AckedType DEF TypeOK
  <2>5. Named' /\ \A v \in Uploads : up'[v].at = "spool" <=> loop' = v
    BY <1>0, <2>1, <2>3, UploadMoves
  <2>6. wav' \in [Sources -> File] /\ part' \in [Sources -> File]
    <3>1. CASE part[s] = NoFile
      BY <1>4, <3>1 DEF TypeOK, SpoolEnd
    <3>2. CASE part[s] # NoFile
      <4>1. Copy(part[s].version) \in File
        BY <2>1, CopyType DEF TypeOK, File
      <4>2. /\ wav' = [wav EXCEPT ![s] = Copy(part[s].version)]
            /\ part' = [part EXCEPT ![s] = NoFile]
        BY <1>4, <3>2 DEF SpoolEnd
      <4>3. QED
        BY <2>1, <4>1, <4>2, VersionBounds DEF TypeOK
    <3>3. QED
      BY <3>1, <3>2
  <2>7. QED
    BY <1>4, <2>1, <2>3, <2>4, <2>5, <2>6 DEF TypeOK, SpoolEnd
<1>5. CASE Send(u)
  <2> DEFINE n == wav[up[u].source].version
  <2>1. up[u].at = "send" /\ up[u].source \in Sources /\ get' = get /\ loop' = loop
    BY <1>5 DEF Named, Send
  <2>2. n \in Versions
    BY <2>1 DEF TypeOK, File
  <2>3. up' \in [Uploads -> Upload] /\ up'[u].at = "sending" /\ up'[u].source = up[u].source
        /\ \A v \in Uploads \ {u} : up'[v] = up[v]
    BY <1>5, <2>2, UploadCarrying DEF TypeOK, Send
  <2>6. Named' /\ \A v \in Uploads : up'[v].at = "spool" <=> loop' = v
    BY <2>1, <2>3, UploadStays
  <2>5. QED
    BY <1>5, <2>1, <2>3, <2>6 DEF TypeOK, Send, files, history
<1>6. CASE SendFails(u)
  <2>1. up' \in [Uploads -> Upload] /\ \A v \in Uploads : up'[v] = IF v = u THEN NoUpload ELSE up[v]
    BY <1>6, EndUploadType DEF TypeOK, SendFails
  <2>0. up[u].at # "spool" /\ loop' = loop /\ get' = get
    BY <1>6 DEF TypeOK, SendFails, history
  <2>2. Named' /\ \A v \in Uploads : up'[v].at = "spool" <=> loop' = v
    BY <1>0, <2>0, <2>1, UploadStays
  <2>3. QED
    BY <1>6, <2>1, <2>2 DEF TypeOK, SendFails, files, history
<1>7. CASE Sent(u)
  <2>1. up' \in [Uploads -> Upload] /\ \A v \in Uploads : up'[v] = IF v = u THEN NoUpload ELSE up[v]
    BY <1>7, EndUploadType DEF TypeOK, Sent
  <2>0. up[u].at # "spool" /\ loop' = loop /\ get' = get
    BY <1>7 DEF TypeOK, Sent, history
  <2>2. Named' /\ \A v \in Uploads : up'[v].at = "spool" <=> loop' = v
    BY <1>0, <2>0, <2>1, UploadStays
  <2>3. acked' \in [Sources -> Versions]
    BY <1>7, AckedType DEF TypeOK, Sent
  <2>4. object' \in [Sources -> Versions]
    <3>1. up[u].carries \in Versions
      BY <1>0 DEF Upload
    <3>2. QED
      BY <1>7, <3>1 DEF TypeOK, Sent
  <2>5. QED
    BY <1>7, <2>1, <2>2, <2>3, <2>4 DEF TypeOK, Sent
<1>8. CASE SpoolFails(u)
  <2>1. /\ up' \in [Uploads -> Upload]
        /\ \A v \in Uploads : up'[v] = IF v = u THEN NoUpload ELSE up[v]
    BY <1>8, EndUploadType DEF TypeOK, SpoolFails
  <2>2. loop = u /\ loop' = None /\ get' = get
    BY <1>8 DEF SpoolFails
  <2>3. Named' /\ \A v \in Uploads : up'[v].at = "spool" <=> loop' = v
    BY <1>0, <2>1, <2>2, UploadMoves
  <2>4. torn' \subseteq Versions
    <3>1. up[u].version \in Versions
      BY <1>0 DEF Upload
    <3>2. QED
      BY <1>8, <3>1 DEF TypeOK, SpoolFails
  <2>5. QED
    BY <1>8, <2>1, <2>2, <2>3, <2>4 DEF TypeOK, SpoolFails, files
<1>9. QED
  BY <1>1, <1>2, <1>3, <1>4, <1>5, <1>6, <1>7, <1>8

(* A reader moves on: its record, and nobody else's.                       *)
LEMMA ReaderBecomes ==
  ASSUME get \in [Readers -> Reader], NEW r \in Readers, NEW x \in Reader,
         get' = [get EXCEPT ![r] = x]
  PROVE  /\ get' \in [Readers -> Reader]
         /\ get'[r] = x
         /\ \A q \in Readers \ {r} : get'[q] = get[q]
OBVIOUS

LEMMA ReaderWith ==
  ASSUME get \in [Readers -> Reader], NEW r \in Readers,
         NEW a \in {"get", "fetch", "place", "use"}, NEW n \in Versions
  PROVE  /\ [get[r] EXCEPT !.at = a] \in Reader
         /\ [at |-> a, source |-> get[r].source, temp |-> n] \in Reader
BY DEF Reader

LEMMA FetchIs ==
  ASSUME get \in [Readers -> Reader], NEW r \in Readers,
         NEW a \in {"fetch", "place"}, NEW n \in Versions,
         get' = [get EXCEPT ![r].at = a, ![r].temp = n]
  PROVE  /\ get' \in [Readers -> Reader]
         /\ get'[r] = [at |-> a, source |-> get[r].source, temp |-> n]
         /\ \A q \in Readers \ {r} : get'[q] = get[q]
<1>1. get'[r] = [at |-> a, source |-> get[r].source, temp |-> n]
  BY DEF Reader
<1>2. [at |-> a, source |-> get[r].source, temp |-> n] \in Reader
  BY DEF Reader
<1>3. QED
  BY <1>1, <1>2

(* The uploads are where they were, and so is the loop.                    *)
LEMMA ReadersMove ==
  ASSUME Base, up' = up, loop' = loop, NEW r \in Readers,
         \A q \in Readers \ {r} : get'[q] = get[q],
         get'[r].at # "idle" => get'[r].source \in Sources
  PROVE  Named' /\ \A u \in Uploads : up'[u].at = "spool" <=> loop' = u
<1>1. \A u \in Uploads : up'[u].at = "spool" <=> loop' = u
  BY DEF Base, TypeOK
<1>2. Named'
  BY DEF Base, Named
<1>3. QED
  BY <1>1, <1>2

LEMMA ReaderBase ==
  ASSUME Base, NEW r \in Readers,
         \/ \E s \in Sources : Ask(r, s)
         \/ Fetch(r) \/ FetchRefused(r) \/ Fetched(r) \/ Place(r) \/ Listened(r)
  PROVE  Base'
<1> USE DEF Base
<1>0. get[r] \in Reader /\ NoReader.at = "idle" /\ NoReader \in Reader
  BY VersionBounds DEF TypeOK, NoReader, Reader
<1>1. ASSUME NEW s \in Sources, Ask(r, s) PROVE Base'
  <2>1. PICK a \in {"use", "get"} : get' = [get EXCEPT ![r] = [at |-> a, source |-> s, temp |-> 0]]
    BY <1>1 DEF Ask, NoReader
  <2>2. [at |-> a, source |-> s, temp |-> 0] \in Reader
    BY VersionBounds DEF Reader
  <2>3. get' \in [Readers -> Reader] /\ get'[r].source = s
        /\ \A q \in Readers \ {r} : get'[q] = get[q]
    BY <2>1, <2>2, ReaderBecomes DEF TypeOK
  <2>4. up' = up /\ loop' = loop /\ shared' \subseteq Sources
    BY <1>1 DEF TypeOK, Ask
  <2>5. Named' /\ \A u \in Uploads : up'[u].at = "spool" <=> loop' = u
    BY <2>3, <2>4, ReadersMove
  <2>6. UNCHANGED <<store, object, wav, part, row, up, purge, todo, loop, versions, acked,
                  torn, late, crashes>>
    BY <1>1 DEF Ask, files
  <2>7. QED
    BY <2>3, <2>4, <2>5, <2>6 DEF TypeOK
<1>2. CASE Fetch(r)
  <2>1. get[r].source \in Sources /\ up' = up /\ loop' = loop
    BY <1>2 DEF Named, Fetch
  <2>2. object[get[r].source] \in Versions
    BY <2>1 DEF TypeOK
  <2>3. /\ get' \in [Readers -> Reader]
        /\ get'[r] = [at |-> "fetch", source |-> get[r].source, temp |-> object[get[r].source]]
        /\ \A q \in Readers \ {r} : get'[q] = get[q]
    BY <1>2, <2>2, FetchIs DEF TypeOK, Fetch
  <2>4. Named' /\ \A u \in Uploads : up'[u].at = "spool" <=> loop' = u
    BY <2>1, <2>3, ReadersMove
  <2>5. QED
    BY <1>2, <2>3, <2>4 DEF TypeOK, Fetch, files, history
<1>3. CASE FetchRefused(r)
  <2>1. get' \in [Readers -> Reader] /\ \A q \in Readers : get'[q] = IF q = r THEN NoReader ELSE get[q]
    BY <1>3, EndGetType DEF TypeOK, FetchRefused
  <2>2. up' = up /\ loop' = loop
    BY <1>3 DEF FetchRefused
  <2>3. Named' /\ \A u \in Uploads : up'[u].at = "spool" <=> loop' = u
    BY <1>0, <2>1, <2>2, ReadersMove
  <2>4. part' \in [Sources -> File]
    BY <1>3, VersionBounds DEF TypeOK, FetchRefused
  <2>5. QED
    BY <1>3, <2>1, <2>3, <2>4 DEF TypeOK, FetchRefused, history
<1>4. CASE Fetched(r)
  <2>1. get[r].source \in Sources /\ up' = up /\ loop' = loop /\ get[r].temp \in Versions
    BY <1>0, <1>4 DEF Named, Fetched, Reader
  <2>2. /\ get' \in [Readers -> Reader]
        /\ get'[r].at # "idle" => get'[r].source \in Sources
        /\ \A q \in Readers \ {r} : get'[q] = get[q]
    <3>1. CASE get[r].temp # 0
      <4>1. PICK n \in Versions : get' = [get EXCEPT ![r].at = "place", ![r].temp = n]
        BY <1>4, <3>1, VersionBounds DEF Fetched
      <4>2. get'[r] = [at |-> "place", source |-> get[r].source, temp |-> n]
        <5>1. get[r] \in Reader /\ get \in [Readers -> Reader]
          BY <1>0 DEF TypeOK
        <5>2. get' = [get EXCEPT ![r] = [[get[r] EXCEPT !.at = "place"] EXCEPT !.temp = n]]
          BY <4>1
        <5> DEFINE g == [[get[r] EXCEPT !.at = "place"] EXCEPT !.temp = n]
        <5>3. g = [at |-> "place", source |-> get[r].source, temp |-> n]
          <6>1. [get[r] EXCEPT !.at = "place"]
                  = [at |-> "place", source |-> get[r].source, temp |-> get[r].temp]
            BY <5>1 DEF Reader
          <6>2. \A h : h = [at |-> "place", source |-> get[r].source, temp |-> get[r].temp] =>
                  [h EXCEPT !.temp = n] = [at |-> "place", source |-> get[r].source, temp |-> n]
            OBVIOUS
          <6>3. QED
            BY <6>1, <6>2, Zenon
        <5>4. get' = [get EXCEPT ![r] = g]
          BY <5>2
        <5> HIDE DEF g
        <5>5. get'[r] = g
          BY <5>1, <5>4
        <5>6. QED
          BY <5>3, <5>5
      <4>3. get'[r] \in Reader
        BY <1>0, <4>2 DEF Reader
      <4>4. QED
        BY <2>1, <4>1, <4>2, <4>3 DEF TypeOK
    <3>2. CASE get[r].temp = 0
      <4>1. EndGet(r)
        BY <1>4, <3>2 DEF Fetched
      <4>2. QED
        BY <1>0, <4>1, EndGetType DEF TypeOK
    <3>3. QED
      BY <3>1, <3>2
  <2>3. Named' /\ \A u \in Uploads : up'[u].at = "spool" <=> loop' = u
    BY <2>1, <2>2, ReadersMove
  <2>4. part' \in [Sources -> File]
    <3>1. Copy(get[r].temp) \in File
      BY <2>1, CopyType
    <3>2. QED
      BY <1>4, <3>1 DEF TypeOK, Fetched
  <2>5. QED
    BY <1>4, <2>2, <2>3, <2>4 DEF TypeOK, Fetched, history
<1>5. CASE Place(r)
  <2>1. get[r].source \in Sources /\ up' = up /\ loop' = loop
    BY <1>5 DEF Named, Place
  <2>2. /\ get' \in [Readers -> Reader]
        /\ get'[r].at # "idle" => get'[r].source \in Sources
        /\ \A q \in Readers \ {r} : get'[q] = get[q]
    <3>1. CASE EndGet(r)
      BY <1>0, <3>1, EndGetType DEF TypeOK
    <3>2. CASE get' = [get EXCEPT ![r].at = "use"]
      <4>1. get'[r] = [at |-> "use", source |-> get[r].source, temp |-> get[r].temp]
        BY <1>0, <3>2 DEF TypeOK, Reader
      <4>2. get'[r] \in Reader
        BY <1>0, <4>1 DEF Reader
      <4>3. QED
        BY <2>1, <3>2, <4>1, <4>2 DEF TypeOK
    <3>3. QED
      BY <1>5, <3>1, <3>2 DEF Place
  <2>3. Named' /\ \A u \in Uploads : up'[u].at = "spool" <=> loop' = u
    BY <2>1, <2>2, ReadersMove
  <2>4. wav' \in [Sources -> File] /\ part' \in [Sources -> File]
    <3>1. part[get[r].source] \in File
      BY <2>1 DEF TypeOK
    <3>2. QED
      BY <1>5, <3>1, VersionBounds DEF TypeOK, Place
  <2>5. QED
    BY <1>5, <2>2, <2>3, <2>4 DEF TypeOK, Place, history
<1>6. CASE Listened(r)
  <2>1. get' \in [Readers -> Reader] /\ \A q \in Readers : get'[q] = IF q = r THEN NoReader ELSE get[q]
    BY <1>6, EndGetType DEF TypeOK, Listened
  <2>2. up' = up /\ loop' = loop
    BY <1>6 DEF Listened
  <2>3. Named' /\ \A u \in Uploads : up'[u].at = "spool" <=> loop' = u
    BY <1>0, <2>1, <2>2, ReadersMove
  <2>4. QED
    BY <1>6, <2>1, <2>3 DEF TypeOK, Listened, files, history
<1>7. QED
  BY <1>1, <1>2, <1>3, <1>4, <1>5, <1>6

(* The job releases its copies, the purge removes files: readers keep their *)
(* place, at most the file they download to is gone.                        *)
LEMMA OthersBase ==
  ASSUME Base, up' = up, loop' = loop,
         get' \in [Readers -> Reader],
         \A q \in Readers : get'[q].at # "idle" => get'[q].source = get[q].source /\ get[q].at # "idle"
  PROVE  Named' /\ \A u \in Uploads : up'[u].at = "spool" <=> loop' = u
<1>1. \A u \in Uploads : up'[u].at = "spool" <=> loop' = u
  BY DEF Base, TypeOK
<1>2. Named'
  BY DEF Base, Named
<1>3. QED
  BY <1>1, <1>2

LEMMA JobEndsBase ==
  ASSUME Base, JobEnds
  PROVE  Base'
<1> USE DEF Base
<1> DEFINE g == [get EXCEPT ![Worker] = NoReader]
<1>0. NoReader.at = "idle" /\ NoReader \in Reader /\ Worker \in Readers
  BY VersionBounds DEF NoReader, Reader, Readers
<1>1. g \in [Readers -> Reader] /\ \A q \in Readers : g[q] = IF q = Worker THEN NoReader ELSE get[q]
  BY <1>0 DEF TypeOK
<1>2. /\ get' \in [Readers -> Reader]
      /\ \A q \in Readers : get'[q].at # "idle" => get'[q].source = get[q].source /\ get[q].at # "idle"
  <2>1. CASE get' = g
    BY <1>0, <1>1, <2>1
  <2>2. CASE get' = WithoutTemp(g)
    <3>1. /\ WithoutTemp(g) \in [Readers -> Reader]
          /\ \A q \in Readers : WithoutTemp(g)[q].at = g[q].at /\ WithoutTemp(g)[q].source = g[q].source
      BY <1>1, WithoutTempType
    <3>2. QED
      BY <1>0, <1>1, <2>2, <3>1
  <2>3. QED
    BY <2>1, <2>2 DEF JobEnds
<1>3. up' = up /\ loop' = loop
  BY DEF JobEnds
<1>4. Named' /\ \A u \in Uploads : up'[u].at = "spool" <=> loop' = u
  BY <1>2, <1>3, OthersBase
<1>5. wav' \in [Sources -> File] /\ part' \in [Sources -> File]
  BY RmtreeType DEF TypeOK, JobEnds
<1>6. QED
  BY <1>2, <1>4, <1>5 DEF TypeOK, JobEnds, history

LEMMA PurgeBase ==
  ASSUME Base,
         \/ PurgeStart \/ \E s \in Sources : DeleteObject(s)
         \/ PurgeFiles \/ PurgeFails \/ PurgeRows
  PROVE  Base'
<1> USE DEF Base
<1>1. CASE PurgeStart
  <2>1. Named' /\ \A u \in Uploads : up'[u].at = "spool" <=> loop' = u
    BY <1>1, OthersBase DEF TypeOK, PurgeStart
  <2>2. acked' \in [Sources -> Versions] /\ late' \in BOOLEAN /\ todo' \subseteq Sources
        /\ purge' \in {"objects", "rmtree"}
    BY <1>1, VersionBounds DEF TypeOK, PurgeStart
  <2>3. QED
    BY <1>1, <2>1, <2>2 DEF TypeOK, PurgeStart, files
<1>2. ASSUME NEW s \in Sources, DeleteObject(s) PROVE Base'
  <2>1. Named' /\ \A u \in Uploads : up'[u].at = "spool" <=> loop' = u
    BY <1>2, OthersBase DEF TypeOK, DeleteObject
  <2>2. object' \in [Sources -> Versions] /\ todo' \subseteq Sources
        /\ purge' \in {"objects", "rmtree"}
    BY <1>2, VersionBounds DEF TypeOK, DeleteObject
  <2>3. QED
    BY <1>2, <2>1, <2>2 DEF TypeOK, DeleteObject, history
<1>3. CASE PurgeFiles
  <2>1. /\ get' \in [Readers -> Reader]
        /\ \A q \in Readers : get'[q].at = get[q].at /\ get'[q].source = get[q].source
    BY <1>3, WithoutTempType DEF TypeOK, PurgeFiles
  <2>2. Named' /\ \A u \in Uploads : up'[u].at = "spool" <=> loop' = u
    BY <1>3, <2>1, OthersBase DEF PurgeFiles
  <2>3. wav' \in [Sources -> File] /\ part' \in [Sources -> File]
    BY <1>3, RmtreeType DEF PurgeFiles
  <2>4. QED
    BY <1>3, <2>1, <2>2, <2>3 DEF TypeOK, PurgeFiles, history
<1>4. CASE PurgeFails
  <2>1. Named' /\ \A u \in Uploads : up'[u].at = "spool" <=> loop' = u
    BY <1>4, OthersBase DEF TypeOK, PurgeFails
  <2>2. QED
    BY <1>4, <2>1 DEF TypeOK, PurgeFails, files, history
<1>5. CASE PurgeRows
  <2>1. Named' /\ \A u \in Uploads : up'[u].at = "spool" <=> loop' = u
    BY <1>5, OthersBase DEF TypeOK, PurgeRows
  <2>2. QED
    BY <1>5, <2>1 DEF TypeOK, PurgeRows, files, history
<1>6. QED
  BY <1>1, <1>2, <1>3, <1>4, <1>5

LEMMA CrashBase ==
  ASSUME Base, Crash
  PROVE  Base'
<1> USE DEF Base
<1>1. NoUpload \in Upload /\ NoReader \in Reader /\ NoUpload.at = "idle" /\ NoReader.at = "idle"
  BY VersionBounds DEF NoUpload, NoReader, Upload, Reader
<1>2. /\ up' \in [Uploads -> Upload] /\ get' \in [Readers -> Reader]
      /\ \A u \in Uploads : up'[u].at = "idle"
      /\ \A r \in Readers : get'[r].at = "idle"
  BY <1>1 DEF Crash
<1>3. Named' /\ \A u \in Uploads : up'[u].at = "spool" <=> loop' = u
  BY <1>2, NoneAssumption DEF Named, Crash
<1>4. crashes' \in 0..MaxCrashes /\ loop' = None /\ purge' = "idle" /\ todo' = {}
  BY BoundsAssumption DEF TypeOK, Crash
<1>5. UNCHANGED <<store, object, row, versions, acked, torn, shared, late>>
  BY DEF Crash
<1>6. wav' \in [Sources -> File] /\ part' \in [Sources -> File]
  BY RmtreeType DEF TypeOK, Crash
<1>7. QED
  BY <1>2, <1>3, <1>4, <1>5, <1>6 DEF TypeOK

LEMMA StutterBase ==
  ASSUME Base, UNCHANGED vars
  PROVE  Base'
BY DEF Base, TypeOK, Named, vars, files, history

LEMMA NextBase == Base /\ [Next]_vars => Base'
<1> SUFFICES ASSUME Base, [Next]_vars PROVE Base'
  OBVIOUS
<1>1. QED
  BY UploadBase, ReaderBase, JobEndsBase, PurgeBase, CrashBase, StutterBase DEF Next

(***************************************************************************)
(* Every variable keeps its type, an upload holds the event loop exactly   *)
(* while it copies, whatever requests, the job, a purge and a crash do to  *)
(* the same folder.                                                        *)
(***************************************************************************)
THEOREM AudioTypeCorrect == Spec => []TypeOK
<1>1. Base => TypeOK
  BY DEF Base
<1>2. QED
  BY InitBase, NextBase, <1>1, PTL DEF Spec

-----------------------------------------------------------------------------
(* What a reader is about to rename is complete or torn, unless the upload *)
(* that holds the loop writes to the same name: then the reader has to wait *)
(* for the loop, and the upload takes the file away before it gives the    *)
(* loop back - or fails, which makes it a torn one.                        *)
PartIsWhole ==
    \A r \in Readers : get[r].at = "place" =>
        LET f == part[get[r].source] IN
        \/ f = NoFile \/ f.whole \/ f.version \in torn
        \/ loop \in Uploads /\ up[loop].source = get[r].source /\ up[loop].version = f.version

WholeInv == Base /\ FinishedIsWhole /\ PartIsWhole

LEMMA InitWhole == Init => WholeInv
<1> SUFFICES ASSUME Init PROVE WholeInv
  OBVIOUS
<1>1. FinishedIsWhole
  BY DEF Init, FinishedIsWhole
<1>2. NoReader.at # "place"
  BY DEF NoReader
<1>3. PartIsWhole
  BY <1>2 DEF Init, PartIsWhole
<1>4. QED
  BY <1>1, <1>3, InitBase DEF WholeInv

LEMMA UploadWhole ==
  ASSUME WholeInv, NEW u \in Uploads,
         \/ \E s \in Sources : UploadStart(u, s)
         \/ UploadRefused(u) \/ SpoolStart(u) \/ SpoolEnd(u) \/ SpoolFails(u)
         \/ Send(u) \/ SendFails(u) \/ Sent(u)
  PROVE  FinishedIsWhole' /\ PartIsWhole'
<1> USE DEF WholeInv
<1>0. up \in [Uploads -> Upload] /\ (up[u].at = "spool" <=> loop = u) /\ u # None
      /\ wav \in [Sources -> File] /\ part \in [Sources -> File]
  BY NoneAssumption DEF Base, TypeOK
<1>1. CASE /\ UNCHANGED <<wav, part, get, loop, torn>> /\ up[u].at # "spool"
           /\ \A v \in Uploads \ {u} : up'[v] = up[v]
  <2>1. FinishedIsWhole'
    BY <1>1 DEF FinishedIsWhole
  <2>5. loop # u
    BY <1>0, <1>1
  <2>2. loop \in Uploads => up'[loop] = up[loop]
    BY <1>1, <2>5
  <2>3. PartIsWhole'
    BY <1>1, <2>2 DEF PartIsWhole
  <2>4. QED
    BY <2>1, <2>3
<1>2. ASSUME NEW s \in Sources, UploadStart(u, s)
      PROVE  /\ UNCHANGED <<wav, part, get, loop, torn>> /\ up[u].at # "spool"
             /\ \A v \in Uploads \ {u} : up'[v] = up[v]
  BY <1>0, <1>2 DEF UploadStart, files
<1>3. ASSUME UploadRefused(u) \/ SendFails(u) \/ Sent(u)
      PROVE  /\ UNCHANGED <<wav, part, get, loop, torn>> /\ up[u].at # "spool"
             /\ \A v \in Uploads \ {u} : up'[v] = up[v]
  BY <1>0, <1>3 DEF UploadRefused, SendFails, Sent, EndUpload, files, history
<1>4. ASSUME Send(u)
      PROVE  /\ UNCHANGED <<wav, part, get, loop, torn>> /\ up[u].at # "spool"
             /\ \A v \in Uploads \ {u} : up'[v] = up[v]
  BY <1>0, <1>4 DEF Send, files, history
<1>5. CASE SpoolStart(u)
  <2> DEFINE n == versions + 1
             f == [version |-> n, whole |-> FALSE]
  <2>1. loop' = u /\ loop = None /\ wav' = wav /\ get' = get /\ torn' = torn
    BY <1>5 DEF SpoolStart
  <2>2. up'[u].source = up[u].source /\ up'[u].version = n
    <3>1. up' = [up EXCEPT ![u].at = "spool", ![u].version = n]
      BY <1>5 DEF SpoolStart
    <3>2. up[u] \in Upload
      BY <1>0
    <3> HIDE DEF n
    <3>3. QED
      BY <1>0, <3>1, <3>2 DEF Upload
  <2>3. \A s \in Sources : part'[s] = IF s = up[u].source THEN f ELSE part[s]
    <3>1. part' = [part EXCEPT ![up[u].source] = f]
      BY <1>5 DEF SpoolStart
    <3> HIDE DEF f
    <3>2. QED
      BY <1>0, <3>1
  <2>4. FinishedIsWhole'
    BY <2>1 DEF FinishedIsWhole
  <2>5. ASSUME NEW r \in Readers, get[r].at = "place", get[r].source = up[u].source
        PROVE  part'[get[r].source].version = up'[u].version
    BY <2>2, <2>3, <2>5 DEF Base, Named
  <2>6. ASSUME NEW r \in Readers, get[r].at = "place", get[r].source # up[u].source
        PROVE  part'[get[r].source] = part[get[r].source] /\ get[r].source \in Sources
    BY <2>3, <2>6 DEF Base, Named
  <2> HIDE DEF n, f
  <2>7. PartIsWhole'
    BY <2>1, <2>2, <2>5, <2>6, NoneAssumption DEF PartIsWhole
  <2>8. QED
    BY <2>4, <2>7
<1>6. CASE SpoolEnd(u)
  <2> DEFINE s == up[u].source
  <2>1. loop = u /\ loop' = None /\ get' = get /\ torn' = torn /\ s \in Sources
    BY <1>0, <1>6 DEF SpoolEnd, Base, Named
  <2>2. \A q \in Sources : q # s => part'[q] = part[q] /\ wav'[q] = wav[q]
    BY <1>0, <1>6 DEF SpoolEnd
  <2>3. part'[s] = NoFile
        /\ (wav'[s] = wav[s] \/ wav'[s].whole \/ wav'[s].version \in torn)
    <3>1. CASE part[s] = NoFile
      BY <1>6, <3>1 DEF SpoolEnd
    <3>2. CASE part[s] # NoFile
      <4>1. /\ wav' = [wav EXCEPT ![s] = Copy(part[s].version)]
            /\ part' = [part EXCEPT ![s] = NoFile]
        BY <1>6, <3>2 DEF SpoolEnd
      <4>2. Copy(part[s].version).whole \/ Copy(part[s].version).version \in torn
        BY <1>0, <2>1, CopyType DEF File
      <4>3. QED
        BY <1>0, <2>1, <4>1, <4>2
    <3>3. QED
      BY <3>1, <3>2
  <2>4. FinishedIsWhole'
    BY <2>1, <2>2, <2>3 DEF FinishedIsWhole
  <2>5. PartIsWhole'
    BY <2>1, <2>2, <2>3 DEF PartIsWhole, Base, Named
  <2>6. QED
    BY <2>4, <2>5
(* Whoever is past its download has its upload in torn.                    *)
<1>7. CASE SpoolFails(u)
  <2>1. loop = u /\ UNCHANGED <<wav, part, get>> /\ torn \subseteq torn'
    BY <1>7 DEF SpoolFails, files
  <2>2. FinishedIsWhole'
    BY <2>1 DEF FinishedIsWhole
  <2>3. ASSUME NEW r \in Readers, get[r].at = "place", get[r].source = up[u].source
        PROVE  up[u].version \in torn'
    BY <1>7, <2>3 DEF SpoolFails
  <2>4. PartIsWhole'
    BY <2>1, <2>3 DEF PartIsWhole
  <2>5. QED
    BY <2>2, <2>4
<1>8. QED
  BY <1>1, <1>2, <1>3, <1>4, <1>5, <1>6, <1>7

LEMMA ReaderWhole ==
  ASSUME WholeInv, NEW r \in Readers,
         \/ \E s \in Sources : Ask(r, s)
         \/ Fetch(r) \/ FetchRefused(r) \/ Fetched(r) \/ Place(r) \/ Listened(r)
  PROVE  FinishedIsWhole' /\ PartIsWhole'
<1> USE DEF WholeInv
<1>0. /\ get \in [Readers -> Reader]
      /\ wav \in [Sources -> File] /\ part \in [Sources -> File]
      /\ \A q \in Readers : get[q].at # "idle" => get[q].source \in Sources
      /\ NoReader.at = "idle"
  BY DEF Base, TypeOK, Named, NoReader
(* The reader does not come to "place", the files stay or one is removed.  *)
<1>1. CASE /\ wav' = wav /\ up' = up /\ loop' = loop /\ torn' = torn
           /\ \A s \in Sources : part'[s] = part[s] \/ part'[s] = NoFile
           /\ get'[r].at # "place"
           /\ \A q \in Readers \ {r} : get'[q] = get[q]
  <2>1. FinishedIsWhole'
    BY <1>1 DEF FinishedIsWhole
  <2>2. PartIsWhole'
    BY <1>0, <1>1 DEF PartIsWhole
  <2>3. QED
    BY <2>1, <2>2
<1>2. ASSUME NEW s \in Sources, Ask(r, s) PROVE FinishedIsWhole' /\ PartIsWhole'
  <2>1. wav' = wav /\ up' = up /\ loop' = loop /\ torn' = torn /\ part' = part
    BY <1>2 DEF Ask, files, history
  <2>2. get'[r].at # "place" /\ \A q \in Readers \ {r} : get'[q] = get[q]
    BY <1>0, <1>2 DEF Ask, NoReader
  <2>3. QED
    BY <1>1, <2>1, <2>2
<1>3. CASE Fetch(r)
  <2>1. wav' = wav /\ up' = up /\ loop' = loop /\ torn' = torn /\ part' = part
    BY <1>3 DEF Fetch, files, history
  <2>2. get'[r].at # "place" /\ \A q \in Readers \ {r} : get'[q] = get[q]
    BY <1>0, <1>3 DEF Fetch, Reader
  <2>3. QED
    BY <1>1, <2>1, <2>2
<1>4. CASE FetchRefused(r)
  <2>1. wav' = wav /\ up' = up /\ loop' = loop /\ torn' = torn /\ get'[r].at = "idle"
        /\ \A q \in Readers \ {r} : get'[q] = get[q]
    BY <1>0, <1>4 DEF FetchRefused, EndGet, history
  <2>2. \A s \in Sources : part'[s] = part[s] \/ part'[s] = NoFile
    BY <1>0, <1>4 DEF FetchRefused
  <2>3. QED
    BY <1>1, <2>1, <2>2
<1>5. CASE Listened(r)
  <2>1. wav' = wav /\ up' = up /\ loop' = loop /\ torn' = torn /\ part' = part
    BY <1>5 DEF Listened, files, history
  <2>2. get'[r].at # "place" /\ \A q \in Readers \ {r} : get'[q] = get[q]
    BY <1>0, <1>5 DEF Listened, EndGet
  <2>3. QED
    BY <1>1, <2>1, <2>2
<1>6. CASE Fetched(r)
  <2>1. wav' = wav /\ up' = up /\ loop' = loop /\ torn' = torn
    BY <1>6 DEF Fetched, history
  <2>2. CASE get[r].temp = 0
    <3>1. EndGet(r) /\ part' = part
      BY <1>6, <2>2 DEF Fetched
    <3>2. QED
      BY <1>0, <1>1, <2>1, <3>1 DEF EndGet
  <2>3. CASE get[r].temp # 0
    <3>1. part' = [part EXCEPT ![get[r].source] = Copy(get[r].temp)]
          /\ \A q \in Readers \ {r} : get'[q] = get[q]
      BY <1>0, <1>6, <2>3 DEF Fetched
    <3>2. get'[r].source = get[r].source /\ get[r].source \in Sources
      BY <1>0, <1>6, <2>3 DEF Fetched, Reader
    <3>3. (part'[get[r].source].whole \/ part'[get[r].source].version \in torn)
          /\ \A s \in Sources : s # get[r].source => part'[s] = part[s]
      <4>1. get[r].temp \in Versions
        BY DEF Base, TypeOK, Reader
      <4>2. QED
        BY <1>0, <3>1, <3>2, <4>1, CopyType
    <3>4. FinishedIsWhole'
      BY <2>1 DEF FinishedIsWhole
    <3>5. PartIsWhole'
      BY <1>0, <2>1, <3>1, <3>2, <3>3 DEF PartIsWhole
    <3>6. QED
      BY <3>4, <3>5
  <2>4. QED
    BY <2>2, <2>3
<1>7. CASE Place(r)
  <2> DEFINE s == get[r].source
  <2>1. up' = up /\ loop = None /\ loop' = None /\ torn' = torn /\ s \in Sources
        /\ (part[s] = NoFile \/ part[s].whole \/ part[s].version \in torn)
    BY <1>0, <1>7, NoneAssumption DEF Place, PartIsWhole, history
  <2>2. CASE part[s] = NoFile
    BY <1>0, <1>1, <1>7, <2>1, <2>2 DEF Place, EndGet
  <2>3. CASE part[s] # NoFile
    <3>1. wav' = [wav EXCEPT ![s] = part[s]] /\ part' = [part EXCEPT ![s] = NoFile]
          /\ \A q \in Readers \ {r} : get'[q] = get[q]
      BY <1>0, <1>7, <2>3 DEF Place
    <3>2. get'[r].at = "use"
      BY <1>0, <1>7, <2>3 DEF Place, Reader
    <3>3. FinishedIsWhole'
      BY <1>0, <2>1, <2>3, <3>1 DEF FinishedIsWhole
    <3>4. PartIsWhole'
      BY <1>0, <2>1, <3>1, <3>2 DEF PartIsWhole
    <3>5. QED
      BY <3>3, <3>4
  <2>4. QED
    BY <2>2, <2>3
<1>8. QED
  BY <1>2, <1>3, <1>4, <1>5, <1>6, <1>7

LEMMA OthersWhole ==
  ASSUME WholeInv,
         \/ JobEnds
         \/ PurgeStart \/ \E s \in Sources : DeleteObject(s)
         \/ PurgeFiles \/ PurgeFails \/ PurgeRows
         \/ Crash
         \/ UNCHANGED vars
  PROVE  FinishedIsWhole' /\ PartIsWhole'
<1> USE DEF WholeInv
<1>0. get \in [Readers -> Reader] /\ NoReader.at = "idle" /\ Worker \in Readers
      /\ NoReader \in Reader
      /\ \A q \in Readers : get[q].at # "idle" => get[q].source \in Sources
  BY VersionBounds DEF Base, TypeOK, Named, NoReader, Reader, Readers
(* Either nothing happens to the files, or all of them are removed.        *)
<1>1. CASE /\ UNCHANGED <<wav, part, up, loop, torn>>
           /\ \A r \in Readers : get'[r].at = "place" => get'[r] = get[r]
  <2>1. FinishedIsWhole'
    BY <1>1 DEF FinishedIsWhole
  <2>2. PartIsWhole'
    BY <1>1 DEF PartIsWhole
  <2>3. QED
    BY <2>1, <2>2
<1>2. CASE Rmtree /\ \A r \in Readers : get'[r].at = "place" => get'[r].source \in Sources
  <2>1. FinishedIsWhole'
    BY <1>2 DEF FinishedIsWhole, Rmtree
  <2>2. PartIsWhole'
    BY <1>2 DEF PartIsWhole, Rmtree
  <2>3. QED
    BY <2>1, <2>2
<1>3. CASE JobEnds
  <2> DEFINE g == [get EXCEPT ![Worker] = NoReader]
  <2>1. g \in [Readers -> Reader] /\ \A q \in Readers : g[q] = IF q = Worker THEN NoReader ELSE get[q]
    BY <1>0
  <2>2. CASE store = "s3"
    <3>1. Rmtree /\ get' = WithoutTemp(g)
      BY <1>3, <2>2 DEF JobEnds
    <3>2. \A q \in Readers : WithoutTemp(g)[q].at = g[q].at /\ WithoutTemp(g)[q].source = g[q].source
      BY <2>1, WithoutTempType
    <3>3. QED
      BY <1>0, <1>2, <2>1, <3>1, <3>2
  <2>3. CASE store # "s3"
    BY <1>0, <1>1, <1>3, <2>1, <2>3 DEF JobEnds, history
  <2>4. QED
    BY <2>2, <2>3
<1>4. CASE PurgeFiles
  <2>1. \A q \in Readers : get'[q].at = get[q].at /\ get'[q].source = get[q].source
    BY <1>0, <1>4, WithoutTempType DEF PurgeFiles
  <2>2. QED
    BY <1>0, <1>2, <1>4, <2>1 DEF PurgeFiles
<1>5. CASE PurgeStart \/ (\E s \in Sources : DeleteObject(s)) \/ PurgeFails \/ PurgeRows
  BY <1>1, <1>5 DEF PurgeStart, DeleteObject, PurgeFails, PurgeRows, files, history
<1>6. CASE Crash
  <2>1. FinishedIsWhole'
    <3>1. torn' = torn /\ (Rmtree \/ wav' = wav)
      BY <1>6 DEF Crash
    <3>2. QED
      BY <3>1 DEF FinishedIsWhole, Rmtree
  <2>2. \A r \in Readers : get'[r].at = "idle"
    BY <1>0, <1>6 DEF Crash
  <2>3. PartIsWhole'
    BY <2>2 DEF PartIsWhole
  <2>4. QED
    BY <2>1, <2>3
<1>7. CASE UNCHANGED vars
  BY <1>1, <1>7 DEF vars, files, history
<1>8. QED
  BY <1>3, <1>4, <1>5, <1>6, <1>7

(***************************************************************************)
(* A file under its final name is a complete one, for any number of        *)
(* uploads and listeners on the same names, across purges, crashes and     *)
(* failing writes - but for an upload that failed while a reader past its  *)
(* download waited for the loop.                                           *)
(***************************************************************************)
THEOREM FinishedFilesAreWhole == Spec => []FinishedIsWhole
<1>1. WholeInv /\ [Next]_vars => WholeInv'
  <2> SUFFICES ASSUME WholeInv, [Next]_vars PROVE WholeInv'
    OBVIOUS
  <2>1. Base'
    BY NextBase DEF WholeInv
  <2>2. FinishedIsWhole' /\ PartIsWhole'
    BY UploadWhole, ReaderWhole, OthersWhole DEF Next
  <2>3. QED
    BY <2>1, <2>2 DEF WholeInv
<1>2. WholeInv => FinishedIsWhole
  BY DEF WholeInv
<1>3. QED
  BY InitWhole, <1>1, <1>2, PTL DEF Spec

-----------------------------------------------------------------------------
(* Nothing of a purged meeting is left.                                    *)

(* LocalStorage knows no object store.                                     *)
LocalHasNoObjects ==
    store = "local" => /\ \A s \in Sources : object[s] = 0
                       /\ \A u \in Uploads : up[u].at \notin {"send", "sending"}

Quiet == ~late /\ Purging => \A u \in Uploads : up[u].at = "idle"

(* Objects that the purge has passed are gone, and no upload brings them   *)
(* back.                                                                   *)
ObjectsGone ==
    /\ ~late /\ purge = "objects" => \A s \in Sources \ todo : object[s] = 0
    /\ ~late /\ purge \in {"rmtree", "rows"} => \A s \in Sources : object[s] = 0

(* So are the files, and a download that had begun has lost its own.       *)
FilesGone ==
    ~late /\ (purge = "rows" \/ ~row) =>
        /\ \A s \in Sources : object[s] = 0 /\ wav[s] = NoFile /\ part[s] = NoFile
        /\ \A r \in Readers : get[r].temp = 0

PurgeOver == ~row => purge = "idle"

PurgeInv == Base /\ LocalHasNoObjects /\ Quiet /\ ObjectsGone /\ FilesGone /\ PurgeOver

Purged == LocalHasNoObjects /\ Quiet /\ ObjectsGone /\ FilesGone /\ PurgeOver

LEMMA InitPurge == Init => PurgeInv
<1> SUFFICES ASSUME Init PROVE PurgeInv
  OBVIOUS
<1>1. NoUpload.at = "idle"
  BY DEF NoUpload
<1>2. LocalHasNoObjects
  BY <1>1 DEF Init, LocalHasNoObjects
<1>3. row /\ purge = "idle"
  BY DEF Init
<1>4. QED
  BY <1>2, <1>3, InitBase DEF PurgeInv, Quiet, Purging, ObjectsGone, FilesGone, PurgeOver

(* An upload that does not put an object, and that is refused once the     *)
(* purge has begun or makes it a late one.                                 *)
LEMMA UploadPurged ==
  ASSUME PurgeInv, NEW u \in Uploads,
         \/ \E s \in Sources : UploadStart(u, s)
         \/ UploadRefused(u) \/ SpoolStart(u) \/ SpoolEnd(u) \/ SpoolFails(u)
         \/ Send(u) \/ SendFails(u) \/ Sent(u)
  PROVE  Purged'
<1> USE DEF PurgeInv
<1>0. /\ up \in [Uploads -> Upload] /\ NoUpload.at = "idle" /\ u # None
      /\ object \in [Sources -> Versions]
      /\ up[u].at = "spool" <=> loop = u
  BY NoneAssumption DEF Base, TypeOK, NoUpload
(* A new upload: no purge is under way, or it is a late one.               *)
<1>1. CASE \E s \in Sources : UploadStart(u, s)
  <2>1. UNCHANGED <<store, object, wav, part, row, purge, todo, get>>
        /\ late' = (late \/ Purging)
    BY <1>1 DEF UploadStart, files
  <2>2. /\ up'[u].at = "body"
        /\ \A v \in Uploads \ {u} : up'[v] = up[v]
    BY <1>0, <1>1 DEF UploadStart, NoUpload
  <2>3. LocalHasNoObjects'
    BY <2>1, <2>2 DEF LocalHasNoObjects
  <2>4. Quiet' /\ PurgeOver'
    BY <2>1 DEF Quiet, Purging, PurgeOver
  <2>5. ObjectsGone' /\ FilesGone'
    BY <2>1 DEF ObjectsGone, FilesGone, Purging
  <2>6. QED
    BY <2>3, <2>4, <2>5 DEF Purged
(* Every other step of an upload that is under way: the purge has not      *)
(* begun, or it is a late one.                                             *)
<1>2. CASE ~ \E s \in Sources : UploadStart(u, s)
  <2>1. up[u].at # "idle"
    BY <1>0, <1>2 DEF UploadRefused, SpoolStart, SpoolEnd, SpoolFails, Send, SendFails, Sent
  <2>2. late \/ ~Purging
    BY <2>1 DEF Quiet
  <2>3. /\ UNCHANGED <<store, row, purge, late>>
        /\ object' = object \/ Sent(u)
    BY <1>2 DEF UploadRefused, SpoolStart, SpoolEnd, SpoolFails, Send, SendFails, Sent, files, history
  <2>4. Quiet' /\ ObjectsGone' /\ FilesGone' /\ PurgeOver'
    BY <2>2, <2>3 DEF Quiet, ObjectsGone, FilesGone, PurgeOver, Purging
  <2>5. LocalHasNoObjects'
    <3>1. CASE store # "local"
      BY <2>3, <3>1 DEF LocalHasNoObjects
    <3>2. CASE store = "local"
      <4>1. up[u].at \notin {"send", "sending"}
        BY <3>2 DEF LocalHasNoObjects
      <4>2. object' = object
        BY <2>3, <4>1 DEF Sent
      <4>3. up'[u].at \notin {"send", "sending"}
        <5>1. CASE UploadRefused(u) \/ SpoolFails(u)
          BY <1>0, <5>1 DEF UploadRefused, SpoolFails, EndUpload
        <5>2. CASE SpoolStart(u)
          BY <1>0, <5>2 DEF SpoolStart, Upload
        <5>3. CASE SpoolEnd(u)
          BY <1>0, <3>2, <5>3 DEF SpoolEnd, EndUpload
        <5>4. QED
          BY <1>2, <4>1, <5>1, <5>2, <5>3 DEF Send, SendFails, Sent
      <4>4. \A v \in Uploads \ {u} : up'[v] = up[v]
        BY <1>0, <1>2 DEF UploadRefused, SpoolStart, SpoolEnd, SpoolFails, Send, SendFails, Sent, EndUpload
      <4>5. QED
        BY <2>3, <3>2, <4>2, <4>3, <4>4 DEF LocalHasNoObjects
    <3>3. QED
      BY <3>1, <3>2
  <2>6. QED
    BY <2>4, <2>5 DEF Purged
<1>3. QED
  BY <1>1, <1>2

LEMMA ReaderPurged ==
  ASSUME PurgeInv, NEW r \in Readers,
         \/ \E s \in Sources : Ask(r, s)
         \/ Fetch(r) \/ FetchRefused(r) \/ Fetched(r) \/ Place(r) \/ Listened(r)
  PROVE  Purged'
<1> USE DEF PurgeInv
<1>0. /\ get \in [Readers -> Reader] /\ NoReader.temp = 0
      /\ wav \in [Sources -> File] /\ part \in [Sources -> File]
      /\ \A q \in Readers : get[q].at # "idle" => get[q].source \in Sources
  BY DEF Base, TypeOK, Named, NoReader
<1>1. UNCHANGED <<store, object, row, up, purge, todo, late>>
  BY DEF Ask, Fetch, FetchRefused, Fetched, Place, Listened, files, history
<1>2. LocalHasNoObjects' /\ Quiet' /\ ObjectsGone' /\ PurgeOver'
  BY <1>1 DEF LocalHasNoObjects, Quiet, ObjectsGone, PurgeOver, Purging
(* With nothing to download and no file, a reader brings nothing.          *)
<1>3. FilesGone'
  <2> SUFFICES ASSUME ~late, purge = "rows" \/ ~row
               PROVE  /\ \A s \in Sources : wav'[s] = NoFile /\ part'[s] = NoFile
                      /\ \A q \in Readers : get'[q].temp = 0
    BY <1>1 DEF FilesGone
  <2>1. /\ \A s \in Sources : object[s] = 0 /\ wav[s] = NoFile /\ part[s] = NoFile
        /\ \A q \in Readers : get[q].temp = 0
    BY DEF FilesGone
  <2>2. CASE /\ UNCHANGED <<wav, part>> /\ get'[r].temp = 0
             /\ \A q \in Readers \ {r} : get'[q] = get[q]
    BY <2>1, <2>2
  <2>3. CASE \E s \in Sources : Ask(r, s)
    <3>1. UNCHANGED <<wav, part>>
      BY <2>3 DEF Ask, files
    <3>2. /\ get'[r].temp = 0
          /\ \A q \in Readers \ {r} : get'[q] = get[q]
      BY <1>0, <2>3 DEF Ask, NoReader
    <3>3. QED
      BY <2>2, <3>1, <3>2
  <2>4. CASE Fetch(r)
    BY <1>0, <2>1, <2>4 DEF Fetch
  <2>5. CASE FetchRefused(r)
    <3>1. /\ wav' = wav /\ get'[r].temp = 0
          /\ \A q \in Readers \ {r} : get'[q] = get[q]
      BY <1>0, <2>5 DEF FetchRefused, EndGet
    <3>2. \A s \in Sources : part'[s] = NoFile
      BY <1>0, <2>1, <2>5 DEF FetchRefused
    <3>3. QED
      BY <2>1, <3>1, <3>2
  <2>6. CASE Fetched(r)
    <3>1. EndGet(r) /\ UNCHANGED <<wav, part>>
      BY <2>1, <2>6 DEF Fetched
    <3>2. QED
      BY <1>0, <2>2, <3>1 DEF EndGet
  <2>7. CASE Place(r)
    <3>1. EndGet(r) /\ UNCHANGED <<wav, part>>
      BY <1>0, <2>1, <2>7 DEF Place
    <3>2. QED
      BY <1>0, <2>2, <3>1 DEF EndGet
  <2>8. CASE Listened(r)
    <3>1. EndGet(r) /\ UNCHANGED <<wav, part>>
      BY <2>8 DEF Listened, files
    <3>2. QED
      BY <1>0, <2>2, <3>1 DEF EndGet
  <2>9. QED
    BY <2>3, <2>4, <2>5, <2>6, <2>7, <2>8
<1>4. QED
  BY <1>2, <1>3 DEF Purged

LEMMA JobPurged ==
  ASSUME PurgeInv, JobEnds
  PROVE  Purged'
<1> USE DEF PurgeInv
<1>1. UNCHANGED <<store, object, row, up, purge, todo, late>>
  BY DEF JobEnds, history
<1>2. LocalHasNoObjects' /\ Quiet' /\ ObjectsGone' /\ PurgeOver'
  BY <1>1 DEF LocalHasNoObjects, Quiet, ObjectsGone, PurgeOver, Purging
<1>3. \A s \in Sources : /\ wav'[s] = wav[s] \/ wav'[s] = NoFile
                         /\ part'[s] = part[s] \/ part'[s] = NoFile
  BY DEF JobEnds, Rmtree
<1>4. \A q \in Readers : get'[q].temp = get[q].temp \/ get'[q].temp = 0
  <2> DEFINE g == [get EXCEPT ![Worker] = NoReader]
  <2>1. g \in [Readers -> Reader] /\ \A q \in Readers : g[q] = get[q] \/ g[q].temp = 0
    BY VersionBounds DEF Base, TypeOK, NoReader, Reader
  <2>2. \A q \in Readers : WithoutTemp(g)[q].temp = 0
    BY <2>1, WithoutTempType
  <2>3. get' = g \/ get' = WithoutTemp(g)
    BY DEF JobEnds
  <2>4. QED
    BY <2>1, <2>2, <2>3
<1>5. FilesGone'
  BY <1>1, <1>3, <1>4 DEF FilesGone
<1>6. QED
  BY <1>2, <1>5 DEF Purged

LEMMA PurgePurged ==
  ASSUME PurgeInv,
         \/ PurgeStart \/ \E s \in Sources : DeleteObject(s)
         \/ PurgeFiles \/ PurgeFails \/ PurgeRows
         \/ Crash
         \/ UNCHANGED vars
  PROVE  Purged'
<1> USE DEF PurgeInv
<1>0. /\ object \in [Sources -> Versions] /\ get \in [Readers -> Reader] /\ store \in {"local", "s3"}
      /\ NoUpload.at = "idle" /\ NoReader.temp = 0
  BY StoresAssumption DEF Base, TypeOK, NoUpload, NoReader
<1>1. CASE PurgeStart
  <2>1. UNCHANGED <<store, object, row, up>> /\ row
        /\ (late' = (late \/ \E u \in Uploads : up[u].at # "idle"))
    BY <1>1 DEF PurgeStart, files
  <2>2. LocalHasNoObjects' /\ Quiet' /\ PurgeOver'
    BY <2>1 DEF LocalHasNoObjects, Quiet, PurgeOver
  <2>3. ObjectsGone'
    BY <1>0, <1>1, <2>1 DEF PurgeStart, ObjectsGone, LocalHasNoObjects
  <2>4. FilesGone'
    BY <1>1, <2>1 DEF PurgeStart, FilesGone
  <2>5. QED
    BY <2>2, <2>3, <2>4 DEF Purged
<1>2. ASSUME NEW s \in Sources, DeleteObject(s) PROVE Purged'
  <2>1. /\ UNCHANGED <<store, row, up, late>> /\ purge = "objects" /\ purge' # "idle" /\ purge' # "rows"
        /\ todo' = todo \ {s} /\ object'[s] = 0
        /\ \A q \in Sources : object'[q] = object[q] \/ object'[q] = 0
        /\ purge' = "rmtree" => todo' = {}
    BY <1>0, <1>2 DEF DeleteObject, history
  <2>2. LocalHasNoObjects' /\ Quiet' /\ PurgeOver'
    BY <2>1 DEF LocalHasNoObjects, Quiet, PurgeOver, Purging
  <2>3. ~late => \A q \in Sources \ todo' : object'[q] = 0
    BY <2>1 DEF ObjectsGone
  <2>4. ObjectsGone' /\ FilesGone'
    BY <2>1, <2>3 DEF ObjectsGone, FilesGone, PurgeOver
  <2>5. QED
    BY <2>2, <2>4 DEF Purged
<1>3. CASE PurgeFiles
  <2>1. /\ UNCHANGED <<store, object, row, up, late>> /\ purge = "rmtree" /\ purge' = "rows"
        /\ \A s \in Sources : wav'[s] = NoFile /\ part'[s] = NoFile
        /\ \A r \in Readers : get'[r].temp = 0
    BY <1>0, <1>3, WithoutTempType DEF PurgeFiles, Rmtree, history
  <2>2. LocalHasNoObjects' /\ Quiet' /\ ObjectsGone' /\ FilesGone' /\ PurgeOver'
    BY <2>1 DEF LocalHasNoObjects, Quiet, ObjectsGone, FilesGone, PurgeOver, Purging
  <2>3. QED
    BY <2>2 DEF Purged
<1>4. CASE PurgeFails
  <2>1. UNCHANGED <<store, object, wav, part, row, up, get, late>> /\ purge' = "idle"
        /\ purge \in {"objects", "rmtree"}
    BY <1>4 DEF PurgeFails, files, history
  <2>2. LocalHasNoObjects' /\ Quiet' /\ ObjectsGone' /\ FilesGone' /\ PurgeOver'
    BY <2>1 DEF LocalHasNoObjects, Quiet, ObjectsGone, FilesGone, PurgeOver, Purging
  <2>3. QED
    BY <2>2 DEF Purged
<1>5. CASE PurgeRows
  <2>1. UNCHANGED <<store, object, wav, part, up, get, late>> /\ purge = "rows" /\ purge' = "idle" /\ ~row'
    BY <1>5 DEF PurgeRows, files, history
  <2>2. LocalHasNoObjects' /\ Quiet' /\ ObjectsGone' /\ FilesGone' /\ PurgeOver'
    BY <2>1 DEF LocalHasNoObjects, Quiet, ObjectsGone, FilesGone, PurgeOver, Purging
  <2>3. QED
    BY <2>2 DEF Purged
<1>6. CASE Crash
  <2>1. /\ UNCHANGED <<store, object, row, late>> /\ purge' = "idle"
        /\ Rmtree \/ UNCHANGED <<wav, part>>
        /\ \A u \in Uploads : up'[u].at = "idle"
        /\ \A r \in Readers : get'[r].temp = 0
    BY <1>0, <1>6 DEF Crash
  <2>2. LocalHasNoObjects' /\ Quiet' /\ ObjectsGone' /\ FilesGone' /\ PurgeOver'
    BY <2>1 DEF LocalHasNoObjects, Quiet, ObjectsGone, FilesGone, PurgeOver, Rmtree
  <2>3. QED
    BY <2>2 DEF Purged
<1>7. CASE UNCHANGED vars
  BY <1>7 DEF vars, files, history, Purged, LocalHasNoObjects, Quiet, ObjectsGone, FilesGone,
              PurgeOver, Purging
<1>8. QED
  BY <1>1, <1>2, <1>3, <1>4, <1>5, <1>6, <1>7

LEMMA PurgeStep == PurgeInv /\ [Next]_vars => PurgeInv'
<1> SUFFICES ASSUME PurgeInv, [Next]_vars PROVE PurgeInv'
  OBVIOUS
<1>1. Base'
  BY NextBase DEF PurgeInv
<1>2. Purged'
  BY UploadPurged, ReaderPurged, JobPurged, PurgePurged DEF Next
<1>3. QED
  BY <1>1, <1>2 DEF PurgeInv, Purged

(***************************************************************************)
(* No object and no file of a purged meeting is left or comes back, for    *)
(* any number of listeners, with downloads in progress, failed purges and  *)
(* crashes - unless an upload was under way.                               *)
(***************************************************************************)
THEOREM PurgeIsComplete == Spec => []PurgeLeavesNothing
<1>1. PurgeInv => PurgeLeavesNothing
  BY DEF PurgeInv, FilesGone, PurgeLeavesNothing
<1>2. QED
  BY InitPurge, PurgeStep, <1>1, PTL DEF Spec

-----------------------------------------------------------------------------
(* What readers find is fresh, what was answered is stored.  Both are about *)
(* a source whose uploads met no other transfer of it (it is not shared).   *)

(* An upload under way is the only transfer of its source.                 *)
Alone(s) ==
    \A u \in Uploads : Uploading(u, s) =>
        /\ \A v \in Uploads : Uploading(v, s) => v = u
        /\ \A r \in Readers : ~Downloading(r, s)

(* What an upload has written so far is its own version, the newest.       *)
Own(u, s) ==
    /\ up[u].at # "body" => up[u].version >= acked[s] /\ up[u].version > 0
    /\ up[u].at = "spool" => part[s] = NoFile \/ part[s].version = up[u].version
    /\ up[u].at \in {"send", "sending"} => wav[s] = NoFile \/ wav[s].version = up[u].version
    /\ up[u].at = "sending" => up[u].carries = up[u].version

(* What a reader downloads is no older than what was answered.             *)
Newer(r, s) ==
    /\ get[r].at = "fetch" => get[r].temp = 0 \/ get[r].temp >= acked[s]
    /\ get[r].at = "place" => part[s] = NoFile \/ part[s].version >= acked[s]

ObjectFresh(s) == object[s] = 0 \/ object[s] >= acked[s]

CopyFresh(s) == wav[s] = NoFile \/ wav[s].version >= acked[s]

InStore(s) ==
    ~late /\ acked[s] > 0 => IF store = "s3" THEN object[s] # 0 ELSE wav[s] # NoFile

Sound(s) ==
    s \notin shared =>
        /\ Alone(s)
        /\ \A u \in Uploads : Uploading(u, s) => Own(u, s)
        /\ \A r \in Readers : Downloading(r, s) => Newer(r, s)
        /\ ObjectFresh(s) /\ CopyFresh(s) /\ InStore(s)

(* Nothing is downloaded from a local storage; a version has a number that *)
(* was given out; what is being purged counts as answered no more.         *)
Rest ==
    /\ store = "local" => \A r \in Readers : get[r].at \notin {"get", "fetch", "place"}
    /\ \A s \in Sources : acked[s] <= versions
    /\ \A u \in Uploads : up[u].version <= versions
    /\ ~late /\ Purging => \A s \in Sources : acked[s] = 0

FreshInv == PurgeInv /\ Rest /\ \A s \in Sources : Sound(s)

LEMMA InitFresh == Init => FreshInv
<1> SUFFICES ASSUME Init PROVE FreshInv
  OBVIOUS
<1>1. NoUpload.at = "idle" /\ NoUpload.version = 0 /\ NoReader.at = "idle"
  BY DEF NoUpload, NoReader
<1>2. Rest
  BY <1>1 DEF Init, Rest, Purging
<1>3. ASSUME NEW s \in Sources PROVE Sound(s)
  <2>1. /\ \A u \in Uploads : ~Uploading(u, s)
        /\ \A r \in Readers : ~Downloading(r, s)
    BY <1>1 DEF Init, Uploading, Downloading
  <2>2. object[s] = 0 /\ wav[s] = NoFile /\ acked[s] = 0
    BY DEF Init
  <2>3. QED
    BY <2>1, <2>2 DEF Sound, Alone, ObjectFresh, CopyFresh, InStore
<1>4. QED
  BY <1>2, <1>3, InitPurge DEF FreshInv

LEMMA Numbers ==
  ASSUME Base
  PROVE  /\ \A s \in Sources : /\ acked[s] \in Nat /\ object[s] \in Nat
                               /\ wav[s] \in File /\ part[s] \in File
                               /\ wav[s].version \in Nat /\ part[s].version \in Nat
         /\ \A u \in Uploads : up[u] \in Upload /\ up[u].version \in Nat /\ up[u].carries \in Nat
         /\ \A r \in Readers : get[r] \in Reader /\ get[r].temp \in Nat
         /\ versions \in Nat
BY VersionBounds DEF Base, TypeOK, File, Upload, Reader

(* A source that nothing is added to: transfers of it go on or end, copies *)
(* go where the object store has the rest, objects go with a purge.        *)
Less(s) ==
    /\ store' = store /\ (late => late') /\ (s \notin shared' => s \notin shared)
    /\ acked'[s] = acked[s] \/ acked'[s] = 0
    /\ object'[s] = object[s] \/ (object'[s] = 0 /\ (late \/ acked[s] = 0))
    /\ wav'[s] = wav[s] \/ (wav'[s] = NoFile /\ (store = "s3" \/ late \/ acked[s] = 0))
    /\ part'[s] = part[s] \/ part'[s] = NoFile
    /\ \A u \in Uploads : up'[u] = up[u] \/ up'[u].at = "idle" \/ up'[u].source # s
    /\ \A r \in Readers :
         \/ get'[r] = get[r]
         \/ get'[r].at = get[r].at /\ get'[r].source = get[r].source /\ get'[r].temp = 0
         \/ get'[r].at \in {"idle", "use"} \/ get'[r].source # s

LEMMA LessIsSound ==
  ASSUME Base, Base', NEW s \in Sources, Sound(s), Less(s)
  PROVE  Sound(s)'
<1> SUFFICES ASSUME s \notin shared' PROVE Sound(s)'
  BY DEF Sound
<1>1. /\ Alone(s) /\ ObjectFresh(s) /\ CopyFresh(s) /\ InStore(s)
      /\ \A u \in Uploads : Uploading(u, s) => Own(u, s)
      /\ \A r \in Readers : Downloading(r, s) => Newer(r, s)
  BY DEF Sound, Less
<1>2. \A u \in Uploads : Uploading(u, s)' => up'[u] = up[u] /\ Uploading(u, s)
  BY DEF Less, Uploading
<1>3. \A r \in Readers : Downloading(r, s)' =>
        /\ Downloading(r, s) /\ get'[r].at = get[r].at
        /\ get'[r].temp = get[r].temp \/ get'[r].temp = 0
  BY DEF Less, Downloading
<1>4. Alone(s)'
  BY <1>1, <1>2, <1>3 DEF Alone
<1>5. ObjectFresh(s)' /\ CopyFresh(s)' /\ InStore(s)'
  BY <1>1, Numbers DEF Less, ObjectFresh, CopyFresh, InStore
<1>6. ASSUME NEW u \in Uploads, Uploading(u, s)' PROVE Own(u, s)'
  <2>1. Own(u, s) /\ up'[u] = up[u]
    BY <1>1, <1>2, <1>6
  <2>2. up[u].version \in Nat /\ (up[u].version >= acked[s] => up[u].version >= acked'[s])
    BY Numbers DEF Less
  <2>3. QED
    BY <2>1, <2>2 DEF Own, Less
<1>7. ASSUME NEW r \in Readers, Downloading(r, s)' PROVE Newer(r, s)'
  <2>1. Newer(r, s)
    BY <1>1, <1>3, <1>7
  <2>2. \A n \in Nat : n >= acked[s] => n >= acked'[s]
    BY Numbers DEF Less
  <2>3. get[r].temp \in Nat /\ part[s].version \in Nat
    BY Numbers
  <2>4. QED
    BY <1>3, <1>7, <2>1, <2>2, <2>3 DEF Newer, Less
<1>8. QED
  BY <1>4, <1>5, <1>6, <1>7 DEF Sound

(* The step of an upload under way is judged at its own source alone.      *)
LEMMA OwnIsSound ==
  ASSUME Base, Base', NEW u \in Uploads, NEW s \in Sources, Sound(s), Uploading(u, s),
         get' = get, shared' = shared, up'[u].at # "idle" => up'[u].source = s,
         \A v \in Uploads \ {u} : up'[v] = up[v],
         s \notin shared /\ Own(u, s) /\ ObjectFresh(s) /\ CopyFresh(s) /\ InStore(s) =>
           (up'[u].at # "idle" => Own(u, s)') /\ ObjectFresh(s)' /\ CopyFresh(s)' /\ InStore(s)'
  PROVE  Sound(s)'
<1> SUFFICES ASSUME s \notin shared' PROVE Sound(s)'
  BY DEF Sound
<1>1. Alone(s) /\ Own(u, s) /\ ObjectFresh(s) /\ CopyFresh(s) /\ InStore(s)
  BY DEF Sound
<1>2. \A v \in Uploads : Uploading(v, s)' => v = u
  BY <1>1 DEF Alone, Uploading
<1>3. \A r \in Readers : ~Downloading(r, s)'
  BY <1>1 DEF Alone, Downloading
<1>4. Alone(s)'
  BY <1>2, <1>3 DEF Alone
<1>5. \A v \in Uploads : Uploading(v, s)' => Own(v, s)'
  BY <1>1, <1>2 DEF Uploading
<1>6. QED
  BY <1>1, <1>3, <1>4, <1>5 DEF Sound

LEMMA SpoolOrSend ==
  ASSUME FreshInv, Base', NEW u \in Uploads, NEW q \in Sources, up[u].source = q,
         up[u].at # "idle",
         UNCHANGED <<store, get, shared, late>>,
         \A v \in Uploads \ {u} : up'[v] = up[v],
         up'[u].at # "idle" => up'[u].source = q,
         \A s \in Sources \ {q} : /\ object'[s] = object[s] /\ acked'[s] = acked[s]
                                  /\ wav'[s] = wav[s] /\ part'[s] = part[s],
         q \notin shared /\ Own(u, q) /\ ObjectFresh(q) /\ CopyFresh(q) /\ InStore(q) =>
           /\ up'[u].at # "idle" => Own(u, q)'
           /\ ObjectFresh(q)' /\ CopyFresh(q)' /\ InStore(q)'
  PROVE  \A s \in Sources : Sound(s)'
<1>0. Base /\ \A s \in Sources : Sound(s)
  BY DEF FreshInv, PurgeInv
<1>1. ASSUME NEW s \in Sources, s # q PROVE Sound(s)'
  <2>1. Less(s)
    BY <1>1 DEF Less
  <2>2. QED
    BY <1>0, <2>1, LessIsSound
<1>2. Sound(q)'
  <2>1. Uploading(u, q) /\ Sound(q)
    BY <1>0 DEF Uploading
  <2>2. QED
    BY <1>0, <2>1, OwnIsSound
<1>3. QED
  BY <1>1, <1>2

LEMMA UploadSound ==
  ASSUME FreshInv, Base', NEW u \in Uploads,
         \/ \E s \in Sources : UploadStart(u, s)
         \/ UploadRefused(u) \/ SpoolStart(u) \/ SpoolEnd(u) \/ SpoolFails(u)
         \/ Send(u) \/ SendFails(u) \/ Sent(u)
  PROVE  \A s \in Sources : Sound(s)'
<1> USE DEF FreshInv
<1>0. /\ Base /\ up \in [Uploads -> Upload]
      /\ object \in [Sources -> Versions] /\ acked \in [Sources -> Versions]
      /\ wav \in [Sources -> File] /\ part \in [Sources -> File]
      /\ NoUpload.at = "idle" /\ store \in {"local", "s3"}
  BY StoresAssumption DEF PurgeInv, Base, TypeOK, NoUpload
<1>1. ASSUME NEW q \in Sources, UploadStart(u, q) PROVE \A s \in Sources : Sound(s)'
  <2>1. /\ UNCHANGED <<store, object, wav, part, get, acked>>
        /\ late => late'
    BY <1>1 DEF UploadStart, files
  <2>2. /\ up[u].at = "idle" /\ up'[u].at = "body" /\ up'[u].source = q
        /\ \A v \in Uploads \ {u} : up'[v] = up[v]
    BY <1>0, <1>1 DEF UploadStart, NoUpload
  <2>3. /\ \A s \in Sources : s \notin shared' => s \notin shared
        /\ q \notin shared' => /\ \A v \in Uploads : ~Uploading(v, q)
                               /\ \A r \in Readers : ~Downloading(r, q)
    BY <1>1 DEF UploadStart
  <2>4. ASSUME NEW s \in Sources, s # q PROVE Sound(s)'
    <3>1. Less(s)
      BY <2>1, <2>2, <2>3, <2>4 DEF Less
    <3>2. QED
      BY <1>0, <3>1, LessIsSound
  <2>5. Sound(q)'
    <3> SUFFICES ASSUME q \notin shared' PROVE Sound(q)'
      BY DEF Sound
    <3>1. ObjectFresh(q) /\ CopyFresh(q) /\ InStore(q)
      BY <2>3 DEF Sound
    <3>2. ObjectFresh(q)' /\ CopyFresh(q)' /\ InStore(q)'
      BY <2>1, <3>1 DEF ObjectFresh, CopyFresh, InStore
    <3>3. \A v \in Uploads : Uploading(v, q)' => v = u
      BY <2>2, <2>3 DEF Uploading
    <3>4. \A r \in Readers : ~Downloading(r, q)'
      BY <2>1, <2>3 DEF Downloading
    <3>5. Own(u, q)'
      BY <2>2 DEF Own
    <3>6. QED
      BY <3>2, <3>3, <3>4, <3>5 DEF Sound, Alone
  <2>6. QED
    BY <2>4, <2>5
<1>2. CASE UploadRefused(u) \/ SpoolFails(u) \/ SendFails(u)
  <2>1. /\ UNCHANGED <<store, object, wav, part, get, acked, shared, late>>
        /\ up'[u].at = "idle" /\ \A v \in Uploads \ {u} : up'[v] = up[v]
    BY <1>0, <1>2 DEF UploadRefused, SpoolFails, SendFails, EndUpload, files, history
  <2>2. \A s \in Sources : Less(s)
    BY <2>1 DEF Less
  <2>3. QED
    BY <1>0, <2>2, LessIsSound
(* What is left are the steps of an upload with a source and a version.    *)
<1>3. ASSUME SpoolStart(u) \/ SpoolEnd(u) \/ Send(u) \/ Sent(u)
      PROVE  \A s \in Sources : Sound(s)'
  <2>1. PICK q \in Sources : q = up[u].source /\ up[u].at # "idle"
    BY <1>0, <1>3 DEF SpoolStart, SpoolEnd, Send, Sent, Base, TypeOK, Named
  <2>2. /\ acked[q] \in Nat /\ wav[q] \in File /\ part[q] \in File /\ object[q] \in Nat
        /\ up[u] \in Upload /\ up[u].version \in Nat /\ up[u].carries \in Nat
        /\ versions \in Nat /\ acked[q] <= versions
    BY <1>0, Numbers DEF Rest
  <2>3. CASE SpoolStart(u)
    <3>1. /\ UNCHANGED <<store, object, wav, get, acked, shared, late>>
          /\ versions' = versions + 1
          /\ part' = [part EXCEPT ![q] = [version |-> versions', whole |-> FALSE]]
          /\ up' = [up EXCEPT ![u].at = "spool", ![u].version = versions']
      BY <2>1, <2>3 DEF SpoolStart
    <3>2. /\ up'[u].at = "spool" /\ up'[u].source = q /\ up'[u].version = versions'
          /\ \A v \in Uploads \ {u} : up'[v] = up[v]
      BY <1>0, <2>1, <2>2, <3>1 DEF Upload
    <3>3. /\ part'[q].version = versions'
          /\ \A s \in Sources \ {q} : part'[s] = part[s]
      BY <1>0, <3>1
    <3>4. versions' >= acked[q] /\ versions' > 0
      BY <2>2, <3>1
    <3>5. Own(u, q)'
      BY <3>1, <3>2, <3>3, <3>4 DEF Own
    <3>6. QED
      BY <2>1, <3>1, <3>2, <3>3, <3>5, SpoolOrSend DEF ObjectFresh, CopyFresh, InStore
  <2>4. CASE Send(u)
    <3>1. /\ UNCHANGED <<store, object, wav, part, get, acked, shared, late>>
          /\ up[u].at = "send" /\ wav[q] # NoFile
          /\ up' = [up EXCEPT ![u].at = "sending", ![u].carries = wav[q].version]
      BY <2>1, <2>4 DEF Send, files, history
    <3>2. /\ up'[u].at = "sending" /\ up'[u].source = q
          /\ up'[u].version = up[u].version /\ up'[u].carries = wav[q].version
          /\ \A v \in Uploads \ {u} : up'[v] = up[v]
      BY <1>0, <2>1, <2>2, <3>1 DEF Upload
    <3>3. Own(u, q) => Own(u, q)'
      BY <3>1, <3>2 DEF Own
    <3>4. QED
      BY <2>1, <3>1, <3>2, <3>3, SpoolOrSend DEF ObjectFresh, CopyFresh, InStore
  <2>5. CASE Sent(u)
    <3>1. /\ UNCHANGED <<store, wav, part, get, shared, late>>
          /\ up[u].at = "sending" /\ up'[u].at = "idle"
          /\ \A v \in Uploads \ {u} : up'[v] = up[v]
      BY <1>0, <2>1, <2>5 DEF Sent, EndUpload
    <3>2. /\ object'[q] = up[u].carries
          /\ acked'[q] = IF up[u].version > acked[q] THEN up[u].version ELSE acked[q]
          /\ \A s \in Sources \ {q} : object'[s] = object[s] /\ acked'[s] = acked[s]
      BY <1>0, <2>1, <2>5 DEF Sent, Acked
    <3>3. store = "s3"
      BY <1>0, <3>1 DEF PurgeInv, LocalHasNoObjects
    <3>4. Own(u, q) => acked'[q] = object'[q] /\ object'[q] = up[u].version
      BY <2>2, <3>1, <3>2 DEF Own
    <3>5. object'[q] \in Nat
      BY <2>2, <3>2
    <3>6. Own(u, q) => ObjectFresh(q)' /\ InStore(q)'
      BY <3>1, <3>3, <3>4, <3>5 DEF ObjectFresh, InStore
    <3>7. Own(u, q) => CopyFresh(q)'
      BY <2>2, <3>1, <3>4 DEF Own, CopyFresh
    <3>8. QED
      BY <2>1, <3>1, <3>2, <3>6, <3>7, SpoolOrSend
  <2>6. CASE SpoolEnd(u) /\ part[q] = NoFile
    <3>1. /\ UNCHANGED <<store, object, wav, part, get, acked, shared, late>>
          /\ up'[u].at = "idle" /\ \A v \in Uploads \ {u} : up'[v] = up[v]
      BY <1>0, <2>1, <2>6 DEF SpoolEnd, EndUpload
    <3>2. QED
      BY <2>1, <3>1, SpoolOrSend DEF ObjectFresh, CopyFresh, InStore
  <2>7. CASE SpoolEnd(u) /\ part[q] # NoFile
    <3>1. /\ UNCHANGED <<store, object, get, shared, late>> /\ loop = u
          /\ wav' = [wav EXCEPT ![q] = Copy(part[q].version)]
          /\ part' = [part EXCEPT ![q] = NoFile]
          /\ IF store = "local" THEN Acked(u) /\ EndUpload(u)
             ELSE up' = [up EXCEPT ![u].at = "send"] /\ UNCHANGED acked
      BY <2>1, <2>7 DEF SpoolEnd
    <3>2. /\ wav'[q].version = part[q].version
          /\ \A s \in Sources \ {q} : wav'[s] = wav[s] /\ part'[s] = part[s]
      BY <1>0, <2>2, <3>1, CopyType DEF File
    <3>3. up[u].at = "spool"
      BY <1>0, <3>1 DEF Base, TypeOK
    <3>4. Own(u, q) => wav'[q].version = up[u].version /\ up[u].version >= acked[q]
      BY <2>7, <3>2, <3>3 DEF Own
    <3>5. Own(u, q) => wav'[q] # NoFile
      BY <2>2, <3>3, <3>4 DEF NoFile, Own
    <3>6. CASE store = "local"
      <4>1. /\ acked'[q] = IF up[u].version > acked[q] THEN up[u].version ELSE acked[q]
            /\ \A s \in Sources \ {q} : acked'[s] = acked[s]
            /\ up'[u].at = "idle" /\ \A v \in Uploads \ {u} : up'[v] = up[v]
        BY <1>0, <2>1, <3>1, <3>6 DEF Acked, EndUpload
      <4>2. Own(u, q) => CopyFresh(q)' /\ InStore(q)'
        BY <2>2, <3>1, <3>4, <3>5, <3>6, <4>1 DEF CopyFresh, InStore
      <4>3. ObjectFresh(q)'
        BY <1>0, <3>1, <3>6 DEF ObjectFresh, PurgeInv, LocalHasNoObjects
      <4>4. QED
        BY <2>1, <3>1, <3>2, <4>1, <4>2, <4>3, SpoolOrSend
    <3>7. CASE store # "local"
      <4>1. /\ up'[u].at = "send" /\ up'[u].source = q /\ up'[u].version = up[u].version
            /\ acked' = acked /\ \A v \in Uploads \ {u} : up'[v] = up[v]
        BY <1>0, <2>1, <2>2, <3>1, <3>7 DEF Upload
      <4>2. Own(u, q) => Own(u, q)' /\ CopyFresh(q)'
        <5>1. Own(u, q) => up[u].version > 0
          BY <3>3 DEF Own
        <5>2. QED
          BY <3>4, <4>1, <5>1 DEF Own, CopyFresh
      <4>3. ObjectFresh(q) /\ InStore(q) => ObjectFresh(q)' /\ InStore(q)'
        BY <1>0, <3>1, <3>7, <4>1 DEF ObjectFresh, InStore
      <4>4. QED
        BY <2>1, <3>1, <3>2, <4>1, <4>2, <4>3, SpoolOrSend
    <3>8. QED
      BY <3>6, <3>7
  <2>8. QED
    BY <1>3, <2>3, <2>4, <2>5, <2>6, <2>7
<1>4. QED
  BY <1>1, <1>2, <1>3

(* The step of a reader that downloads is judged at its own source alone;  *)
(* it leaves what was answered, and the object store, as they are.         *)
LEMMA ReaderIsSound ==
  ASSUME FreshInv, Base', NEW r \in Readers, NEW q \in Sources,
         UNCHANGED <<store, object, up, acked, late>>,
         get'[r].at # "idle" => get'[r].source = q,
         \A p \in Readers \ {r} : get'[p] = get[p],
         \A s \in Sources \ {q} : /\ wav'[s] = wav[s] /\ part'[s] = part[s]
                                  /\ s \notin shared' => s \notin shared,
         q \notin shared' => q \notin shared /\ \A u \in Uploads : ~Uploading(u, q),
         q \notin shared' /\ CopyFresh(q) /\ InStore(q) => CopyFresh(q)' /\ InStore(q)',
         q \notin shared' => part'[q] \in {part[q], NoFile} \/ part'[q].version >= acked[q],
         q \notin shared' /\ Downloading(r, q)' => Newer(r, q)'
  PROVE  \A s \in Sources : Sound(s)'
<1>0. Base /\ \A s \in Sources : Sound(s)
  BY DEF FreshInv, PurgeInv
<1>1. ASSUME NEW s \in Sources, s # q PROVE Sound(s)'
  <2>1. Less(s)
    BY <1>1 DEF Less
  <2>2. QED
    BY <1>0, <2>1, LessIsSound
<1>2. Sound(q)'
  <2> SUFFICES ASSUME q \notin shared' PROVE Sound(q)'
    BY DEF Sound
  <2>1. /\ ObjectFresh(q) /\ CopyFresh(q) /\ InStore(q)
        /\ \A p \in Readers : Downloading(p, q) => Newer(p, q)
    BY <1>0 DEF Sound
  <2>2. \A u \in Uploads : ~Uploading(u, q)'
    BY DEF Uploading
  <2>3. \A p \in Readers \ {r} : Downloading(p, q)' => Newer(p, q)'
    BY <2>1 DEF Downloading, Newer
  <2>4. ObjectFresh(q)'
    BY <2>1 DEF ObjectFresh
  <2>5. QED
    BY <2>1, <2>2, <2>3, <2>4 DEF Sound, Alone
<1>3. QED
  BY <1>1, <1>2

LEMMA ReaderSound ==
  ASSUME FreshInv, Base', NEW r \in Readers,
         \/ \E s \in Sources : Ask(r, s)
         \/ Fetch(r) \/ FetchRefused(r) \/ Fetched(r) \/ Place(r) \/ Listened(r)
  PROVE  \A s \in Sources : Sound(s)'
<1>0. /\ Base /\ get \in [Readers -> Reader] /\ \A s \in Sources : Sound(s)
      /\ wav \in [Sources -> File] /\ part \in [Sources -> File]
      /\ NoReader.at = "idle"
  BY DEF FreshInv, PurgeInv, Base, TypeOK, NoReader
<1>1. UNCHANGED <<store, object, up, acked, late>>
  BY DEF Ask, Fetch, FetchRefused, Fetched, Place, Listened, files, history
<1>2. ASSUME NEW q \in Sources, Ask(r, q) PROVE \A s \in Sources : Sound(s)'
  <2>1. /\ wav' = wav /\ part' = part /\ \A s \in Sources : s \notin shared' => s \notin shared
        /\ \A p \in Readers \ {r} : get'[p] = get[p]
    BY <1>0, <1>2 DEF Ask, files
  <2>2. CASE get'[r].at = "use"
    <3>1. \A s \in Sources : Less(s)
      BY <1>1, <2>1, <2>2 DEF Less
    <3>2. QED
      BY <1>0, <3>1, LessIsSound
  <2>3. CASE get'[r].at # "use"
    <3>1. /\ get'[r].source = q /\ get'[r].at = "get"
          /\ q \notin shared' => \A u \in Uploads : ~Uploading(u, q)
      BY <1>0, <1>2, <2>3 DEF Ask, NoReader
    <3>2. CopyFresh(q) /\ InStore(q) => CopyFresh(q)' /\ InStore(q)'
      BY <1>1, <2>1 DEF CopyFresh, InStore
    <3>3. Newer(r, q)'
      BY <3>1 DEF Newer
    <3>4. QED
      BY <1>1, <2>1, <3>1, <3>2, <3>3, ReaderIsSound
  <2>4. QED
    BY <2>2, <2>3
<1>3. CASE FetchRefused(r) \/ Listened(r)
  <2>1. /\ wav' = wav /\ shared' = shared /\ get'[r].at = "idle"
        /\ \A p \in Readers \ {r} : get'[p] = get[p]
    BY <1>0, <1>3 DEF FetchRefused, Listened, EndGet, files, history
  <2>2. \A s \in Sources : part'[s] = part[s] \/ part'[s] = NoFile
    BY <1>0, <1>3 DEF FetchRefused, Listened, files
  <2>3. \A s \in Sources : Less(s)
    BY <1>1, <2>1, <2>2 DEF Less
  <2>4. QED
    BY <1>0, <2>3, LessIsSound
<1>4. ASSUME Fetch(r) \/ Fetched(r) \/ Place(r) PROVE \A s \in Sources : Sound(s)'
  <2>1. PICK q \in Sources : q = get[r].source /\ Downloading(r, q)
    BY <1>0, <1>4 DEF Fetch, Fetched, Place, Base, Named, Downloading
  <2>2. /\ acked[q] \in Nat /\ wav[q] \in File /\ part[q] \in File /\ object[q] \in Nat
        /\ get[r] \in Reader /\ get[r].temp \in Nat
    BY <1>0, Numbers
  <2>3. /\ shared' = shared
        /\ q \notin shared => /\ \A u \in Uploads : ~Uploading(u, q)
                              /\ Newer(r, q) /\ ObjectFresh(q)
    BY <1>0, <1>4, <2>1 DEF Fetch, Fetched, Place, history, Sound, Alone
  <2>4. store = "s3"
    BY <1>0, <2>1, StoresAssumption DEF FreshInv, Rest, Base, TypeOK, Downloading
  <2>5. CASE Fetch(r)
    <3>1. /\ wav' = wav /\ part' = part /\ object[q] # 0
          /\ get' = [get EXCEPT ![r].at = "fetch", ![r].temp = object[q]]
      BY <2>1, <2>5 DEF Fetch, files
    <3>2. /\ get'[r].at = "fetch" /\ get'[r].source = q /\ get'[r].temp = object[q]
          /\ \A p \in Readers \ {r} : get'[p] = get[p]
      <4>1. object[q] \in Versions
        BY <1>0 DEF Base, TypeOK
      <4>2. PICK n \in Versions : /\ n = object[q]
                                  /\ get' = [get EXCEPT ![r].at = "fetch", ![r].temp = n]
        BY <3>1, <4>1
      <4>3. get'[r] = [at |-> "fetch", source |-> get[r].source, temp |-> n]
              /\ \A p \in Readers \ {r} : get'[p] = get[p]
        BY <1>0, <4>2, FetchIs
      <4>4. n = object[q]
        BY <4>2
      <4>5. QED
        BY <2>1, <4>3, <4>4
    <3>3. ObjectFresh(q) => Newer(r, q)'
      BY <1>1, <3>1, <3>2 DEF ObjectFresh, Newer
    <3>4. CopyFresh(q) /\ InStore(q) => CopyFresh(q)' /\ InStore(q)'
      BY <1>1, <3>1 DEF CopyFresh, InStore
    <3>5. QED
      BY <1>1, <2>3, <3>1, <3>2, <3>3, <3>4, ReaderIsSound
  <2>6. CASE Fetched(r) /\ get[r].temp # 0
    <3>1. /\ wav' = wav /\ get[r].at = "fetch"
          /\ part' = [part EXCEPT ![q] = Copy(get[r].temp)]
          /\ get' = [get EXCEPT ![r].at = "place", ![r].temp = 0]
      BY <2>1, <2>6 DEF Fetched
    <3>2. /\ get'[r].at = "place" /\ get'[r].source = q
          /\ \A p \in Readers \ {r} : get'[p] = get[p]
      <4>1. PICK n \in Versions : get' = [get EXCEPT ![r].at = "place", ![r].temp = n]
        BY <3>1, VersionBounds
      <4>2. get'[r] = [at |-> "place", source |-> get[r].source, temp |-> n]
              /\ \A p \in Readers \ {r} : get'[p] = get[p]
        BY <1>0, <4>1, FetchIs
      <4>3. QED
        BY <2>1, <4>2
    <3>3. /\ part'[q].version = get[r].temp
          /\ \A s \in Sources \ {q} : part'[s] = part[s]
      BY <1>0, <3>1 DEF Copy
    <3>4. Newer(r, q) => part'[q].version >= acked[q] /\ Newer(r, q)'
      BY <1>1, <2>6, <3>1, <3>2, <3>3 DEF Newer
    <3>5. CopyFresh(q) /\ InStore(q) => CopyFresh(q)' /\ InStore(q)'
      BY <1>1, <3>1 DEF CopyFresh, InStore
    <3>6. QED
      BY ZenonT(40), <1>1, <2>3, <3>1, <3>2, <3>3, <3>4, <3>5, ReaderIsSound
  <2>7. CASE (Fetched(r) /\ get[r].temp = 0) \/ (Place(r) /\ part[q] = NoFile)
    <3>1. /\ wav' = wav /\ part' = part /\ get'[r].at = "idle"
          /\ \A p \in Readers \ {r} : get'[p] = get[p]
      BY <1>0, <2>1, <2>7 DEF Fetched, Place, EndGet
    <3>2. \A s \in Sources : Less(s)
      BY <1>1, <2>3, <3>1 DEF Less
    <3>3. QED
      BY <1>0, <3>2, LessIsSound
  <2>8. CASE Place(r) /\ part[q] # NoFile
    <3>1. /\ get[r].at = "place"
          /\ wav' = [wav EXCEPT ![q] = part[q]] /\ part' = [part EXCEPT ![q] = NoFile]
          /\ get' = [get EXCEPT ![r].at = "use"]
      BY <2>1, <2>8 DEF Place
    <3>2. /\ get'[r].at = "use" /\ get'[r].source = q
          /\ \A p \in Readers \ {r} : get'[p] = get[p]
      BY <1>0, <2>1, <2>2, <3>1 DEF Reader
    <3>3. /\ wav'[q] = part[q] /\ part'[q] = NoFile
          /\ \A s \in Sources \ {q} : wav'[s] = wav[s] /\ part'[s] = part[s]
      BY <1>0, <3>1
    <3>4. Newer(r, q) => CopyFresh(q)'
      BY <1>1, <2>8, <3>1, <3>3 DEF Newer, CopyFresh
    <3>5. InStore(q) => InStore(q)'
      BY <1>1, <2>4 DEF InStore
    <3>6. ~Downloading(r, q)'
      BY <3>2 DEF Downloading
    <3>7. QED
      BY <1>1, <2>3, <3>2, <3>3, <3>4, <3>5, <3>6, ReaderIsSound
  <2>9. QED
    BY <1>4, <2>5, <2>6, <2>7, <2>8
<1>5. QED
  BY <1>2, <1>3, <1>4

LEMMA OthersSound ==
  ASSUME FreshInv, Base',
         \/ JobEnds
         \/ PurgeStart \/ \E s \in Sources : DeleteObject(s)
         \/ PurgeFiles \/ PurgeFails \/ PurgeRows
         \/ Crash
         \/ UNCHANGED vars
  PROVE  \A s \in Sources : Sound(s)'
<1>0. /\ Base /\ \A s \in Sources : Sound(s)
      /\ get \in [Readers -> Reader] /\ NoReader.at = "idle" /\ NoReader \in Reader
      /\ NoUpload.at = "idle" /\ Worker \in Readers
      /\ object \in [Sources -> Versions] /\ acked \in [Sources -> Versions]
      /\ ~late /\ Purging => \A s \in Sources : acked[s] = 0
  BY VersionBounds DEF FreshInv, PurgeInv, Rest, Base, TypeOK, NoReader, NoUpload, Reader, Readers
<1>1. SUFFICES \A s \in Sources : Less(s)
  BY <1>0, LessIsSound
<1>2. CASE JobEnds
  <2> DEFINE g == [get EXCEPT ![Worker] = NoReader]
  <2>1. UNCHANGED <<store, object, up, acked, shared, late>>
    BY <1>2 DEF JobEnds, history
  <2>2. g \in [Readers -> Reader] /\ \A r \in Readers : g[r] = get[r] \/ g[r].at = "idle"
    BY <1>0
  <2>3. CASE store = "s3"
    <3>1. Rmtree /\ get' = WithoutTemp(g)
      BY <1>2, <2>3 DEF JobEnds
    <3>2. \A r \in Readers : \/ get'[r].at = get[r].at /\ get'[r].source = get[r].source
                                  /\ get'[r].temp = 0
                             \/ get'[r].at = "idle"
      BY ZenonT(40), <2>2, <3>1, WithoutTempType
    <3>3. QED
      BY <2>1, <2>3, <3>1, <3>2 DEF Less, Rmtree
  <2>4. CASE store # "s3"
    <3>1. get' = g /\ UNCHANGED <<wav, part>>
      BY <1>2, <2>4 DEF JobEnds
    <3>2. QED
      BY <2>1, <2>2, <3>1 DEF Less
  <2>5. QED
    BY <2>3, <2>4
<1>3. CASE PurgeStart
  <2>1. /\ UNCHANGED <<store, object, wav, part, up, get, shared>> /\ (late => late')
        /\ \A s \in Sources : acked'[s] = 0
    BY <1>3 DEF PurgeStart, files
  <2>2. QED
    BY <2>1 DEF Less
<1>4. ASSUME NEW q \in Sources, DeleteObject(q) PROVE \A s \in Sources : Less(s)
  <2>1. /\ UNCHANGED <<store, wav, part, up, get, acked, shared, late>>
        /\ \A s \in Sources : object'[s] = object[s] \/ object'[s] = 0
        /\ Purging
    BY <1>0, <1>4 DEF DeleteObject, Purging, history
  <2>2. QED
    BY <1>0, <2>1 DEF Less
<1>5. CASE PurgeFiles
  <2>1. /\ UNCHANGED <<store, object, up, acked, shared, late>> /\ Rmtree /\ Purging
        /\ get' = WithoutTemp(get)
    BY <1>5 DEF PurgeFiles, Purging, history
  <2>2. \A r \in Readers : get'[r].at = get[r].at /\ get'[r].source = get[r].source
                             /\ get'[r].temp = 0
    BY <1>0, <2>1, WithoutTempType
  <2>3. QED
    BY <1>0, <2>1, <2>2 DEF Less, Rmtree
<1>6. CASE PurgeFails \/ PurgeRows
  BY <1>6 DEF PurgeFails, PurgeRows, Less, files, history
<1>7. CASE Crash
  <2>1. /\ UNCHANGED <<store, object, acked, shared, late>>
        /\ UNCHANGED <<wav, part>> \/ (store = "s3" /\ Rmtree)
        /\ \A u \in Uploads : up'[u].at = "idle"
        /\ \A r \in Readers : get'[r].at = "idle"
    BY <1>0, <1>7 DEF Crash
  <2>2. QED
    BY <2>1 DEF Less, Rmtree
<1>8. CASE UNCHANGED vars
  BY <1>8 DEF vars, files, history, Less
<1>9. QED
  BY <1>2, <1>3, <1>4, <1>5, <1>6, <1>7, <1>8

(* Uploads and answers get no number that was not given out.               *)
LEMMA NumberedStep ==
  ASSUME FreshInv, [Next]_vars
  PROVE  /\ \A s \in Sources : acked'[s] <= versions'
         /\ \A u \in Uploads : up'[u].version <= versions'
<1>0. /\ up \in [Uploads -> Upload] /\ acked \in [Sources -> Versions] /\ versions \in Nat
      /\ \A s \in Sources : acked[s] \in Nat /\ acked[s] <= versions
      /\ \A u \in Uploads : up[u] \in Upload /\ up[u].version \in Nat /\ up[u].version <= versions
      /\ NoUpload.version = 0
  BY Numbers DEF FreshInv, Rest, PurgeInv, Base, TypeOK, NoUpload
<1>1. ASSUME NEW u \in Uploads, SpoolStart(u)
      PROVE  /\ \A s \in Sources : acked'[s] <= versions'
             /\ \A v \in Uploads : up'[v].version <= versions'
  <2>1. acked' = acked /\ versions' = versions + 1
    BY <1>1 DEF SpoolStart
  <2>2. up'[u].version = versions' /\ \A v \in Uploads \ {u} : up'[v] = up[v]
    BY <1>0, <1>1 DEF SpoolStart, Upload
  <2>3. QED
    BY <1>0, <2>1, <2>2
<1>2. ASSUME NEW u \in Uploads,
             \/ \E s \in Sources : UploadStart(u, s)
             \/ UploadRefused(u) \/ SpoolEnd(u) \/ SpoolFails(u) \/ Send(u) \/ SendFails(u) \/ Sent(u)
      PROVE  /\ \A s \in Sources : acked'[s] <= versions'
             /\ \A v \in Uploads : up'[v].version <= versions'
  <2>1. versions' = versions
    BY <1>2 DEF UploadStart, UploadRefused, SpoolEnd, SpoolFails, Send, SendFails, Sent, history
  <2>2. \A s \in Sources : acked'[s] = acked[s] \/ acked'[s] = up[u].version
    BY <1>0, <1>2 DEF UploadStart, UploadRefused, SpoolEnd, SpoolFails, Send, SendFails, Sent, history, Acked
  <2>3. \A v \in Uploads : up'[v].version \in {up[v].version, 0}
    <3>1. CASE \E s \in Sources : UploadStart(u, s)
      BY <1>0, <3>1 DEF UploadStart, NoUpload
    <3>2. CASE UploadRefused(u) \/ SpoolFails(u) \/ SendFails(u) \/ Sent(u)
      BY <1>0, <3>2 DEF UploadRefused, SpoolFails, SendFails, Sent, EndUpload
    <3>3. CASE SpoolEnd(u)
      <4>1. EndUpload(u) \/ up' = [up EXCEPT ![u].at = "send"]
        BY <3>3 DEF SpoolEnd
      <4>2. CASE EndUpload(u)
        BY <1>0, <4>2 DEF EndUpload
      <4>3. CASE up' = [up EXCEPT ![u].at = "send"]
        BY <1>0, <4>3 DEF Upload
      <4>4. QED
        BY <4>1, <4>2, <4>3
    <3>4. CASE Send(u)
      BY <1>0, <3>4 DEF Send, Upload
    <3>5. QED
      BY <1>2, <3>1, <3>2, <3>3, <3>4
  <2>4. QED
    BY <1>0, <2>1, <2>2, <2>3
<1>3. CASE versions' = versions /\ up' = up /\ (acked' = acked \/ \A s \in Sources : acked'[s] = 0)
  BY <1>0, <1>3
<1>4. ASSUME NEW r \in Readers,
             \/ \E s \in Sources : Ask(r, s)
             \/ Fetch(r) \/ FetchRefused(r) \/ Fetched(r) \/ Place(r) \/ Listened(r)
      PROVE  versions' = versions /\ up' = up /\ acked' = acked
  BY <1>4 DEF Ask, Fetch, FetchRefused, Fetched, Place, Listened, history
<1>5. CASE JobEnds \/ PurgeStart \/ (\E s \in Sources : DeleteObject(s))
             \/ PurgeFiles \/ PurgeFails \/ PurgeRows
  <2>1. versions' = versions /\ up' = up /\ (acked' = acked \/ \A s \in Sources : acked'[s] = 0)
    BY <1>5 DEF JobEnds, PurgeStart, DeleteObject, PurgeFiles, PurgeFails, PurgeRows, history
  <2>2. QED
    BY <1>3, <2>1
<1>6. CASE Crash
  BY <1>0, <1>6 DEF Crash
<1>7. CASE UNCHANGED vars
  BY <1>3, <1>7 DEF vars, history
<1>8. QED
  BY <1>1, <1>2, <1>3, <1>4, <1>5, <1>6, <1>7 DEF Next

LEMMA RestStep ==
  ASSUME FreshInv, [Next]_vars
  PROVE  Rest'
<1>0. /\ Base /\ Rest /\ Quiet /\ get \in [Readers -> Reader] /\ up \in [Uploads -> Upload]
      /\ NoReader.at = "idle" /\ Worker \in Readers /\ NoReader \in Reader
  BY VersionBounds DEF FreshInv, PurgeInv, Base, TypeOK, NoReader, Reader, Readers
<1>1. ASSUME NEW r \in Readers,
             \/ \E s \in Sources : Ask(r, s)
             \/ Fetch(r) \/ FetchRefused(r) \/ Fetched(r) \/ Place(r) \/ Listened(r)
      PROVE  /\ UNCHANGED <<store, purge, row, late, acked>>
             /\ store = "local" => \A q \in Readers : get'[q].at \notin {"get", "fetch", "place"}
  <2>1. UNCHANGED <<store, purge, row, late, acked>>
    BY <1>1 DEF Ask, Fetch, FetchRefused, Fetched, Place, Listened, files, history
  <2> SUFFICES ASSUME store = "local"
               PROVE  \A q \in Readers : get'[q].at \notin {"get", "fetch", "place"}
    BY <2>1
  <2>2. \A q \in Readers : get[q].at \notin {"get", "fetch", "place"}
    BY <1>0 DEF Rest
  <2>3. CASE \E s \in Sources : Ask(r, s)
    BY ZenonT(40), <1>0, <2>2, <2>3 DEF Ask, NoReader
  <2>4. CASE Listened(r)
    BY <1>0, <2>2, <2>4 DEF Listened, EndGet
  <2>5. QED
    BY <1>1, <2>2, <2>3, <2>4 DEF Fetch, FetchRefused, Fetched, Place
<1>2. ASSUME NEW u \in Uploads,
             \/ \E s \in Sources : UploadStart(u, s)
             \/ UploadRefused(u) \/ SpoolStart(u) \/ SpoolEnd(u) \/ SpoolFails(u)
             \/ Send(u) \/ SendFails(u) \/ Sent(u)
      PROVE  /\ UNCHANGED <<store, get, purge, row>>
             /\ late => late'
             /\ acked' = acked \/ up[u].at # "idle"
  <2>0. UNCHANGED <<store, get, purge, row>>
    BY <1>2 DEF UploadStart, UploadRefused, SpoolStart, SpoolEnd, SpoolFails, Send, SendFails, Sent, files,
                history
  <2>1. late' = late \/ (late' = (late \/ Purging))
    BY <1>2 DEF UploadStart, UploadRefused, SpoolStart, SpoolEnd, SpoolFails, Send, SendFails, Sent, history
  <2>2. acked' = acked \/ up[u].at # "idle"
    BY <1>0, <1>2 DEF UploadStart, UploadRefused, SpoolStart, SpoolEnd, SpoolFails, Send, SendFails, Sent,
                      history, Base, TypeOK
  <2>3. late => late'
    BY <2>1
  <2>4. QED
    BY <2>0, <2>2, <2>3
<1>3. ASSUME \/ JobEnds \/ \E s \in Sources : DeleteObject(s)
             \/ PurgeFiles \/ PurgeFails \/ PurgeRows \/ Crash \/ UNCHANGED vars
      PROVE  /\ UNCHANGED <<store, late, acked>> /\ (Purging' => Purging)
             /\ \A q \in Readers : get'[q].at \in {get[q].at, "idle"}
  <2>1. UNCHANGED <<store, late, acked>> /\ (Purging' => Purging)
    BY <1>3 DEF JobEnds, DeleteObject, PurgeFiles, PurgeFails, PurgeRows, Crash, Purging, vars,
                history
  <2>2. CASE JobEnds
    <3> DEFINE g == [get EXCEPT ![Worker] = NoReader]
    <3>1. g \in [Readers -> Reader] /\ \A q \in Readers : g[q].at \in {get[q].at, "idle"}
      BY <1>0
    <3>2. get' = g \/ get' = WithoutTemp(g)
      BY <2>2 DEF JobEnds
    <3>3. QED
      BY ZenonT(40), <2>1, <3>1, <3>2, WithoutTempType
  <2>3. CASE PurgeFiles
    BY <1>0, <2>1, <2>3, WithoutTempType DEF PurgeFiles
  <2>4. CASE Crash
    BY <1>0, <2>1, <2>4 DEF Crash
  <2>5. QED
    BY <1>3, <2>1, <2>2, <2>3, <2>4 DEF DeleteObject, PurgeFails, PurgeRows, vars
<1>4. ASSUME PurgeStart
      PROVE  /\ UNCHANGED <<store, get>> /\ \A s \in Sources : acked'[s] = 0
  BY <1>4 DEF PurgeStart
<1>5. store' = "local" => \A r \in Readers : get'[r].at \notin {"get", "fetch", "place"}
  BY <1>0, <1>1, <1>2, <1>3, <1>4 DEF Next, Rest
<1>6. ~late' /\ Purging' => \A s \in Sources : acked'[s] = 0
  <2>1. ASSUME NEW u \in Uploads,
               \/ \E s \in Sources : UploadStart(u, s)
               \/ UploadRefused(u) \/ SpoolStart(u) \/ SpoolEnd(u) \/ SpoolFails(u)
               \/ Send(u) \/ SendFails(u) \/ Sent(u),
               ~late', Purging'
        PROVE  \A s \in Sources : acked'[s] = 0
    BY <1>0, <1>2, <2>1 DEF Rest, Quiet, Purging
  <2>2. ASSUME NEW r \in Readers,
               \/ \E s \in Sources : Ask(r, s)
               \/ Fetch(r) \/ FetchRefused(r) \/ Fetched(r) \/ Place(r) \/ Listened(r),
               ~late', Purging'
        PROVE  \A s \in Sources : acked'[s] = 0
    BY <1>0, <1>1, <2>2 DEF Rest, Purging
  <2>3. QED
    BY <1>0, <1>3, <1>4, <2>1, <2>2 DEF Next, Rest
<1>7. QED
  BY <1>5, <1>6, NumberedStep DEF Rest

LEMMA FreshStep == FreshInv /\ [Next]_vars => FreshInv'
<1> SUFFICES ASSUME FreshInv, [Next]_vars PROVE FreshInv'
  OBVIOUS
<1>1. PurgeInv'
  BY PurgeStep DEF FreshInv
<1>2. \A s \in Sources : Sound(s)'
  BY <1>1, UploadSound, ReaderSound, OthersSound DEF Next, PurgeInv
<1>3. QED
  BY <1>1, <1>2, RestStep DEF FreshInv

(* What a job or a listener finds is no older than the last upload that    *)
(* was answered, and is dropped or replaced by a newer one only: for any   *)
(* number of requests, with both storages, across crashes and purges,      *)
(* unless an upload met another transfer of the same source.               *)
THEOREM CopiesAreFresh == Spec => []CopyIsFresh
<1>1. FreshInv => CopyIsFresh
  BY DEF FreshInv, Sound, CopyFresh, CopyIsFresh
<1>2. QED
  BY InitFresh, FreshStep, <1>1, PTL DEF Spec

(* An upload that was answered is kept until the meeting's purge begins,   *)
(* whatever requests fail and whenever the process stops.  Excepted are the*)
(* sources an upload of which met another transfer, and every upload once  *)
(* one was under way during a purge.                                       *)
THEOREM AnswersAreKept == Spec => []AckedIsStored
<1>1. FreshInv => AckedIsStored
  <2> SUFFICES ASSUME FreshInv, NEW s \in Sources \ shared, ~late, acked[s] > 0
               PROVE  IF store = "s3" THEN object[s] >= acked[s] ELSE wav[s].version >= acked[s]
    BY DEF AckedIsStored
  <2>1. ObjectFresh(s) /\ CopyFresh(s) /\ InStore(s)
    BY DEF FreshInv, Sound
  <2>2. QED
    BY <2>1 DEF ObjectFresh, CopyFresh, InStore
<1>2. QED
  BY InitFresh, FreshStep, <1>1, PTL DEF Spec

=============================================================================

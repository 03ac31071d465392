----------------------------- MODULE LlmClient ------------------------------
(***************************************************************************)
(* The summary of one meeting by an OpenAI-compatible service:             *)
(* OpenAiCompatExtractor (engines/llm.py).                                 *)
(*                                                                         *)
(* The transcript is cut into chunks at line boundaries and every chunk is *)
(* one validated call.  A chunk the service finds too large is cut in two, *)
(* again and again; the parts are joined by one more call that answers     *)
(* with numbers only.  Every call may be retried, corrected or fail.       *)
(*                                                                         *)
(* A text is the interval of the lines it holds.  Of an answer the model   *)
(* keeps the decisions and the topics: key points are treated as decisions *)
(* are (the best ten of them at most), the minutes and tasks of the parts  *)
(* are concatenated.                                                       *)
(***************************************************************************)
EXTENDS Integers, FiniteSets, SequencesExt

CONSTANTS
    Transcripts,    \* what may be summarised: sequences of line lengths
    Limits,         \* external: the text sizes a service may accept
    Answers,        \* external: what it may find in a chunk
    Merges,         \* external: the numbers it may answer with when it joins parts
    None,           \* no time, no status
    ChunkChars,     \* CHUNK_CHARS
    MinChunk,       \* MIN_CHUNK_CHARS
    Slack,          \* the 200 characters a half may be longer than half
    MaxRetries      \* MAX_RETRIES

ASSUME SizesAssumption ==
    /\ MinChunk \in Nat \ {0} /\ ChunkChars \in Nat /\ ChunkChars >= MinChunk
    /\ Slack \in Nat /\ MaxRetries \in Nat
    /\ MinChunk >= 2 * Slack
ASSUME TranscriptsAssumption == \A s \in Transcripts : s \in Seq(Nat) /\ s # <<>>
ASSUME AnswersAssumption ==
    /\ None \notin Nat
    /\ \A a \in Answers : /\ a.topics \in Seq(ToSet(a.topics))
                         /\ \A t \in ToSet(a.topics) : t.time \in Nat \cup {None}
ASSUME MergesAssumption ==
    \A m \in Merges : /\ m.groups \in Seq(ToSet(m.groups))
                      /\ \A g \in ToSet(m.groups) : g.members \in Seq(ToSet(g.members))

VARIABLES
    lines,          \* the transcript
    limit,          \* external: larger requests are refused
    stage,          \* "chunks", "merge", "done" or "failed"
    work,           \* texts still to extract; the first one is being extracted
    parts,          \* what has been extracted: [text, answer]
    attempt,        \* of _chat at its current call
    corrected,      \* the corrective retry of this chunk has been used
    schemaOk,       \* _json_schema_ok
    result,         \* decisions and topics of the meeting
    reason          \* history: why it failed

callVars == <<attempt, corrected, schemaOk>>
vars == <<lines, limit, stage, work, parts, callVars, result, reason>>

-----------------------------------------------------------------------------
Sum(from, to) == FoldFunctionOnSet(+, 0, lines, from..to)
Size(t) == Sum(t[1], t[2]) + (t[2] - t[1])          \* the lines and the breaks between them

(* Variant: the line breaks are not counted.                                 *)
ChunksNoBreaks(t, chars) ==
    LET upTo[i \in t[1]..t[2]] ==
          IF i = t[1] THEN <<<<i, i>>>>
          ELSE LET from == Last(upTo[i - 1])[1] IN
               IF Sum(from, i) > chars
               THEN Append(upTo[i - 1], <<i, i>>)
               ELSE Append(Front(upTo[i - 1]), <<from, i>>)
    IN  upTo[t[2]]

\* chunk_transcript: a line that would take the last chunk past the limit starts
\* another one.
Chunks(t, chars) ==
    LET upTo[i \in t[1]..t[2]] ==            \* the chunks of the lines up to i
          IF i = t[1] THEN <<<<i, i>>>>
          ELSE LET from == Last(upTo[i - 1])[1] IN
               IF Sum(from, i) + (i - from + 1) > chars
               THEN Append(upTo[i - 1], <<i, i>>)
               ELSE Append(Front(upTo[i - 1]), <<from, i>>)
    IN  upTo[t[2]]

Whole == <<1, Len(lines)>>
Larger(x, y) == IF x > y THEN x ELSE y
Halves(t) == Chunks(t, Larger(Size(t) \div 2 + Slack, MinChunk \div 2))

-----------------------------------------------------------------------------
(* What becomes of the answers.                                            *)

Distinct(s) ==                  \* dict.fromkeys: the first of equals
    LET first == SelectSeq([i \in DOMAIN s |-> i], LAMBDA i : \A j \in 1..(i - 1) : s[j] # s[i])
    IN  [k \in DOMAIN first |-> s[first[k]]]

\* _numbers: the valid numbers, each once.
Numbers(chosen, size) == Distinct(SelectSeq(chosen, LAMBDA v : v \in 1..size))

\* _pick: the chosen items, all of them when nothing usable was chosen.
Pick(items, chosen) ==
    LET nums == Numbers(chosen, Len(items))
    IN  IF nums = <<>> THEN items ELSE [k \in DOMAIN nums |-> items[nums[k]]]

Earlier(s, t) == s # None /\ (t = None \/ s < t)    \* (parse_clock(x) is None, parse_clock(x))
Earliest(times) ==
    IF times \subseteq {None} THEN None
    ELSE CHOOSE s \in times \ {None} : \A t \in times : ~Earlier(t, s)

\* sorted() is stable: an entry of a list is a topic, where it stood, and its time.
Before(x, y) == Earlier(x.time, y.time) \/ (x.time = y.time /\ x.at <= y.at)
InOrder(entries) ==
    [k \in 1..Cardinality(entries) |->
        (CHOOSE x \in entries : Cardinality({y \in entries : Before(y, x)}) = k).topic]

Alone(topics, i) == [title |-> topics[i].title, status |-> topics[i].status,
                     time |-> topics[i].time, members |-> {i}]
AsTheyAre(topics) == [i \in DOMAIN topics |-> Alone(topics, i)]

\* Where a topic goes: to the first group that has its number, or after all of them.
Place(groups, i) ==
    Min({g \in DOMAIN groups : Contains(groups[g].members, i)} \cup {Len(groups) + i})

\* One topic for those that go to a group: the title of the first of its numbers, and
\* the status of the last unless the group has one.
Join(topics, members, group) ==
    LET order == SelectSeq(Numbers(group.members, Len(topics)), LAMBDA i : i \in members)
    IN  [title |-> topics[order[1]].title,
         status |-> IF group.status = None THEN topics[Last(order)].status ELSE group.status,
         time |-> Earliest({topics[i].time : i \in members}),
         members |-> members]

Entry(topics, groups, h) ==
    LET members == {i \in DOMAIN topics : Place(groups, i) = h}
        topic == IF h \in DOMAIN groups THEN Join(topics, members, groups[h])
                                        ELSE Alone(topics, h - Len(groups))
    IN  [at |-> h, time |-> topic.time, topic |-> topic]

(* Variant: only the topics that some group names.                           *)
NamedTopics(topics, groups) ==
    {Entry(topics, groups, h) : h \in {Place(groups, i) : i \in DOMAIN topics} \cap DOMAIN groups}

\* _join_topics: a topic per group that has members left, and the topics of no
\* group as they were.
JoinTopics(topics, groups) ==
    {Entry(topics, groups, h) : h \in {Place(groups, i) : i \in DOMAIN topics}}

\* plain_topics: one per title, where the title came up first, as it was left last.
PlainTopics(topics) ==
    LET same(title) == {i \in DOMAIN topics : topics[i].title = title}
        entry(title) ==
          LET last == topics[Max(same(title))]
          IN  [at |-> Min(same(title)), time |-> None,
               topic |-> [title |-> title, status |-> last.status, time |-> last.time,
                          members |-> same(title)]]
    IN  {entry(topics[i].title) : i \in DOMAIN topics}

AllDecisions(ps) == Distinct(FlattenSeq([k \in DOMAIN ps |-> ps[k].answer.decisions]))
AllTopics(ps) == FlattenSeq([k \in DOMAIN ps |-> ps[k].answer.topics])

NoResult == [decisions |-> <<>>, topics |-> <<>>]

-----------------------------------------------------------------------------
Init ==
    /\ lines \in Transcripts
    /\ limit \in Limits
    /\ stage = "chunks"
    /\ work = Chunks(Whole, ChunkChars)
    /\ parts = <<>>
    /\ attempt = 0
    /\ corrected = FALSE
    /\ schemaOk = TRUE
    /\ result = NoResult
    /\ reason = "none"

NewCall == attempt' = 0 /\ corrected' = FALSE /\ UNCHANGED schemaOk

Finish(r) ==
    /\ stage' = "done"
    /\ result' = r
    /\ NewCall
    /\ UNCHANGED <<lines, limit, work, parts, reason>>

Fail(why) ==
    /\ stage' = "failed"
    /\ reason' = why
    /\ NewCall
    /\ UNCHANGED <<lines, limit, work, parts, result>>

\* The entries of a list of topics become the topics of the meeting.
FinishWith(decisions, list) ==
    \E entries \in {list} : Finish([decisions |-> decisions, topics |-> InOrder(entries)])

\* _chat raises an LlmError: of a chunk it ends the extraction, of the merge it
\* leaves the plain lists.
Raise(why) ==
    IF stage = "merge"
    THEN \E topics \in {AllTopics(parts)} : FinishWith(AllDecisions(parts), PlainTopics(topics))
    ELSE Fail(why)

Again ==
    /\ attempt' = attempt + 1
    /\ UNCHANGED <<lines, limit, stage, work, parts, corrected, schemaOk, result, reason>>

Calling == stage \in {"chunks", "merge"}
Fits == stage = "chunks" => Size(Head(work)) <= limit

\* The connection fails or times out.
NoAnswer ==
    /\ Calling
    /\ IF attempt < MaxRetries THEN Again ELSE Raise("service")

(* Variant: a busy service is asked again without end.                       *)
BusyForever == Calling /\ Again

\* 429, 500, 502, 503 or 504 that waiting may help.
Busy ==
    /\ Calling
    /\ IF attempt < MaxRetries THEN Again ELSE Raise("service")

\* A quota that waiting does not help, 401, any other error.
Refused == Calling /\ Raise("service")

\* A 400 while the schema was sent: the next attempt goes without, for good.
SchemaRefused ==
    /\ stage = "chunks" /\ schemaOk
    /\ schemaOk' = FALSE
    /\ IF attempt < MaxRetries
       THEN /\ attempt' = attempt + 1
            /\ UNCHANGED <<stage, reason, corrected>>
       ELSE /\ stage' = "failed" /\ reason' = "service"
            /\ attempt' = 0 /\ corrected' = FALSE
    /\ UNCHANGED <<lines, limit, work, parts, result>>

(* Variant: the halves are put at the end.                                   *)
TooLargeLater ==
    /\ stage = "chunks" /\ ~Fits
    /\ LET t == Head(work) IN
       IF Size(t) <= MinChunk \/ Len(Halves(t)) < 2
       THEN Fail("size")
       ELSE /\ work' = Tail(work) \o Halves(t)
            /\ NewCall
            /\ UNCHANGED <<lines, limit, stage, parts, result, reason>>

(* Variant: a text that cannot be cut is sent again.                         *)
TooLargeAgain ==
    /\ stage = "chunks" /\ ~Fits
    /\ work' = Halves(Head(work)) \o Tail(work)
    /\ NewCall
    /\ UNCHANGED <<lines, limit, stage, parts, result, reason>>

\* LlmTooLarge: a chunk is replaced by its halves (_extract_fitting).
TooLarge ==
    \/ /\ stage = "chunks" /\ ~Fits
       /\ LET t == Head(work) IN
          IF Size(t) <= MinChunk \/ Len(Halves(t)) < 2
          THEN Fail("size")
          ELSE /\ work' = Halves(t) \o Tail(work)
               /\ NewCall
               /\ UNCHANGED <<lines, limit, stage, parts, result, reason>>
    \/ stage = "merge" /\ Raise("size")

\* A 200 without a message: an exception that nothing here handles.
NoMessage == Calling /\ Fits /\ Fail("malformed")

\* No JSON of the schema, or every field empty: asked once more.
Unusable ==
    /\ Calling /\ Fits
    /\ IF stage = "merge" \/ corrected
       THEN Raise("unusable")
       ELSE /\ corrected' = TRUE
            /\ attempt' = 0
            /\ UNCHANGED <<lines, limit, stage, work, parts, schemaOk, result, reason>>

\* With two parts or more, what they name is merged by one more call, unless it is
\* one thing at most; key points, which are left out here, count too.
Extracted(a) ==
    /\ stage = "chunks" /\ Fits
    /\ parts' = Append(parts, [text |-> Head(work), answer |-> a])
    /\ work' = Tail(work)
    /\ IF work' # <<>>
       THEN UNCHANGED <<stage, result>>
       ELSE IF Len(parts') = 1
            THEN /\ stage' = "done"
                 /\ result' = [decisions |-> a.decisions, topics |-> AsTheyAre(a.topics)]
            ELSE \/ /\ Len(AllDecisions(parts')) + Len(AllTopics(parts')) < 2
                    /\ stage' = "done"
                    /\ result' = [decisions |-> AllDecisions(parts'),
                                  topics |-> AsTheyAre(AllTopics(parts'))]
                 \/ stage' = "merge" /\ UNCHANGED result
    /\ NewCall
    /\ UNCHANGED <<lines, limit, reason>>

Merged(m) ==
    /\ stage = "merge"
    /\ \E topics \in {AllTopics(parts)} :
          FinishWith(Pick(AllDecisions(parts), m.decisions), JoinTopics(topics, m.groups))

Next ==
    \/ NoAnswer \/ Busy \/ Refused \/ SchemaRefused \/ TooLarge \/ NoMessage \/ Unusable
    \/ \E a \in Answers : Extracted(a)
    \/ \E m \in Merges : Merged(m)

Spec == Init /\ [][Next]_vars

\* The client calls, or gives up after its timeout.
FairSpec == Spec /\ WF_vars(Next)

-----------------------------------------------------------------------------
Text == {t \in (1..Len(lines)) \X (1..Len(lines)) : t[1] <= t[2]}

\* Every variable has its type.
TypeOK ==
    /\ lines \in Transcripts /\ limit \in Limits
    /\ stage \in {"chunks", "merge", "done", "failed"}
    /\ work \in Seq(Text)
    /\ parts \in Seq([text : Text, answer : Answers])
    /\ attempt \in 0..MaxRetries
    /\ corrected \in BOOLEAN /\ schemaOk \in BOOLEAN
    /\ reason \in {"none", "service", "size", "malformed", "unusable"}

\* Intervals that follow each other from one line to another.
Consecutive(texts, from, to) ==
    /\ texts # <<>>
    /\ texts[1][1] = from /\ texts[Len(texts)][2] = to
    /\ \A k \in 1..(Len(texts) - 1) : texts[k + 1][1] = texts[k][2] + 1

\* However chunks are cut again, what has been extracted and what is still to
\* extract is the whole transcript, every line once and in order
\* (chunk_transcript, _extract_fitting).
TranscriptCovered ==
    Consecutive([k \in DOMAIN parts |-> parts[k].text] \o work, 1, Len(lines))

\* No request is larger than CHUNK_CHARS unless it is one line, and a text is given
\* up for its size only when it is small or one line ("below this a request that
\* is still 'too large' is a real failure", llm.py:18).
SplitBeforeGivingUp ==
    /\ \A k \in DOMAIN work : work[k][1] < work[k][2] => Size(work[k]) < ChunkChars
    /\ reason = "size" => LET t == Head(work) IN Size(t) <= MinChunk \/ t[1] = t[2]

\* Every topic of every part is in exactly one topic of the meeting, which has a time
\* of one of them; it has none only when none of them has ("a topic no group mentions
\* is kept as it was, so nothing is lost", llm.py:127), or in the plain lists, where
\* the last of a title stands for all (llm.py:257).
TopicsKept ==
    stage = "done" =>
        LET kept == result.topics
            said == AllTopics(parts)
        IN  /\ UNION {kept[k].members : k \in DOMAIN kept} = DOMAIN said
            /\ \A j, k \in DOMAIN kept : j # k => kept[j].members \cap kept[k].members = {}
            /\ \A k \in DOMAIN kept : \E i \in kept[k].members : kept[k].time = said[i].time
            /\ \/ \A k \in DOMAIN kept : \A i \in kept[k].members :
                    kept[k].time # None \/ said[i].time = None
               \/ kept = InOrder(PlainTopics(said))

\* The extraction ends, whatever the service does.
ExtractionEnds == <>(stage \in {"done", "failed"})
=============================================================================

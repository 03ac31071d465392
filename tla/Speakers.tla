------------------------------ MODULE Speakers ------------------------------
(***************************************************************************)
(* Who said what: how the pipeline labels recognised segments with the     *)
(* turns the diarizer found, and finds the person a task is for            *)
(* (pipeline.py).                                                          *)
(*                                                                         *)
(* Times are integers.  A word is [from, to, glued], glued when it         *)
(* continues the word before it; a turn is [from, to, who]; the text of a  *)
(* segment is its words.                                                   *)
(***************************************************************************)
EXTENDS Integers, FiniteSets, SequencesExt

CONSTANTS
    Near,           \* NEAR_MS
    MinRunWords,    \* MIN_RUN_WORDS
    MinRunTime,     \* MIN_RUN_MS
    Tolerance,      \* _TOLERANCE_MS
    Second,         \* one second, the resolution of a printed time
    Nobody,         \* no label
    Utterances,     \* inputs: sequences of words, one after the other
    TurnLists,      \* inputs: sequences of turns
    Meetings,       \* inputs: rows [from, to, who] in the order of their starts
    NameOf,         \* the name of a participant, a sequence of words; <<>> for none
    FirstPerson     \* FIRST_PERSON

ASSUME TimesAssumption ==
    /\ {Near, MinRunWords, MinRunTime, Tolerance} \subseteq Nat
    /\ Second \in Nat \ {0}
ASSUME UtterancesAssumption ==
    \A u \in Utterances :
        /\ u \in Seq([from : Int, to : Int, glued : BOOLEAN]) /\ u # <<>>
        /\ \A i \in 2..Len(u) : u[i - 1].from <= u[i].from /\ u[i - 1].to <= u[i].to

VARIABLES
    words, turns,   \* a recognised segment and what the diarizer found
    rows            \* a labelled meeting

SpeakersInit == words \in Utterances /\ turns \in TurnLists /\ rows \in Meetings
SpeakersSpec == SpeakersInit /\ [][UNCHANGED <<words, turns, rows>>]_<<words, turns, rows>>

-----------------------------------------------------------------------------
Low(a, b) == IF a < b THEN a ELSE b
High(a, b) == IF a > b THEN a ELSE b
Distance(a, b) == High(a, b) - Low(a, b)

\* The first member of I with the least cost.
FirstCheapest(I, cost(_)) ==
    CHOOSE i \in I : \A j \in I : cost(i) < cost(j) \/ (cost(i) = cost(j) /\ i <= j)

AssignSpeaker(from, to) ==
    LET Overlap(i) == Low(to, turns[i].to) - High(from, turns[i].from)
        touching == {i \in DOMAIN turns : Overlap(i) > 0}
    IN  IF touching = {} THEN Nobody
        ELSE turns[FirstCheapest(touching, LAMBDA i : -Overlap(i))].who

LabelAt(time) ==
    LET Away(i) == IF time \in turns[i].from..turns[i].to THEN 0
                   ELSE Low(Distance(time, turns[i].from), Distance(time, turns[i].to))
        close == {i \in DOMAIN turns : Away(i) <= Near}
    IN  IF close = {} THEN Nobody ELSE turns[FirstCheapest(close, Away)].who

Middle(w) == (w.from + w.to) \div 2

\* An unlabelled word takes the label before it, or the first one there is.
Filled(labels) ==
    LET known == {i \in DOMAIN labels : labels[i] # Nobody}
        Source(i) == LET before == {j \in known : j <= i}
                     IN  IF before # {} THEN Max(before) ELSE Min(known)
    IN  [i \in DOMAIN labels |-> labels[Source(i)]]

\* A word that continues the one before it has that one's label.
Glued(labels) ==
    [i \in DOMAIN labels |-> labels[Max({j \in 1..i : j = 1 \/ ~words[j].glued})]]

Solid(first, last) ==
    /\ last - first + 1 >= MinRunWords
    /\ words[last].to - words[first].from >= MinRunTime

-----------------------------------------------------------------------------
(* Runs and pieces of a segment are sets of the indexes they start at; each *)
(* lasts until the next one starts, and has the label of its first word.    *)

EndOf(start, starts, n) ==
    LET later == {j \in starts : j > start} IN IF later = {} THEN n ELSE Min(later) - 1

\* The runs that are not folded into what is before them.
MergedRuns(labels) ==
    LET n == Len(words)
        runs == {i \in 1..n : i = 1 \/ labels[i] # labels[i - 1]}
        piece[i \in 1..n] ==                    \* where the piece of a word starts
            IF i = 1 THEN 1
            ELSE LET before == piece[i - 1] IN
                 IF /\ i \in runs /\ Solid(i, EndOf(i, runs, n))
                    /\ labels[before] # labels[i]
                 THEN i ELSE before
    IN  {i \in 1..n : piece[i] = i}

(* Variant: the first piece may stay too short.                              *)
HeadMergedNot(starts) == starts

\* A first piece that is too short takes the next one to itself, with its label.
HeadMerged(starts) ==
    LET rest == starts \ {1} IN
    IF rest # {} /\ ~Solid(1, Min(rest) - 1) THEN starts \ {Min(rest)} ELSE starts

\* Pieces with one label become one.
JoinedPieces(starts, labels) ==
    {i \in starts : i = 1 \/ labels[Max({j \in starts : j < i})] # labels[i]}

Piece(first, last, who) == [first |-> first, last |-> last, who |-> who]

\* label_segments, for one segment and its words: the set of its pieces.
LabelSegment ==
    LET n == Len(words)
        from == words[1].from
        to == words[n].to
        spoken == AssignSpeaker(from, to)
        middle == LabelAt((from + to) \div 2)
        whole == IF spoken # Nobody THEN spoken ELSE IF middle # Nobody THEN middle ELSE "UNKNOWN"
        heard == [i \in 1..n |-> LabelAt(Middle(words[i]))]
        known == {heard[i] : i \in 1..n} \ {Nobody}
        labels == Glued(Filled(heard))
        starts == JoinedPieces(HeadMerged(MergedRuns(labels)), labels)
    IN  IF n < 2 \/ known = {} THEN {Piece(1, n, whole)}
        ELSE IF Cardinality(known) = 1
             THEN {Piece(1, n, CHOOSE who \in known : TRUE)}
        ELSE {Piece(i, EndOf(i, starts, n), labels[i]) : i \in starts}

-----------------------------------------------------------------------------
\* speaker_at: the first row that may be meant.
SpeakerAt(time) ==
    LET near == {i \in DOMAIN rows : time \in (rows[i].from - Tolerance)..(rows[i].to + Tolerance)}
    IN  IF near = {} THEN Nobody ELSE rows[Min(near)].who

TheOne(set) == CHOOSE who \in set : TRUE

\* match_participant: the exact name, or a first name that only one of them has.
MatchParticipant(name) ==
    LET named == {who \in DOMAIN NameOf : NameOf[who] # <<>>}
        exact == {who \in named : NameOf[who] = name}
        first == {who \in named : NameOf[who][1] = name[1]}
    IN  IF name = <<>> THEN Nobody
        ELSE IF Cardinality(exact) = 1 THEN TheOne(exact)
        ELSE IF Cardinality(first) = 1 THEN TheOne(first)
        ELSE Nobody

\* Who a task that quotes a line is for: its assignee by name, or, where that is "I",
\* whoever spoke then.
Assignee(name, evidence) ==
    LET who == MatchParticipant(name) IN
    IF who = Nobody /\ name \in FirstPerson THEN SpeakerAt(evidence) ELSE who

\* The time of a line is printed in whole seconds, and a task quotes it.
Printed(time) == (time \div Second) * Second

-----------------------------------------------------------------------------
\* A segment that is cut is cut at real turns: every word is in one piece and in no
\* other, none is shorter than a real turn (pipeline.py:33-34), and two that follow
\* each other are of different people - whatever words are unlabelled, glued to the
\* one before, or single words of somebody else.
CutAtRealTurns ==
    LET pieces == LabelSegment
        Within(p) == p.first..p.last
    IN
    /\ \A i \in 1..Len(words) :
          \E p \in pieces : i \in Within(p) /\ \A q \in pieces : i \in Within(q) => q = p
    /\ \A p, q \in pieces : p # q =>
          /\ Solid(p.first, p.last)
          /\ q.first = p.last + 1 => q.who # p.who

\* pipeline.py:209: "Saya kirim laporan" -> whoever said it.  A task in the first
\* person that quotes the time of a line, and no other line has that time, is for the
\* person who spoke the line.
FirstPersonIsWhoSaidIt ==
    \A i \in DOMAIN rows, me \in FirstPerson :
        (\A j \in DOMAIN rows \ {i} : Printed(rows[j].from) # Printed(rows[i].from))
            => Assignee(me, Printed(rows[i].from)) = rows[i].who
=============================================================================

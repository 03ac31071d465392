---------------------------- MODULE MCLlmClient -----------------------------
(* The work on the text of a meeting for TLC: transcripts and answers of   *)
(* LlmClient, whose sizes are scaled (12 characters a request, 6 that are  *)
(* not cut again); recordings of WhisperEngine; and the inputs of Speakers *)
(* (in ticks of 500 ms) and Deadlines, which are pure and are checked on   *)
(* initial states.                                                         *)
EXTENDS LlmClient, WhisperEngine, Speakers, Deadlines

MCTranscripts ==
    UNION {[1..n -> {0, 4, 7}] : n \in 1..3} \cup {<<13>>, <<2, 13, 2>>, <<3, 3, 3, 3>>, <<4, 4, 4, 4>>}

Topic(title, status, time) == [title |-> title, status |-> status, time |-> time]
MCAnswers ==
    {[decisions |-> <<"d1">>, topics |-> <<Topic("x", "open", 2)>>],
     [decisions |-> <<"d2", "d1">>, topics |-> <<Topic("y", "open", 1), Topic("x", "decided", None)>>],
     [decisions |-> <<>>, topics |-> <<>>]}

Group(members, status) == [members |-> members, status |-> status]
MCMerges ==
    {[decisions |-> <<>>, groups |-> <<>>],
     [decisions |-> <<2, 1, 2>>, groups |-> <<Group(<<1, 2>>, None), Group(<<2, 3>>, "decided")>>],
     [decisions |-> <<1>>, groups |-> <<Group(<<9, 3, 1>>, "dropped"), Group(<<>>, None)>>]}

\* Seven words, some of no length; at most one is glued to the one before.
Utterance(widths, glued) ==
    LET Until(i) == SumFunctionOnSet(widths, 1..i)
    IN  [i \in 1..7 |-> [from |-> Until(i - 1), to |-> Until(i), glued |-> i \in glued]]
MCUtterances ==
    {Utterance(widths, glued) :
        widths \in {<<2, 2, 2, 2, 2, 2, 2>>, <<1, 2, 1, 2, 1, 2, 1>>, <<0, 1, 0, 4, 0, 0, 1>>},
        glued \in {{}, {2}, {4}, {7}}}
MCTurnLists ==
    {SelectSeq([i \in 1..7 |-> [from |-> 2 * i - 2, to |-> 2 * i, who |-> who[i]]],
               LAMBDA t : t.who # Nobody) : who \in [1..7 -> {"A", "B", Nobody}]}

\* Around the ends of two Februaries, one of them of a leap year, and of a year.
MCDays == (54..62) \cup (357..370) \cup (392..400) \cup (420..428)
MCPhrases ==
    {[kind |-> k] : k \in {"today", "next week", "this week", "end of month", "next month"}}
    \cup [kind : {"in days", "in weeks"}, number : {0, 1, 6}]
    \cup [kind : {"weekday", "weekday next week"}, weekday : 0..6]
    \cup [kind : {"month day"}, month : {1, 2, 12}, day : {1, 28, 29, 30, 31}]
    \cup [kind : {"iso"}, year : {2028}, month : {2, 13}, day : {0, 29}]

\* One of the four has an input; the other three are at rest.
LlmRests ==
    /\ lines = <<0>> /\ limit = 20 /\ stage = "failed" /\ work = <<Whole>> /\ parts = <<>>
    /\ attempt = 0 /\ corrected = FALSE /\ schemaOk = TRUE
    /\ result = NoResult /\ reason = "service"
WhisperRests ==
    /\ choice = "cpu" /\ model = "none" /\ current = "cpu" /\ fallback = <<>>
    /\ call = "none" /\ calls = MaxCalls
SpeakersRest == words = Utterance(<<1, 1, 1, 1, 1, 1, 1>>, {}) /\ turns = <<>>
DeadlinesRest == phrase = [kind |-> "today"] /\ today = 0

inputs == <<words, turns, rows, phrase, today>>
MCInit ==
    /\ \/ Init /\ WhisperRests /\ SpeakersRest /\ DeadlinesRest
       \/ LlmRests /\ WhisperInit /\ SpeakersRest /\ DeadlinesRest
       \/ LlmRests /\ WhisperRests /\ DeadlinesRest /\ words \in Utterances /\ turns \in TurnLists
       \/ LlmRests /\ WhisperRests /\ SpeakersRest /\ DeadlinesInit
    /\ rows \in Meetings
MCNext ==
    \/ Next /\ UNCHANGED <<whisperVars, inputs>>
    \/ WhisperNext /\ UNCHANGED <<vars, inputs>>
MCSpec ==
    /\ MCInit /\ [][MCNext]_<<vars, whisperVars, inputs>>
    /\ WF_vars(Next /\ UNCHANGED <<whisperVars, inputs>>)
    /\ WF_whisperVars(Attempt /\ UNCHANGED <<vars, inputs>>)

=============================================================================

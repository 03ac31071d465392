\* Transcripts of up to four lines and a service with any of three size limits; seven
\* words and every pattern of turns; three recordings; every day of two years, one of them a leap year.
SPECIFICATION MCSpec
CONSTANTS
    Transcripts <- MCTranscripts
    Limits = {5, 8, 20}
    Answers <- MCAnswers
    Merges <- MCMerges
    None = None
    ChunkChars = 12
    MinChunk = 6
    Slack = 1
    MaxRetries = 2
    FirstChoices = {"gpu", "gpu8", "cpu"}
    MaxCalls = 3
    Near = 6
    MinRunWords = 3
    MinRunTime = 2
    Tolerance = 4
    Second = 2
    Nobody = Nobody
    Utterances <- MCUtterances
    TurnLists <- MCTurnLists
    Meetings = {m}
    NameOf = {}
    FirstPerson = {}
    FirstYear = 2027
    LastYear = 2029
    FirstWeekday = 4
    Unresolved = Unresolved
    Phrases <- MCPhrases
    Days <- MCDays

INVARIANTS
    TypeOK
    TranscriptCovered
    SplitBeforeGivingUp
    TopicsKept
    CutAtRealTurns
    DeadlineIsTheDay
PROPERTIES
    ExtractionEnds
    TranscriptionEnds
CHECK_DEADLOCK FALSE

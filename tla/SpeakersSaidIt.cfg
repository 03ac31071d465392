\* Two people, one after the other.
SPECIFICATION SpeakersSpec
CONSTANTS
    Near = 6
    MinRunWords = 3
    MinRunTime = 2
    Tolerance = 4
    Second = 2
    Nobody = Nobody
    Utterances <- MCUtterances
    TurnLists = {t}
    Meetings <- MCMeetings
    NameOf <- MCNameOf
    FirstPerson <- MCFirstPerson

INVARIANT
    FirstPersonIsWhoSaidIt

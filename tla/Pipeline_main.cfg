SPECIFICATION FairSpec
CONSTANTS
    browser = browser
    play = play
    inactive = inactive
    None = None
    Views = {browser, play}
    Browsers = {browser}
    Unconditional = {play}
    Silent = {}
    Flags = {"f"}
    SourceIds = {1}
    Answers = {"OK", "FAILED"}
    Dcpd = "punctual"
    LanguageChanges = FALSE
    RacingTimeouts = TRUE
    MaxUnanswered = 1
    MaxDeferred = 1
INVARIANT AnswerHasData
INVARIANT OneEntryPerView
INVARIANT FlagsAccounted
PROPERTY ImplementsMailbox
PROPERTY UpdatesGetTheirTurn

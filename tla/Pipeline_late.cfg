SPECIFICATION FairSpec
CONSTANTS
    browser = browser
    play = play
    inactive = inactive
    None = None
    Views = {browser, inactive}
    Browsers = {browser}
    Unconditional = {}
    Silent = {inactive}
    Flags = {}
    SourceIds = {1, 2}
    Answers = {"OK", "FAILED"}
    Dcpd = "late"
    LanguageChanges = TRUE
    RacingTimeouts = FALSE
    MaxUnanswered = 1
    MaxDeferred = 1
CHECK_DEADLOCK FALSE
INVARIANT TimeoutArmed
INVARIANT AsyncScheduled
PROPERTY WaitEnds

SPECIFICATION FairSpec
CONSTANTS
    Files <- MCFiles
    Dirs <- MCDirs
    Above <- MCAbove
    Rank <- MCRank
    Handlers = {1, 2}
    MaxEvents = 3
    MaxInbox = 2
INVARIANTS PublishedOnce AnswersFitBuffers SettledIsExact
PROPERTY TypedIsDiagnosed
CHECK_DEADLOCK FALSE

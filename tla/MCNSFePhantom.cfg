SPECIFICATION Spec
CONSTANTS
    Files <- MCFiles
    DefaultPlayMs = 5
    DefaultFadeMs = 2
    MaxPlayMs = 8
    MaxFadeMs = 6
    NoTitle = ""
    Trimmed <- MCTrimmed
    Placeholders <- MCPlaceholders
    Unread = Unread
    Nil = Nil
INVARIANTS
    TracksWithinCount
CHECK_DEADLOCK FALSE

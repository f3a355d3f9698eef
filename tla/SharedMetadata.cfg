\* Two writers and a reader; a process dies anywhere, is started again, and
\* others go on.
CONSTANTS
    a = a
    b = b
    NUL = NUL
    NoWriter = NoWriter
    Nothing = Nothing
    Writers = {w1, w2}
    Readers = {r1}
    Char <- MCChar
    Titles <- MCTitles
    TitleCapacity = 3
    MaxAttempts = 2
    PublishBudget = 2
    CrashBudget = 1
SPECIFICATION FairSpec
INVARIANTS TypeOK TornOnlyByDeath
PROPERTIES RegisterSpec CompletedWriteReadable NobodyHeldUp

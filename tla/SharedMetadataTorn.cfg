\* A writer's process dies once, then another writer goes on: what is read.
CONSTANTS
    a = a
    b = b
    NUL = NUL
    NoWriter = NoWriter
    Nothing = Nothing
    Writers = {w1, w2}
    Readers = {r1}
    Char <- MCChar
    Titles <- MCTwoTitles
    TitleCapacity = 3
    MaxAttempts = 2
    PublishBudget = 2
    CrashBudget = 1
SPECIFICATION Spec
INVARIANTS NoTornRead

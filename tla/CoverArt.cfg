\* KuGou stores three pictures and removes one while covers are looked for; a
\* preparation fails and the process dies once.
CONSTANTS
    None = None
    Lower <- MCLower
    Songs <- MCSongs
    Places <- MCPlaces
    StoreBudget = 2
    RemoveBudget = 1
    FaultBudget = 1
    CrashBudget = 1
SPECIFICATION Spec
INVARIANTS TypeOK BestFound ReturnedSound ReturnedOwnPicture

\* Two administrators and the reload job.
SPECIFICATION FairSpec
CONSTANTS
    Admin = {a1, a2}
    Text <- Texts
    ServiceId <- Ids
    Name <- Names
    EvaluationOrder = {0}
    InitStore <- Both
    Place <- Backwards
    Reloads = TRUE
    MaxChanges = 3
INVARIANTS TypeOK QuietReloadAgrees
PROPERTY ReloadsConverge

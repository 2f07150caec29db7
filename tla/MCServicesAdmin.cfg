\* One administrator with a page and a form, three services, no reload job.
SPECIFICATION PageSpec
CONSTANTS
    Admin = {a1}
    Tab = a1
    Text <- Texts
    ServiceId <- Ids
    Name <- Names
    EvaluationOrder <- Orders
    InitStore <- Three
    Place <- Backwards
    Reloads = FALSE
    MaxChanges = 3
CHECK_DEADLOCK FALSE
INVARIANTS UniqueServiceIds ServedIsStored ShownIsStored
PROPERTY EvaluatedWhereDropped

\* One administrator and the reload job.
SPECIFICATION Spec
CONSTANTS
    Admin = {a1}
    Text <- Texts
    ServiceId <- Ids
    Name <- Names
    EvaluationOrder = {0}
    InitStore <- MailOnly
    Place <- Backwards
    Reloads = TRUE
    MaxChanges = 2
CHECK_DEADLOCK FALSE
INVARIANT DeletedStaysDeleted

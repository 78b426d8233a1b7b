SPECIFICATION Spec
CONSTANTS
    Requests = {1, 2}
    Mixes <- MCMixes
    ClientIds = {1}
    ReportTries = 2
INVARIANTS
    SessionsAgree
    RecordTruth
    ReportFirst
    CallFindsRun
PROPERTIES
    CompletionIsLast
    RequestReturns
    QuestionEnds
CHECK_DEADLOCK FALSE

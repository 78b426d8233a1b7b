SPECIFICATION Spec
CONSTANTS
    Requests = {1, 2}
    Mixes <- MCMixes
    ClientIds = {1}
    ReportTries = 2
INVARIANT StreamRecordSettled
CHECK_DEADLOCK FALSE

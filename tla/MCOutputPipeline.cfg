CONSTANTS
    NumOutputs = 2
    Capacity = 2
    MaxSamples = 4
SPECIFICATION Spec
INVARIANTS Conservation ReportComplete
PROPERTY ReportGenerated

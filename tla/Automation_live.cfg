SPECIFICATION RuleFairSpec
CONSTANTS
    Jobs = {r1, r2}
    Rules = {1}
    NoOne = NoOne
    MaxEvaluations = 2
PROPERTIES
    JobsEnd
CHECK_DEADLOCK FALSE

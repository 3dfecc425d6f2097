CONSTANTS
    MaxId = 5
    MaxAny = 3
SPECIFICATION SummarySpec
INVARIANTS
    AncestryRight
    RequestsServable
CHECK_DEADLOCK FALSE

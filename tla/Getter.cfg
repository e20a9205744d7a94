SPECIFICATION FairSpec
CONSTANTS
    d1 = d1
    d2 = d2
    v1 = v1
    v2 = v2
    None = None
    Definitions = {d1, d2}
    APIs = {v1, v2}
    MaxFaults = 1
INVARIANTS
    TypeOK
    DefinitionIsKept
PROPERTIES
    LabelsMatch
    LabelsSettle

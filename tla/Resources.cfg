SPECIFICATION FairSpec
CONSTANTS
    comment = comment
    malformed = malformed
    Objects <- MCObjects
    Comment = comment
    Malformed = malformed
    Manifests <- MCManifests
    Core = "core"
    None = None
    Plural <- MCPlural
    Served <- MCServed
    Mappers <- MCMappers
    MaxFaults = 2
    MaxChanges = 2
INVARIANTS
    TypeOK
    DigestsAgree
    ObjectsInOrder
    PathsLeadBack
PROPERTY
    Settles

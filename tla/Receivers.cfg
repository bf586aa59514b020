SPECIFICATION Spec
CONSTANT Responses <- SomeResponses
INVARIANTS
    ObjectsAreCutRight
    NullMeansNoMore
    NoObjectLeaks
PROPERTIES
    RunsLeaveNothing

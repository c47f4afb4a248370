SPECIFICATION Spec
CONSTANT Reports <- MCReports
INVARIANT FailureExitsWithStatusOne

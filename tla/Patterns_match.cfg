SPECIFICATION Spec
CONSTANT Programs <- MCPrograms
INVARIANTS TypeOK MatchesAsWritten RegisteredWhereFound MembersFollowInstances
CHECK_DEADLOCK FALSE

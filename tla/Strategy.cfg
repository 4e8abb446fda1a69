SPECIFICATION CaseSpec
CONSTANTS
    CaseRegistries <- MCRegistries
    IdLists <- MCIdLists
    Grades <- MCGrades
INVARIANTS AudienceExact OneVerdictEach
CHECK_DEADLOCK FALSE

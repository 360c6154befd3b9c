SPECIFICATION MCSpec
INVARIANTS
    AnswersAreTrue
    RecordsAreTrue
    SandboxIsTheRuns
PROPERTIES
    OwnersKeepTheirs
    EveryoneIsServed
CHECK_DEADLOCK FALSE
